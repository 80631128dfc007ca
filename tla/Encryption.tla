------------------------------ MODULE Encryption ------------------------------
(***************************************************************************)
(* Encryption at rest (db/encryption.py): what a process with a list of    *)
(* keys can write and read, and how long the texts it stores become.  The  *)
(* cipher is perfect: a ciphertext opens under its own key and no other.   *)
(***************************************************************************)
EXTENDS Integers, Sequences

\* A stored value: the plaintext and the key it is encrypted under.
Ciphertext(K, V) == [key : K, value : V]

Keys(ring) == {ring[i] : i \in DOMAIN ring}

\* MultiFernet encrypts under the first key of settings.encryption_keys ...
Primary(ring) == ring[1]

Encrypt(ring, value) == [key |-> Primary(ring), value |-> value]

\* Fault: only the key that encrypts is tried.
OpensWithPrimary(ring, row) == row.key = Primary(ring)

\* ... and decrypts under any of them; DecryptionError otherwise.
Opens(ring, row) == row.key \in Keys(ring)

-----------------------------------------------------------------------------
(* Lengths *)

\* Fault: the text is encrypted as JSON, whose escapes take three bytes for one.
FernetLengthJSON(bytes) == ((57 + ((3 * bytes) \div 16 + 1) * 16 + 2) \div 3) * 4

\* The length of an encrypted text: version, time, IV and HMAC take 57 bytes,
\* padding brings the plaintext to the next multiple of 16 beyond it, base64
\* turns each three bytes, or what is left of three, into four characters.
FernetLength(bytes) == ((57 + (bytes \div 16 + 1) * 16 + 2) \div 3) * 4

\* The column EncryptedString(length) asks for, a character being at most four
\* bytes of UTF-8.
ColumnLength(length) ==
    LET max_bytes  == length * 4
        padded_len == (max_bytes \div 16 + 1) * 16
        binary_len == 57 + padded_len
    IN  ((binary_len + 2) \div 3) * 4
===============================================================================
