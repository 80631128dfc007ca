---------------------------- MODULE EncryptionProofs ---------------------------
(***************************************************************************)
(* Proofs about Encryption: how long a ciphertext becomes.                 *)
(***************************************************************************)
EXTENDS Encryption, TLAPS

\* Fernet's length never falls when the plaintext grows.
LEMMA LengthGrows ==
    ASSUME NEW m \in Nat, NEW n \in Nat, m <= n
    PROVE  FernetLength(m) <= FernetLength(n)
BY DEF FernetLength

\* The column EncryptedString(length) asks for holds the ciphertext of every
\* text of at most that many characters, whichever characters they are.
THEOREM ColumnHolds ==
    ASSUME NEW length \in Nat, NEW bytes \in Nat, bytes <= 4 * length
    PROVE  FernetLength(bytes) <= ColumnLength(length)
<1>1. 4 * length \in Nat /\ length * 4 = 4 * length
  OBVIOUS
<1>2. FernetLength(bytes) <= FernetLength(4 * length)
  BY <1>1, LengthGrows
<1>3. FernetLength(4 * length) = ColumnLength(length)
  BY <1>1 DEF FernetLength, ColumnLength
<1> QED  BY <1>2, <1>3

\* The ciphertext of a text of at most 446 bytes takes no more than 1024
\* characters, as the migration allows for an access token.
LEMMA ShortTextFits ==
    ASSUME NEW bytes \in Nat, bytes <= 446
    PROVE  FernetLength(bytes) <= 1024
<1>1. FernetLength(446) = 676
  BY DEF FernetLength
<1>2. FernetLength(bytes) <= FernetLength(446)
  BY LengthGrows
<1>3. FernetLength(bytes) \in Int
  BY DEF FernetLength
<1> QED  BY <1>1, <1>2, <1>3
===============================================================================
