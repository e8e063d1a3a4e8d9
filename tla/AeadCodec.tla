----------------------------- MODULE AeadCodec -----------------------------
(***************************************************************************)
(* EncryptChunk and DecryptChunk (blobfuse-launcher/encryptor/             *)
(* aes_encryption.go): AES-GCM with a fresh random nonce per chunk.        *)
(*                                                                         *)
(* Keys and nonces are records of an identity and a length in bytes.  The  *)
(* output of gcm.Seal is a sealed message that remembers the key, nonce    *)
(* and plaintext it was sealed with, and is 16 bytes longer than the       *)
(* plaintext (the tag).  Any other byte string of length n is Junk(n).     *)
(* gcm.Open authenticates exactly the sealed messages of its key and       *)
(* nonce; everything else fails the tag check.                             *)
(***************************************************************************)
EXTENDS Naturals, Sequences

GcmNonceSize == 12            \* gcm.NonceSize() for cipher.NewGCM
GcmTagSize   == 16            \* the tag gcm.Seal appends
AesKeySizes  == {16, 24, 32}  \* AES-128, AES-192, AES-256

Junk(n) == [kind |-> "junk", len |-> n]
NoBytes == Junk(0)

Sealed(key, nonce, pt) ==
    [kind |-> "sealed", key |-> key.id, nonce |-> nonce.id, pt |-> pt,
     len |-> Len(pt) + GcmTagSize]

\* aes.NewCipher returns KeySizeError unless the key has an AES length;
\* cipher.NewGCM of an AES block (16-byte block size) cannot fail.
NewCipher(key) == key.len \in AesKeySizes

\* EncryptChunk(data, key) with the nonce rand.Read filled in, or with
\* rand.Read failing (randOk = FALSE).
EncryptChunk(data, key, nonce, randOk) ==
    CASE ~NewCipher(key) -> [err |-> "KeySize", ct |-> NoBytes, nonce |-> NoBytes]
      [] ~randOk -> [err |-> "rand", ct |-> NoBytes, nonce |-> NoBytes]
      [] OTHER -> [err |-> "nil", ct |-> Sealed(key, nonce, data), nonce |-> nonce]

\* gcm.Open: it panics on a nonce of the wrong length, and fails (errOpen)
\* on input shorter than a tag or on a tag mismatch.
Open(nonce, ct, key) ==
    CASE nonce.len # GcmNonceSize -> [err |-> "panic", pt |-> <<>>]
      [] ct.len < GcmTagSize -> [err |-> "open", pt |-> <<>>]
      [] ct.kind = "sealed" /\ ct.key = key.id /\ ct.nonce = nonce.id
           /\ ct.len = Len(ct.pt) + GcmTagSize -> [err |-> "nil", pt |-> ct.pt]
      [] OTHER -> [err |-> "open", pt |-> <<>>]

\* DecryptChunk(cipherText, nonce, key).
DecryptChunk(ct, nonce, key) ==
    IF ~NewCipher(key) THEN [err |-> "KeySize", pt |-> <<>>]
    ELSE Open(nonce, ct, key)

=============================================================================
