---------------------------- MODULE BlockLayout ----------------------------
(***************************************************************************)
(* The on-disk layout of an encrypted file written by the blobfuse         *)
(* encryptor component (src/src/blobfuse-launcher/encryptor):              *)
(*                                                                         *)
(*   record 0 | record 1 | ... | record N-1 | 8-byte trailer               *)
(*                                                                         *)
(* A record is nonce (12) || ciphertext (BlockSize) || GCM tag (16).  The  *)
(* trailer is the big-endian padding length of the last block.  All       *)
(* offsets are in bytes; the operators are the code's own arithmetic.      *)
(***************************************************************************)
EXTENDS Integers

CONSTANT BlockSize   \* e.blockSize, plaintext bytes per block

ASSUME BlockSize \in Nat \ {0}

NonceSize   == 12
AuthTagSize == 16
MetaSize    == NonceSize + AuthTagSize
TrailerSize == 8

\* Bytes one encrypted block occupies on disk.
RecordSize == BlockSize + MetaSize

\* Block index of a plaintext offset (opt.Offset / e.blockSize).
BlockIndex(off) == off \div BlockSize

\* Physical offset of the record of block idx (encryptedChunkOffset).
ChunkOffset(idx) == idx * RecordSize

\* Physical offset of the trailer after block farthest (endoffset).
TrailerOffset(farthest) == (farthest + 1) * RecordSize

\* Zero bytes StageData appends to a block of dataLen bytes.
PaddingLength(dataLen) ==
    IF dataLen < BlockSize THEN BlockSize - dataLen ELSE 0

\* checkForActualFileSize: the number of whole records in a file of
\* physical size p, whether p leaves room for a trailer after them, and
\* the logical size given the value the trailer bytes decode to.
TotalBlocks(p) == p \div RecordSize

HasTrailer(p) == p >= TotalBlocks(p) * RecordSize + TrailerSize

ActualFileSize(p, padding) ==
    IF ~HasTrailer(p) THEN 0
    ELSE p - padding - TotalBlocks(p) * MetaSize - TrailerSize

=============================================================================
