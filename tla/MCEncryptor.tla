---------------------------- MODULE MCEncryptor ----------------------------
(***************************************************************************)
(* Model-checking instance of Encryptor: two file names, two worker        *)
(* goroutines, 2-byte blocks and up to 3 blocks per file, so that a file   *)
(* can have full blocks, a padded last block and a trailer slot, and two   *)
(* stages can be in flight at once.                                        *)
(***************************************************************************)
EXTENDS Encryptor

CONSTANTS f1, f2, t1, t2, d1, r1

MCNames == {f1, f2}
MCThreads == {t1, t2}
MCBlockSize == 2
MCMaxBlocks == 3
MCMaxCreates == 2
MCDirs == {d1}
MCReaders == {r1}
\* A 32-byte (AES-256) key, as spec 3 requires.
MCKey == [id |-> "k", len |-> 32]

=============================================================================
