------------------------------ MODULE MCBackup ------------------------------
(***************************************************************************)
(* BackupTransfer of a small file.  A file that ends with a block, and one *)
(* that ends with a short block: the two ways the last read can go.        *)
(***************************************************************************)
EXTENDS BackupTransfer

FullBlocks == {2 * BlockSize}
BothEnds   == FullBlocks \union {2 * BlockSize + 1}
=============================================================================
