----------------------------- MODULE MCBlockMap -----------------------------
(* A root and a file of up to three blocks, one of them direct, and the    *)
(* indirect block, on a disk that can run full.                            *)
EXTENDS BlockMap

MCByte == {1, 2}
MCSizes == {1, 2}
=============================================================================
