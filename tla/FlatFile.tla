------------------------------ MODULE FlatFile ------------------------------
(***************************************************************************)
(* What readi() and writei() promise: a file is one sequence of bytes.     *)
(***************************************************************************)
EXTENDS Naturals, Sequences

CONSTANTS Inode, Byte, MaxBytes
VARIABLE file

(* The sequence s with n times v from offset off on.                       *)
Overlay(s, off, n, v) ==
    [k \in 1 .. (IF off + n > Len(s) THEN off + n ELSE Len(s)) |->
        IF k > off /\ k <= off + n THEN v ELSE s[k]]

(* t is what a write leaves of s.                                          *)
Written(s, t) ==
    \E off \in 0 .. Len(s), v \in Byte : \E n \in 1 .. MaxBytes - off :
       t = Overlay(s, off, n, v)

Init == file \in [Inode -> Seq(Byte \cup {0})]

(* One file is written or truncated, and no other changes.                 *)
Next ==
    \E i \in Inode :
       /\ \A j \in Inode \ {i} : file'[j] = file[j]
       /\ file'[i] = <<>> \/ Written(file[i], file'[i])

Spec == Init /\ [][Next]_file
=============================================================================
