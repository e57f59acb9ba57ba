-------------------------------- MODULE Fifo --------------------------------
(***************************************************************************)
(* What a pipe promises: one bounded queue of bytes.  A read takes one or  *)
(* more bytes from its head, or reports end of file once the last writer   *)
(* is gone and the queue is empty.                                         *)
(***************************************************************************)
EXTENDS Integers, Sequences

CONSTANTS Proc, Byte, Size, NoResult

VARIABLES q,     \* the bytes in the pipe
          ended, \* no writer is left
          got    \* what a read that is about to return has got

fvars == <<q, ended, got>>

FInit ==
  /\ q = <<>>
  /\ ended = FALSE
  /\ got = [p \in Proc |-> NoResult]

Put ==
  /\ ~ended
  /\ \E n \in 1 .. Size - Len(q) : \E s \in [1 .. n -> Byte] : q' = q \o s
  /\ UNCHANGED <<ended, got>>

Get(p) ==
  /\ \E n \in 1 .. Len(q) :
       /\ got' = [got EXCEPT ![p] = SubSeq(q, 1, n)]
       /\ q' = SubSeq(q, n + 1, Len(q))
  /\ UNCHANGED ended

EndOfFile(p) ==
  /\ ended /\ q = <<>>
  /\ got' = [got EXCEPT ![p] = <<>>]
  /\ UNCHANGED <<q, ended>>

Return(p) ==
  /\ got' = [got EXCEPT ![p] = NoResult]
  /\ UNCHANGED <<q, ended>>

End ==
  /\ ended' = TRUE
  /\ UNCHANGED <<q, got>>

FNext == Put \/ End \/ \E p \in Proc : Get(p) \/ EndOfFile(p) \/ Return(p)

FSpec == FInit /\ [][FNext]_fvars
=============================================================================
