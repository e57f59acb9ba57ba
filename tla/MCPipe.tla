------------------------------- MODULE MCPipe -------------------------------
(* Pipe for TLC: messages that fit, that fill the pipe and that do not fit. *)
EXTENDS Pipe, TLC

(* For liveness the values of the bytes do not matter. *)
MCZeros == {<<0>>, <<0, 0, 0>>}

MCMessages == {<<0>>, <<1, 0>>, <<0, 1, 1>>}

=============================================================================
