------------------------------ MODULE MCBuffer -------------------------------
(* Buffer with small sizes, for TLC: any input of up to three bytes. *)
EXTENDS Buffer

TwoBytes == {0, 1}
UpToThree == UNION {[1 .. n -> TwoBytes] : n \in 1 .. 3}
==============================================================================
