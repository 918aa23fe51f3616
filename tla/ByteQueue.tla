------------------------------ MODULE ByteQueue ------------------------------
(* What a Buffer promises: bytes come out in the order they went in. *)
EXTENDS Naturals, Sequences

CONSTANT Inputs  \* what is written at a time

VARIABLES data,  \* what went in and did not come out yet
          given  \* what the last step wrote, <<>> if it took

vars == <<data, given>>

Init == data = <<>> /\ given = <<>>

Write(d) == data' = data \o d /\ given' = d

Take(n) == data' = SubSeq(data, n + 1, Len(data)) /\ given' = <<>>

Next == (\E d \in Inputs : Write(d)) \/ (\E n \in 1 .. Len(data) : Take(n))

Spec == Init /\ [][Next]_vars
==============================================================================
