-------------------------------- MODULE Fifo ---------------------------------
(***************************************************************************)
(* What a receive buffer promises: what came down the line is queued, the  *)
(* same bytes in the same order, as far as there is room; only what finds  *)
(* no room is lost; and what is read leaves the queue once, from its head. *)
(***************************************************************************)
EXTENDS Integers, Sequences

CONSTANT Capacidad

VARIABLES
    entrada,        \* bytes that have come and are not yet queued
    cola,
    leidos

vars == <<entrada, cola, leidos>>

Init == entrada = <<>> /\ cola = <<>> /\ leidos = <<>>

\* One more byte comes, after the ones that wait.
Viene ==
    /\ Len(entrada') = Len(entrada) + 1
    /\ SubSeq(entrada', 1, Len(entrada)) = entrada
    /\ UNCHANGED <<cola, leidos>>

\* The bytes that wait are queued; as many as find no room are lost.
Llega ==
    LET lugar == Capacidad - Len(cola)
        caben == IF Len(entrada) < lugar THEN Len(entrada) ELSE lugar
    IN  /\ entrada # <<>>
        /\ entrada' = <<>>
        /\ cola' = cola \o SubSeq(entrada, 1, caben)
        /\ UNCHANGED leidos

Lee ==
    /\ cola # <<>>
    /\ leidos' = Append(leidos, Head(cola))
    /\ cola' = Tail(cola)
    /\ UNCHANGED entrada

Next == Viene \/ Llega \/ Lee

Spec == Init /\ [][Next]_vars

=============================================================================
