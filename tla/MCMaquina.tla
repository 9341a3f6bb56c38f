------------------------------ MODULE MCMaquina ------------------------------
(* Small values of the constants of Maquina for TLC. *)
EXTENDS Maquina

\* A shorter flash than any in rayoAvanza, different on even and odd stages.
MCTurbinaLoops == [g \in 1..4 |-> 1 + (g % 2)]
MCTurbinaUno == [g \in 1..4 |-> 1]

=============================================================================
