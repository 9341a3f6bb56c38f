----------------------------- MODULE MCTelefono ------------------------------
(* Values for model checking Telefono. *)
EXTENDS Telefono

\* A number of three different digits, as in the source.
MCObjetivo == <<1, 2, 0>>

=============================================================================
