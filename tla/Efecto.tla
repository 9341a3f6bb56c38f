------------------------------- MODULE Efecto --------------------------------
(***************************************************************************)
(* What a prop that answers a request with an effect promises.  A pass of  *)
(* its loop() serves at most one request and then counts: requests set the *)
(* countdown, and only there; every pass with something left takes exactly *)
(* one off it; the output (a tone, a coil, a light) is active only while   *)
(* the countdown runs, and its last pass leaves it inactive.  The lamp,    *)
(* the picture and the thunder are shown to implement it.                  *)
(***************************************************************************)
EXTENDS Integers

CONSTANT Duraciones   \* the countdowns a request may start

VARIABLES
    turno,          \* "http": a request may be served; "manejador": within
                    \* the handler of one; "cuerpo": the rest of the pass
    resto,          \* passes left
    activo          \* the output is active

vars == <<turno, resto, activo>>

Init == turno = "http" /\ resto = 0 /\ activo = FALSE

\* A request starts the countdown, or starts it again; by itself it activates
\* nothing, but its handler may go on.
Pide ==
    /\ turno = "http" /\ turno' \in {"manejador", "cuerpo"}
    /\ resto' \in Duraciones
    /\ activo' \in {activo, FALSE}

\* A reset stops everything at once.
Corta ==
    /\ turno = "http" /\ turno' = "cuerpo"
    /\ resto' = 0 /\ activo' = FALSE

SinPedido == turno = "http" /\ turno' = "cuerpo" /\ UNCHANGED <<resto, activo>>

\* The handler uses the output while the countdown stands.
Titila ==
    /\ turno = "manejador" /\ turno' \in {"manejador", "cuerpo"}
    /\ resto > 0
    /\ activo' \in BOOLEAN
    /\ UNCHANGED resto

\* A pass takes one off the countdown; the last one leaves the output inactive.
Cuenta ==
    /\ turno = "cuerpo" /\ turno' = "http"
    /\ resto > 0
    /\ resto' = resto - 1
    /\ IF resto' = 0 THEN activo' = FALSE ELSE activo' \in BOOLEAN

\* Nothing to count.
Descansa ==
    /\ turno = "cuerpo" /\ turno' = "http"
    /\ resto = 0
    /\ activo' = FALSE
    /\ UNCHANGED resto

Next == Pide \/ Corta \/ SinPedido \/ Titila \/ Cuenta \/ Descansa

Spec == Init /\ [][Next]_vars

=============================================================================
