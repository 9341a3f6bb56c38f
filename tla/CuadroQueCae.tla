----------------------------- MODULE CuadroQueCae ----------------------------
(***************************************************************************)
(* The picture that falls: /tirar makes a solenoid strike Repeticiones     *)
(* times, one half stroke per pass of loop().                              *)
(*                                                                         *)
(* Source: proyectos/cuadro-que-cae/cuadro-que-cae.ino.                    *)
(***************************************************************************)
EXTENDS Integers

CONSTANT Repeticiones   \* repeticiones (3)

\* There is a stroke to make.
RepeticionesSuficientes == Repeticiones \in Nat \ {0}

VARIABLES
    pc,
    falling, fallen, adentro, currentRepeticiones,
    solenoid,       \* level of the pin
    pedido,         \* the request the last handleClient() served
    golpes          \* history: strokes since the last /tirar

vars == <<pc, falling, fallen, adentro, currentRepeticiones, solenoid, pedido,
          golpes>>

Init ==
    /\ pc = "http"
    /\ falling = FALSE /\ fallen = FALSE /\ adentro = FALSE
    /\ currentRepeticiones = 0
    /\ solenoid = FALSE
    /\ pedido = "nada" /\ golpes = 0

-----------------------------------------------------------------------------

handleReset ==
    /\ falling' = FALSE /\ fallen' = FALSE /\ adentro' = FALSE
    /\ currentRepeticiones' = 0
    /\ solenoid' = FALSE

\* Mutant: a second /tirar goes on from where the first one is.
handleManual_Sigue ==
    /\ falling' = TRUE
    /\ currentRepeticiones' = Repeticiones
    /\ golpes' = 0
    /\ UNCHANGED <<fallen, adentro, solenoid>>

\* /manual and /tirar
handleManual ==
    /\ falling' = TRUE /\ adentro' = FALSE
    /\ solenoid' = FALSE
    /\ currentRepeticiones' = Repeticiones
    /\ golpes' = 0
    /\ UNCHANGED fallen

handleClient ==
    /\ pc = "http"
    /\ \/ pedido' = "reset" /\ handleReset /\ UNCHANGED golpes
       \/ pedido' = "tirar" /\ handleManual
       \/ /\ pedido' = "nada"
          /\ UNCHANGED <<falling, fallen, adentro, currentRepeticiones,
                         solenoid, golpes>>
    /\ pc' = "cuerpo"

-----------------------------------------------------------------------------

\* Mutant: the last stroke starts the next series.
Golpe_SinFin ==
    LET quedan == IF adentro THEN currentRepeticiones - 1
                             ELSE currentRepeticiones
    IN  /\ falling
        /\ solenoid' = ~adentro /\ adentro' = ~adentro
        /\ currentRepeticiones' = IF quedan = 0 THEN Repeticiones ELSE quedan
        /\ golpes' = IF quedan = 0 THEN 0
                     ELSE IF adentro THEN golpes ELSE golpes + 1
        /\ UNCHANGED <<falling, fallen>>

\* Half a stroke: the coil pushes, or lets go and the stroke is counted.  After
\* the last one handleReset() is called.  (The source then says fallen == true,
\* a comparison.)
Golpe ==
    LET quedan == IF adentro THEN currentRepeticiones - 1
                             ELSE currentRepeticiones
    IN  /\ falling
        /\ IF quedan = 0
           THEN handleReset
           ELSE /\ solenoid' = ~adentro /\ adentro' = ~adentro
                /\ currentRepeticiones' = quedan
                /\ UNCHANGED <<falling, fallen>>
        /\ golpes' = IF adentro THEN golpes ELSE golpes + 1

Cuerpo ==
    /\ pc = "cuerpo"
    /\ \/ Golpe
       \/ /\ ~falling
          /\ UNCHANGED <<falling, fallen, adentro, currentRepeticiones,
                         solenoid, golpes>>
    /\ pc' = "http"
    /\ UNCHANGED pedido

Next == handleClient \/ Cuerpo

Spec == Init /\ [][Next]_vars

\* loop() is called again and again; nobody promises a request.
FairSpec == Spec /\ WF_vars(Next)

-----------------------------------------------------------------------------

\* Strokes made and strokes left stay between 0 and Repeticiones.
TypeOK ==
    /\ pc \in {"http", "cuerpo"}
    /\ falling \in BOOLEAN /\ fallen \in BOOLEAN /\ adentro \in BOOLEAN
    /\ solenoid \in BOOLEAN
    /\ currentRepeticiones \in 0..Repeticiones
    /\ pedido \in {"nada", "reset", "tirar"}
    /\ golpes \in 0..Repeticiones

Uno(b) == IF b THEN 1 ELSE 0

\* The strokes made and the strokes left add up to Repeticiones, wherever a
\* request interrupts the stroke: each /tirar strikes Repeticiones times, the
\* count never passes the 0 it is compared with, and no stroke is left half done.
GolpesContados ==
    /\ falling => golpes + currentRepeticiones = Repeticiones + Uno(adentro)
    /\ falling <=> currentRepeticiones > 0
    /\ adentro => falling

\* A coil that is not striking carries no current.
SolenoideSuelto == solenoid => falling /\ adentro

\* What holds in every state.
CuadroInv == TypeOK /\ GolpesContados /\ SolenoideSuelto

\* The picture as an effect: the half strokes that are left and the coil.
E == INSTANCE Efecto
       WITH turno <- pc, resto <- 2 * currentRepeticiones - Uno(adentro),
            activo <- solenoid, Duraciones <- {2 * Repeticiones}

\* Unless /tirar is called for ever the coil comes to rest.
QuedaQuieto == <>[](pedido # "tirar") => <>[](~falling /\ ~solenoid)

=============================================================================
