------------------------------- MODULE Portal --------------------------------
(***************************************************************************)
(* The portal: a ring of LEDs on an ESP8266 that shows a turning red, a    *)
(* flow of red or cold colours, or a pulse of TotalPulso passes, as HTTP   *)
(* requests tell it.                                                       *)
(*                                                                         *)
(* Source: proyectos/portal/portal.ino.                                    *)
(*                                                                         *)
(* A pass of loop() is server.handleClient() and the drawing.  Colours are *)
(* left out: tira says which figure was drawn last.                        *)
(***************************************************************************)
EXTENDS Integers

CONSTANTS
    TotalPulso,   \* totalPulso (1000)
    IntMax        \* largest int; it is 2^31 - 1 on the ESP8266

ASSUME PulsoAssumption ==
    TotalPulso \in Nat \ {0} /\ IntMax \in Nat /\ TotalPulso <= IntMax

VARIABLES
    pc,
    state, fase, pulso, tiempoPulso,
    tira,           \* what the pixels show
    pedido,         \* the request the last handleClient() served
    mostrados,      \* history: passes drawn of the pulse, up to TotalPulso
    cortado         \* history: the pulse was cut off by /off or /shutdown

vars == <<pc, state, fase, pulso, tiempoPulso, tira, pedido, mostrados, cortado>>

Fases == {"off", "start", "red", "cold", "apagando"}
Figuras == {"negra", "rueda", "rojo", "frio", "pulso"}

Init ==
    /\ pc = "http"
    /\ state = 0 /\ fase = "off"
    /\ pulso = FALSE /\ tiempoPulso = 0
    /\ tira = "negra"
    /\ pedido = "nada"
    /\ mostrados = 0 /\ cortado = FALSE

-----------------------------------------------------------------------------
(* Requests *)

\* The pulse is not reset, only hidden.
handleReset ==
    /\ state' = 0 /\ fase' = "off"
    /\ tira' = "negra"
    /\ UNCHANGED <<pulso, tiempoPulso, mostrados, cortado>>

handleManual ==
    /\ state' = 1
    /\ UNCHANGED <<fase, pulso, tiempoPulso, tira, mostrados, cortado>>

\* Mutant: another figure restarts the pulse that waits.
muestra_Recuenta(f) ==
    /\ state' = 1 /\ fase' = f
    /\ tiempoPulso' = IF pulso THEN TotalPulso ELSE tiempoPulso
    /\ UNCHANGED <<pulso, tira, mostrados, cortado>>

\* handleOn, handleRed and handleCold
muestra(f) ==
    /\ state' = 1 /\ fase' = f
    /\ UNCHANGED <<pulso, tiempoPulso, tira, mostrados, cortado>>

handleOff ==
    /\ state' = 0 /\ fase' = "off"
    /\ tiempoPulso' = 0 /\ cortado' = TRUE
    /\ tira' = "negra"
    /\ UNCHANGED <<pulso, mostrados>>

handleShutDown ==
    /\ state' = 1 /\ fase' = "apagando"
    /\ tiempoPulso' = 0 /\ cortado' = TRUE
    /\ UNCHANGED <<pulso, tira, mostrados>>

handlePulso ==
    /\ state' = 1 /\ fase' = "off"
    /\ pulso' = TRUE /\ tiempoPulso' = TotalPulso
    /\ mostrados' = 0 /\ cortado' = FALSE
    /\ UNCHANGED tira

handleClient ==
    /\ pc = "http"
    /\ \/ pedido' = "reset" /\ handleReset
       \/ pedido' = "manual" /\ handleManual
       \/ pedido' = "on" /\ muestra("start")
       \/ pedido' = "red" /\ muestra("red")
       \/ pedido' = "cold" /\ muestra("cold")
       \/ pedido' = "off" /\ handleOff
       \/ pedido' = "shutdown" /\ handleShutDown
       \/ pedido' = "pulso" /\ handlePulso
       \/ /\ pedido' = "nada"
          /\ UNCHANGED <<state, fase, pulso, tiempoPulso, tira, mostrados,
                         cortado>>
    /\ pc' = "dibujo"

-----------------------------------------------------------------------------
(* Drawing *)

Decrement(n) == IF n = -IntMax - 1 THEN IntMax ELSE n - 1

updatePulso ==
    /\ tiempoPulso' = Decrement(tiempoPulso)
    /\ pulso' = (tiempoPulso' # 0)
    /\ tira' = "pulso"
    /\ mostrados' = IF mostrados = TotalPulso THEN TotalPulso ELSE mostrados + 1
    /\ UNCHANGED cortado

\* The figure of a phase, drawn whether a pulse waits or not.
dibuja(f, figura) ==
    /\ fase = f
    /\ tira' = figura
    /\ UNCHANGED <<pulso, tiempoPulso, mostrados, cortado>>

\* The pulse is what loop() draws in the phases without a figure of their own.
SinFigura == fase \notin {"start", "red", "cold"}

Dibujo ==
    /\ pc = "dibujo"
    /\ \/ state = 1 /\ dibuja("start", "rueda")
       \/ state = 1 /\ dibuja("red", "rojo")
       \/ state = 1 /\ dibuja("cold", "frio")
       \/ state = 1 /\ SinFigura /\ pulso /\ updatePulso
       \/ /\ state = 0 \/ (SinFigura /\ ~pulso)
          /\ UNCHANGED <<pulso, tiempoPulso, tira, mostrados, cortado>>
    /\ pc' = "http"
    /\ UNCHANGED <<state, fase, pedido>>

Next == handleClient \/ Dibujo

Spec == Init /\ [][Next]_vars

\* loop() is called again and again; nobody promises a request.
FairSpec == Spec /\ WF_vars(Next)

-----------------------------------------------------------------------------

\* Ranges; tiempoPulso, which a spoilt pulse runs below 0, wraps as an int.
TypeOK ==
    /\ pc \in {"http", "dibujo"}
    /\ state \in {0, 1} /\ fase \in Fases
    /\ pulso \in BOOLEAN /\ tiempoPulso \in (-IntMax - 1)..IntMax
    /\ tira \in Figuras
    /\ pedido \in {"nada", "reset", "manual", "on", "red", "cold", "off",
                   "shutdown", "pulso"}
    /\ mostrados \in 0..TotalPulso /\ cortado \in BOOLEAN

\* A portal that is off is dark, whatever it was showing or hiding: the handlers
\* clear the pixels themselves because loop() then draws nothing.
ApagadoNegro == state = 0 => tira = "negra"

\* A pulse lasts TotalPulso passes in total however often /on, /red, /cold or
\* /reset interrupt it and /manual brings it back; only /off and /shutdown,
\* which zero the count and leave the flag, spoil it.
PulsoEntero ==
    /\ pulso /\ ~cortado => /\ tiempoPulso > 0
                            /\ tiempoPulso + mostrados = TotalPulso
    /\ ~pulso => tiempoPulso = 0

\* The inductive invariant.
PortalInv == TypeOK /\ ApagadoNegro /\ PulsoEntero

\* Once the requests stop, a pulse that is shown ends, unless it was spoilt.
PulsoAcaba ==
    <>[](pedido = "nada" /\ ~cortado) => <>[](state = 1 /\ SinFigura => ~pulso)

=============================================================================
