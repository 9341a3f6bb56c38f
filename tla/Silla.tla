-------------------------------- MODULE Silla --------------------------------
(***************************************************************************)
(* The electric chair: an ESP8266 that, once it is armed (lista), reports  *)
(* over UDP when somebody closes the contact of the chair and when the     *)
(* contact has been lost for OffLimit passes of loop().                    *)
(*                                                                         *)
(* Source: proyectos/silla-electrica/silla-electrica.ino.                  *)
(*                                                                         *)
(* A pass of loop() is two steps: server.handleClient(), which runs at     *)
(* most one HTTP handler, and the rest.  The contact moves at any time.    *)
(***************************************************************************)
EXTENDS Integers

CONSTANTS
    OffLimit,   \* passes without contact before SILLA OFF (50)
    IntMax      \* largest int; it is 2^31 - 1 on the ESP8266

ASSUME OffAssumption == OffLimit \in Nat \ {0}
ASSUME IntAssumption == IntMax \in Nat /\ OffLimit <= IntMax

VARIABLES
    pc,
    contacto,               \* level of the pin silla
    sillaOn, sillaOnOld,
    offCounter,
    lista,
    plasma,                 \* level of the relay to the plasma
    pedido,                 \* the request the last handleClient() served
    reportado,              \* the last packet sent to the PC
    silencio                \* history: passes in a row without an armed
                            \* contact, counted up to OffLimit

vars == <<pc, contacto, sillaOn, sillaOnOld, offCounter, lista, plasma, pedido,
          reportado, silencio>>

Init ==
    /\ pc = "http"
    /\ contacto \in BOOLEAN
    /\ sillaOn = FALSE /\ sillaOnOld = FALSE
    /\ offCounter = 0
    /\ lista = FALSE /\ plasma = FALSE
    /\ pedido = "nada" /\ reportado = "nada"
    /\ silencio = 0

-----------------------------------------------------------------------------

\* Mutant: a reset that does not tell the PC.
handleReset_Callado ==
    /\ sillaOn' = FALSE /\ sillaOnOld' = FALSE
    /\ plasma' = FALSE /\ lista' = FALSE
    /\ UNCHANGED <<offCounter, reportado>>

handleReset ==
    /\ reportado' = "OFF"
    /\ sillaOn' = FALSE /\ sillaOnOld' = FALSE
    /\ plasma' = FALSE /\ lista' = FALSE
    /\ UNCHANGED offCounter

handleManual ==
    /\ lista' = TRUE /\ plasma' = TRUE
    /\ sillaOn' = TRUE /\ sillaOnOld' = FALSE
    /\ offCounter' = 0
    /\ UNCHANGED reportado

\* Mutant: arming an armed chair restarts the count.
handleLista_Recuenta ==
    /\ lista' = TRUE /\ plasma' = TRUE
    /\ offCounter' = 0
    /\ UNCHANGED <<sillaOn, sillaOnOld, reportado>>

handleLista ==
    /\ lista' = TRUE /\ plasma' = TRUE
    /\ UNCHANGED <<sillaOn, sillaOnOld, offCounter, reportado>>

\* server.handleClient(): one pending request, or none (or /, /test and unknown
\* paths, which only answer).
handleClient ==
    /\ pc = "http"
    /\ \/ pedido' = "reset" /\ handleReset
       \/ pedido' = "manual" /\ handleManual
       \/ pedido' = "lista" /\ handleLista
       \/ /\ pedido' = "nada"
          /\ UNCHANGED <<sillaOn, sillaOnOld, offCounter, lista, plasma,
                         reportado>>
    /\ pc' = "cuerpo"
    /\ UNCHANGED <<contacto, silencio>>

Increment(n) == IF n = IntMax THEN -IntMax - 1 ELSE n + 1

\* Armed and in contact, as the pass has just read the pin: the report is sent on the first pass.
Contacto ==
    /\ lista /\ sillaOn'
    /\ offCounter' = 0
    /\ sillaOnOld' = TRUE
    /\ IF ~sillaOnOld THEN reportado' = "ON" /\ plasma' = TRUE
                      ELSE UNCHANGED <<reportado, plasma>>
    /\ silencio' = 0

\* Not armed or no contact: the pass is counted, the OffLimit-th is reported.
SinContacto ==
    /\ ~(lista /\ sillaOn')
    /\ offCounter' = Increment(offCounter)
    /\ sillaOnOld' = FALSE
    /\ reportado' = IF offCounter' = OffLimit THEN "OFF" ELSE reportado
    /\ silencio' = IF silencio = OffLimit THEN OffLimit ELSE silencio + 1
    /\ UNCHANGED plasma

\* Mutant: what /manual stored counts as contact.
Cuerpo_Manual ==
    /\ pc = "cuerpo"
    /\ sillaOn' = (contacto \/ (sillaOn /\ pedido = "manual"))
    /\ Contacto \/ SinContacto
    /\ pc' = "http"
    /\ UNCHANGED <<contacto, lista, pedido>>

\* The rest of loop(): the pin overwrites what /manual may have stored.
Cuerpo ==
    /\ pc = "cuerpo"
    /\ sillaOn' = contacto
    /\ Contacto \/ SinContacto
    /\ pc' = "http"
    /\ UNCHANGED <<contacto, lista, pedido>>

\* Somebody touches or lets go of the chair.
MueveContacto ==
    /\ contacto' = ~contacto
    /\ UNCHANGED <<pc, sillaOn, sillaOnOld, offCounter, lista, plasma, pedido,
                   reportado, silencio>>

Programa == handleClient \/ Cuerpo

Next == Programa \/ MueveContacto

Spec == Init /\ [][Next]_vars

\* loop() is called again and again; nobody promises a request or a touch.
FairSpec == Spec /\ WF_vars(Programa)

-----------------------------------------------------------------------------

\* Ranges; offCounter wraps as an int.
TypeOK ==
    /\ pc \in {"http", "cuerpo"}
    /\ contacto \in BOOLEAN /\ sillaOn \in BOOLEAN /\ sillaOnOld \in BOOLEAN
    /\ offCounter \in (-IntMax - 1)..IntMax
    /\ lista \in BOOLEAN /\ plasma \in BOOLEAN
    /\ pedido \in {"nada", "reset", "manual", "lista"}
    /\ reportado \in {"nada", "ON", "OFF"}
    /\ silencio \in 0..OffLimit

\* While the PC believes the chair is on, the count towards SILLA OFF has not
\* passed the one value loop() tests for: the OFF is still to come.  It needs
\* every way of becoming ON to restart the count, and handleReset, which does
\* not restart it, to report OFF itself.
OffPendiente == reportado = "ON" => 0 <= offCounter /\ offCounter < OffLimit

\* A chair that is not armed, or was disarmed by a reset, never counts as on
\* for the PC, and a loop that saw contact has reported it.
OnSoloLista ==
    /\ reportado = "ON" => lista
    /\ sillaOnOld => reportado = "ON"

\* The plasma shows the players whether the chair is armed, however reports
\* and requests interleave.
PlasmaMuestraLista == plasma <=> lista

\* offCounter never runs ahead of the passes it stands for, whatever resets
\* and manual calls do to it, also after it wraps.
CuentaHonesta ==
    /\ offCounter < 0 => silencio = OffLimit
    /\ offCounter <= silencio \/ silencio = OffLimit

\* The inductive invariant.
SillaInv ==
    /\ TypeOK /\ OffPendiente /\ OnSoloLista /\ PlasmaMuestraLista
    /\ CuentaHonesta

\* SILLA OFF follows SILLA ON only by a reset or after OffLimit passes in a
\* row without contact: no glitch, however often repeated, adds up to an OFF.
\* SILLA ON is sent only for somebody on an armed chair: the sillaOn that
\* /manual sets is never reported.
ReporteJustificado ==
    [][/\ reportado = "ON" /\ reportado' = "OFF" =>
            pedido' = "reset" \/ silencio' = OffLimit
       /\ reportado # "ON" /\ reportado' = "ON" => contacto /\ lista]_vars

\* Contact kept on an armed chair is reported, for good; a lost contact is
\* reported too, unless /manual keeps restarting the count.
ContactoAvisado ==
    /\ <>[](contacto /\ lista) => <>[](reportado = "ON")
    /\ <>[](~contacto /\ pedido # "manual") => <>[](reportado # "ON")

=============================================================================
