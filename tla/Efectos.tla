------------------------------- MODULE Efectos -------------------------------
(***************************************************************************)
(* The props that only produce an effect on request or for a card: the     *)
(* portal, the bedside lamp (V), the picture that falls (C), the thunder   *)
(* (T) and the picture with the reader (R).  They run on separate          *)
(* controllers and share nothing, so every property of one of them is      *)
(* checked with one controller at work and the others as they were         *)
(* switched on; equipo is the one at work.                                 *)
(***************************************************************************)
EXTENDS Portal

CONSTANTS TiempoBuzz, Repeticiones, TiempoTrueno, TiempoManual, Formas,
          Destellos

VARIABLES
    equipo,
    vpc, isOn, buzzCounter, luz, tono, vpedido, atendido,
    cpc, falling, fallen, adentro, currentRepeticiones, solenoid, cpedido,
    golpes,
    tpc, truenoCounter, formas, destellos, pixeles, brillo, tluz, tpedido,
    rpc, validado, laser, tarjeta, callada, enviado, rpedido, ganadas, forzado

vvars == <<vpc, isOn, buzzCounter, luz, tono, vpedido, atendido>>

cvars == <<cpc, falling, fallen, adentro, currentRepeticiones, solenoid,
           cpedido, golpes>>

tvars == <<tpc, truenoCounter, formas, destellos, pixeles, brillo, tluz,
           tpedido>>

rvars == <<rpc, validado, laser, tarjeta, callada, enviado, rpedido, ganadas,
           forzado>>

V == INSTANCE Velador WITH pc <- vpc, pedido <- vpedido

C == INSTANCE CuadroQueCae WITH pc <- cpc, pedido <- cpedido

T == INSTANCE Trueno WITH pc <- tpc, pedido <- tpedido, luz <- tluz

R == INSTANCE RFIDCuadro WITH pc <- rpc, pedido <- rpedido

ASSUME EfectosAssumption ==
    V!BuzzSuficiente /\ C!RepeticionesSuficientes /\ T!TruenoSuficiente

EfectosInit ==
    /\ equipo \in {"portal", "velador", "cuadro", "trueno", "rfid"}
    /\ Init /\ V!Init /\ C!Init /\ T!Init /\ R!Init

PortalPaso ==
    equipo = "portal" /\ Next /\ UNCHANGED <<equipo, vvars, cvars, tvars, rvars>>

VeladorPaso ==
    /\ equipo = "velador" /\ V!Next
    /\ UNCHANGED <<equipo, vars, cvars, tvars, rvars>>

CuadroPaso ==
    equipo = "cuadro" /\ C!Next /\ UNCHANGED <<equipo, vars, vvars, tvars, rvars>>

TruenoPaso ==
    equipo = "trueno" /\ T!Next /\ UNCHANGED <<equipo, vars, vvars, cvars, rvars>>

RfidPaso ==
    equipo = "rfid" /\ R!Next /\ UNCHANGED <<equipo, vars, vvars, cvars, tvars>>

EfectosNext == PortalPaso \/ VeladorPaso \/ CuadroPaso \/ TruenoPaso \/ RfidPaso

\* The loop() of the controller at work is called again and again.
EfectosSpec ==
    /\ EfectosInit
    /\ [][EfectosNext]_<<equipo, vars, vvars, cvars, tvars, rvars>>
    /\ WF_<<vars, vvars, cvars, tvars, rvars>>(EfectosNext)

-----------------------------------------------------------------------------
(* The properties of the portal are those of its module. *)

\* The lamp's countdown never passes 0, its buzzer never outlives the flicker,
\* and at rest the lamp shows what the last request asked for, whichever
\* requests restarted, shortened or lengthened the countdown.
VeladorInv == V!VeladorInv

\* Strokes made and strokes left add up to Repeticiones, wherever a request
\* interrupts the stroke, and a coil that is not striking carries no current.
CuadroInv == C!CuadroInv

\* Between two passes of loop() the strip of the thunder is dark and holds no
\* shape a later show() could bring back.
TruenoInv == T!TruenoInv

\* At most one WIN per game, no FAIL after it, and a laser that burns because
\* of this game's card or /manual, in whatever order cards and requests come.
RfidInv == R!RfidInv

\* Lamp, picture and thunder implement the effect of module Efecto: a request,
\* in whatever order they come, sets the countdown to one of the lengths it may
\* ask for, every pass of loop() takes exactly one off it, no request and no
\* flash in between changes it otherwise, and no output survives it.
EfectoImplementado == V!E!Spec /\ C!E!Spec /\ T!E!Spec

\* Once the requests stop, flicker and buzzer stop; unless /tirar is called for
\* ever the coil comes to rest; a pulse of the portal ends; and the handler that
\* makes the thunder flash gives loop() back.
EfectosTerminan ==
    V!ZumbidoTermina /\ C!QuedaQuieto /\ PulsoAcaba /\ T!TruenoVuelve

=============================================================================
