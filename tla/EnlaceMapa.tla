----------------------------- MODULE EnlaceMapa ------------------------------
(***************************************************************************)
(* The map (M) and its helper (H) on one serial line: each reads what the  *)
(* other prints.  Both programs tell one text from the next by passes      *)
(* without a character, so the speed of the two matters: time is counted   *)
(* in fast passes of the map.  The delay(15) of the helper lasts Espera of *)
(* them; a pass with the alarm on waits 4 ms in updateStrip() and lasts up *)
(* to Lenta; a pass that prints more than the 64 bytes the Uno buffers     *)
(* waits in Serial.print() for the rest to leave, within one delay of the  *)
(* helper for Bloqueo passes at most.                                      *)
(*                                                                         *)
(* Sources: the modules Mapa and HelperMapa.                               *)
(***************************************************************************)
EXTENDS Integers

CONSTANTS NumBotones, WifiLimit, QuietLoops, IntMax, Espera, Lenta, Bloqueo

\* In the 15 ms the helper waits, the map without alarm runs more than 25
\* passes, the time it may stand in Serial.print() left out: the four buttons at
\* once print 176 bytes, of which 112 have to leave first, 10 ms at 115200 baud,
\* and a button debounced for 25 ms rises once at most in that time.
ASSUME EnlaceAssumption ==
    /\ NumBotones \in Nat /\ WifiLimit \in Nat /\ QuietLoops \in Nat \ {0}
    /\ IntMax \in Nat /\ QuietLoops < IntMax
    /\ Espera \in Nat /\ Lenta \in Nat \ {0}
    /\ Bloqueo \in Nat /\ QuietLoops + Bloqueo < Espera

VARIABLES
    leds, redLeds, alarma, rx, incomingData, lastCharTime, habla,
    pc, intentos, udpConnected, puerto, juntado, hLastCharTime, tx, paquete,
    espera,         \* what is left of the helper's delay(15)
    bloqueado,      \* time the map stood in Serial.print() during that delay
    entorno,        \* the last step served a button, a request, a packet or setup()
    completa        \* history: the helper has finished a pass of loop()

mvars == <<leds, redLeds, alarma, rx, incomingData, lastCharTime, habla>>

hvars == <<pc, intentos, udpConnected, puerto, juntado, hLastCharTime, tx,
           paquete>>

vars == <<mvars, hvars, espera, bloqueado, entorno, completa>>

M == INSTANCE Mapa

H == INSTANCE HelperMapa WITH lastCharTime <- hLastCharTime

Init ==
    /\ M!Init /\ H!Init
    /\ espera = 0 /\ bloqueado = 0 /\ entorno = FALSE /\ completa = FALSE

-----------------------------------------------------------------------------

\* What is left of the delay after a pass of the map that lasted d.
resta(d) == IF espera > d THEN espera - d ELSE 0

\* How long a pass lasts: slow with the alarm on; otherwise one, and what it
\* stands in Serial.print().
Tarda ==
    \/ alarma /\ (\E d \in 1..Lenta : espera' = resta(d)) /\ UNCHANGED bloqueado
    \/ /\ ~alarma
       /\ \E b \in IF habla' THEN 0..(Bloqueo - bloqueado) ELSE {0} :
            espera' = resta(1 + b) /\ bloqueado' = bloqueado + b

\* A pass of the map with the buttons in S; what it prints is received by the
\* helper, unless that has not opened its port yet.
PasoMapa(S) ==
    /\ M!Pasada(S)
    /\ Tarda
    /\ puerto' = (puerto \/ (habla' /\ pc # "boot"))
    /\ entorno' = (S # {})
    /\ tx' = "vacio" /\ paquete' = FALSE
    /\ UNCHANGED <<pc, intentos, udpConnected, juntado, hLastCharTime, completa>>

\* A step of the helper; what it prints is received by the map.
PasoHelper ==
    /\ espera = 0
    /\ H!Next
    /\ rx' = M!Concat(rx, tx')
    /\ espera' = IF pc' = "delay" THEN Espera ELSE 0
    /\ bloqueado' = 0
    /\ completa' = (completa \/ pc = "delay")
    /\ entorno' = (pc # "delay" /\ tx' # "vacio")
    /\ habla' = FALSE
    /\ UNCHANGED <<leds, redLeds, alarma, incomingData, lastCharTime>>

Next == PasoHelper \/ \E S \in SUBSET M!Botones : PasoMapa(S)

\* Both controllers call their loop() again and again.
Spec ==
    /\ Init /\ [][Next]_vars
    /\ WF_vars(PasoHelper) /\ WF_vars(\E S \in SUBSET M!Botones : PasoMapa(S))

-----------------------------------------------------------------------------

\* The places of the helper's program: in setup() nothing was read, a pass of
\* loop() only gets past the requests with UDP, and only delay(15) takes time.
Lugares ==
    /\ pc \in {"boot", "wifi", "udp"} => ~udpConnected /\ ~juntado /\ ~completa
    /\ pc \in {"udpread", "delay"} \/ completa => udpConnected
    /\ pc # "delay" => espera = 0

\* Why a pass of the helper separates two texts as long as there is no alarm:
\* what is left of its delay, the quiet passes the map has counted since the
\* last character and the time it stood in Serial.print() make up the whole
\* delay, which is longer than the map waits and may stand.
Ritmo ==
    ~alarma =>
      /\ pc = "delay" /\ rx # "vacio" => espera = Espera
      /\ pc = "delay" /\ rx = "vacio" /\ incomingData # "vacio"
           => espera + lastCharTime + bloqueado >= Espera
      /\ pc = "http" /\ completa => M!texto = "vacio"

\* Ranges; the red lights burn only in an alarm; neither program's counter of
\* quiet passes keeps a text waiting; without UDP nothing is forwarded; and
\* without alarm the map is done with a text before the helper's next request.
MapaInv ==
    /\ M!TypeOK /\ H!TypeOK
    /\ espera \in 0..Espera /\ bloqueado \in 0..Bloqueo
    /\ entorno \in BOOLEAN
    /\ completa \in BOOLEAN
    /\ M!MapaSegura /\ H!HelperSeguro
    /\ Lugares /\ Ritmo

\* After the helper's first pass, and with the alarm off, an order never runs
\* into another text: its own pass gave the map the time to take that one.  (The
\* first order after the boot may run into the chatter of setup(), without UDP
\* the helper does not wait, and with the alarm on the map is too slow: then
\* orders are lost.)
SeparadasSinAlarma ==
    [][tx' \in M!Ordenes /\ completa /\ ~alarma
         => M!texto = "vacio"]_vars

\* An order that is alone on the line is obeyed, unless a later text runs into
\* it before the map takes it.
OrdenObedecida ==
    /\ M!texto = "alarma" ~> alarma \/ M!texto = "ilegible"
    /\ M!texto = "reset" ~>
         (leds = 0 /\ ~alarma /\ ~redLeds) \/ M!texto = "ilegible"

\* Each program prints because of what the other one printed; still, once
\* requests, packets and buttons stop, both lines fall silent, and with UDP up
\* everything was forwarded.
EcoTermina ==
    <>[](~entorno)
      => /\ <>[](~habla /\ M!texto = "vacio" /\ ~paquete)
         /\ <>[]udpConnected => <>[](~puerto /\ ~juntado)

=============================================================================
