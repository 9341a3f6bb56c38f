-------------------------------- MODULE Mapa ---------------------------------
(***************************************************************************)
(* The map with lights: each of four buttons shows its pattern, and the    *)
(* words alarma and reset, which its helper prints on the serial line,     *)
(* switch the red lights on and everything off.                            *)
(*                                                                         *)
(* Source: proyectos/mapa-leds/{mapa-leds,incoming}.ino.                   *)
(*                                                                         *)
(* A step is a pass of loop().  The strip is left out: its pixels are set  *)
(* but never shown.                                                        *)
(***************************************************************************)
EXTENDS Integers, FiniteSetsExt

CONSTANTS
    NumBotones,     \* buttons (4)
    QuietLoops,     \* passes without a character before a text is taken (25)
    IntMax          \* largest int

VARIABLES
    leds,           \* the pattern on the four LEDs, 0 when they are dark
    redLeds, alarma,
    rx,             \* text received by Serial, not yet read
    incomingData,
    lastCharTime,
    habla           \* the last pass printed something

vars == <<leds, redLeds, alarma, rx, incomingData, lastCharTime, habla>>

Botones == 1..NumBotones

Ordenes == {"reset", "alarma"}

\* A text is empty, one order, or something no handler understands: two texts
\* that become one string spell no order.
Textos == Ordenes \cup {"vacio", "ilegible"}

Concat(a, b) ==
    IF a = "vacio" THEN b ELSE IF b = "vacio" THEN a ELSE "ilegible"

Init ==
    /\ leds = 0 /\ redLeds = FALSE /\ alarma = FALSE
    /\ rx = "vacio" /\ incomingData = "vacio" /\ lastCharTime = 0
    /\ habla = FALSE

-----------------------------------------------------------------------------

Increment(n) == IF n = IntMax THEN -IntMax - 1 ELSE n + 1

\* What a pass finds: the text collected so far and the quiet passes since its
\* last character.
texto == Concat(incomingData, rx)

quieto == IF rx # "vacio" THEN 1 ELSE Increment(lastCharTime)

\* Mutant: in an alarm the pass ends before the text is looked at.
toca_SinAlarma == ~alarma /\ texto # "vacio" /\ quieto > QuietLoops

toca == texto # "vacio" /\ quieto > QuietLoops

\* The buttons in S rose; the last one in the order of the source stays.
botones(S) == IF S = {} THEN leds ELSE Max(S)

\* Mutant: only the flag is cleared.
handleReset_SinRojas ==
    leds' = 0 /\ alarma' = FALSE /\ redLeds' = (redLeds \/ alarma)

handleReset == leds' = 0 /\ redLeds' = FALSE /\ alarma' = FALSE

\* The alarm is only noted; the red lights are lit by the next pass.
handleAlarma(S) ==
    leds' = botones(S) /\ redLeds' = (redLeds \/ alarma) /\ alarma' = TRUE

\* loop(): the buttons, the alarm, checkIncoming().
Pasada(S) ==
    /\ \/ toca /\ texto = "reset" /\ handleReset
       \/ toca /\ texto = "alarma" /\ handleAlarma(S)
       \/ /\ ~(toca /\ texto \in Ordenes)
          /\ leds' = botones(S)
          /\ redLeds' = (redLeds \/ alarma)
          /\ UNCHANGED alarma
    /\ rx' = "vacio"
    /\ incomingData' = IF toca THEN "vacio" ELSE texto
    /\ lastCharTime' = quieto
    /\ habla' = (S # {} \/ toca)

Next == \E S \in SUBSET Botones : Pasada(S)

-----------------------------------------------------------------------------

\* Ranges.
TypeOK ==
    /\ leds \in 0..NumBotones /\ redLeds \in BOOLEAN /\ alarma \in BOOLEAN
    /\ rx \in Textos /\ incomingData \in Textos
    /\ lastCharTime \in (-IntMax - 1)..IntMax
    /\ habla \in BOOLEAN

\* The red lights burn only in an alarm, and a text that waits is never behind
\* a counter that wrapped while the line was idle.
MapaSegura ==
    /\ redLeds => alarma
    /\ incomingData # "vacio" => lastCharTime \in 1..QuietLoops

=============================================================================
