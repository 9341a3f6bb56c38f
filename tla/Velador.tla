------------------------------- MODULE Velador -------------------------------
(***************************************************************************)
(* The bedside lamp: /on, /off, /buzz, /manual and /reset make it flicker  *)
(* and buzz for a random number of passes, after which it shows whether it *)
(* is on.                                                                  *)
(*                                                                         *)
(* Source: proyectos/velador/velador.ino.                                  *)
(*                                                                         *)
(* A pass of loop() is server.handleClient() and the rest.                 *)
(***************************************************************************)
EXTENDS Integers

CONSTANT TiempoBuzz   \* tiempoBuzz (75)

\* random(tiempoBuzz/4, ...) must not yield 0: then nothing would be updated.
BuzzSuficiente == TiempoBuzz \in Nat /\ TiempoBuzz >= 4

VARIABLES
    pc,
    isOn, buzzCounter,
    luz,            \* what the LEDs show: "negra", "blanca" or "parpadeo"
    tono,           \* the buzzer sounds
    pedido,         \* the request the last handleClient() served
    atendido        \* history: some request was served since power on

vars == <<pc, isOn, buzzCounter, luz, tono, pedido, atendido>>

\* isOn starts as true but nothing has been drawn.
Init ==
    /\ pc = "http"
    /\ isOn = TRUE /\ buzzCounter = 0
    /\ luz = "negra" /\ tono = FALSE
    /\ pedido = "nada" /\ atendido = FALSE

-----------------------------------------------------------------------------

\* random(a, b) of the Arduino core
random(a, b) == a..(b - 1)

handleBuzz ==
    /\ buzzCounter' \in random(TiempoBuzz, TiempoBuzz * 2)
    /\ UNCHANGED <<isOn, tono>>

\* Mutant: the lamp is switched without the flicker that would show it.
handleOn_SinZumbido == isOn' = TRUE /\ UNCHANGED <<buzzCounter, tono>>

handleOn ==
    /\ isOn' = TRUE
    /\ buzzCounter' \in random(TiempoBuzz \div 2, TiempoBuzz * 2)
    /\ UNCHANGED tono

handleOff ==
    /\ isOn' = FALSE
    /\ buzzCounter' \in random(TiempoBuzz \div 4, TiempoBuzz)
    /\ UNCHANGED tono

\* handleReset() clears the counter and then calls handleOn(), which sets it.
handleReset ==
    /\ isOn' = TRUE
    /\ buzzCounter' \in random(TiempoBuzz \div 2, TiempoBuzz * 2)
    /\ tono' = FALSE

handleClient ==
    /\ pc = "http"
    /\ \/ pedido' = "reset" /\ handleReset /\ atendido' = TRUE
       \/ pedido' = "buzz" /\ handleBuzz /\ atendido' = TRUE
       \/ pedido' \in {"on", "manual"} /\ handleOn /\ atendido' = TRUE
       \/ pedido' = "off" /\ handleOff /\ atendido' = TRUE
       \/ /\ pedido' = "nada"
          /\ UNCHANGED <<isOn, buzzCounter, tono, atendido>>
    /\ pc' = "cuerpo"
    /\ UNCHANGED luz

-----------------------------------------------------------------------------

\* updateBuzz(): a random brightness, and the tone with the bright ones.
updateBuzz ==
    /\ buzzCounter > 1
    /\ buzzCounter' = buzzCounter - 1
    /\ luz' = "parpadeo"
    /\ tono' \in BOOLEAN

reposa ==
    /\ buzzCounter = 1
    /\ buzzCounter' = 0
    /\ luz' = IF isOn THEN "blanca" ELSE "negra"
    /\ tono' = FALSE

Cuerpo ==
    /\ pc = "cuerpo"
    /\ \/ updateBuzz
       \/ reposa
       \/ buzzCounter < 1 /\ UNCHANGED <<buzzCounter, luz, tono>>
    /\ pc' = "http"
    /\ UNCHANGED <<isOn, pedido, atendido>>

Next == handleClient \/ Cuerpo

Spec == Init /\ [][Next]_vars

\* loop() is called again and again; nobody promises a request.
FairSpec == Spec /\ WF_vars(Next)

-----------------------------------------------------------------------------

\* The counter is never negative: loop() tells > 1, = 1 and the rest apart, and
\* counts only in the first two.
TypeOK ==
    /\ pc \in {"http", "cuerpo"}
    /\ isOn \in BOOLEAN /\ tono \in BOOLEAN /\ atendido \in BOOLEAN
    /\ buzzCounter \in 0..(TiempoBuzz * 2 - 1)
    /\ luz \in {"negra", "blanca", "parpadeo"}
    /\ pedido \in {"nada", "reset", "buzz", "on", "manual", "off"}

\* The buzzer never outlives the flicker: whichever request restarts, shortens
\* or lengthens the countdown, its last pass silences the buzzer.
TonoAcotado == tono => buzzCounter > 0

\* At rest the lamp shows what the last request asked for.  (At power on it
\* does not: isOn is true and the lamp dark until the first request.)
LuzFiel ==
    buzzCounter = 0 /\ atendido => luz = IF isOn THEN "blanca" ELSE "negra"

\* What holds in every state.
VeladorInv == TypeOK /\ TonoAcotado /\ LuzFiel

\* Once the requests stop, flicker and buzzer stop.
ZumbidoTermina ==
    <>[](pedido = "nada") => <>[](~tono /\ luz # "parpadeo")

\* The lamp as an effect: the passes of the countdown and the buzzer.  The
\* requests draw from TiempoBuzz \div 4 (/off) up to twice TiempoBuzz.
E == INSTANCE Efecto
       WITH turno <- pc, resto <- buzzCounter, activo <- tono,
            Duraciones <- (TiempoBuzz \div 4)..(TiempoBuzz * 2 - 1)

=============================================================================
