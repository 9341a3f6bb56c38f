------------------------------- MODULE Maquina -------------------------------
(***************************************************************************)
(* The machine of the escape room: an Arduino Mega that watches a plug     *)
(* (enchufe) and three puzzles (knobs, radio, Simon), advances a ray of    *)
(* light one stage per solved puzzle, and obeys commands that arrive from  *)
(* its Wi-Fi helper over Serial1.                                          *)
(*                                                                         *)
(* Source: proyectos/maquina/{maquina,incoming,luceslocas,simon}.ino.      *)
(*                                                                         *)
(* One step of the model is one call made by loop(), or one poll of        *)
(* wait_for_button().  Between two calls the world may move: the plug is   *)
(* pushed or pulled, characters arrive.  Analog readings, buttons and      *)
(* random numbers are choices made by the step that reads them.            *)
(***************************************************************************)
EXTENDS Integers, Sequences, FiniteSets

CONSTANTS
    Sent,              \* what may arrive on Serial1: commands and "ilegible"
    EnchufeLimit,      \* readings before a plug change is accepted (50)
    TiempoRadioTotal,  \* passes the radio must stay in tune (1000)
    IntMax,            \* largest value of an int (32767 on the Mega)
    TotalRayos,        \* passes a thunder flash lasts (1500)
    TurbinaLoops,      \* passes the turbine flashes on entering each stage
    SillaLoops,        \* passes the turbine flashes for the chair (5000)
    ShapeFrom,         \* least counter at which a flash may redraw (2025)
    RoundsToWin,       \* ROUNDS_TO_WIN (4)
    EntryPolls,        \* most polls that fit in ENTRY_TIME_LIMIT
    QuietLoops         \* quiet polls before a text is dispatched (25)

\* The texts checkIncoming() recognises.
Commands == {"reset", "on", "off", "win", "son", "soff", "trueno", "manual"}

\* The empty String, under a name of its own.
Vacio == "vacio"

\* Contents of a text: nothing, exactly one command, or anything else.
Texts == Commands \cup {Vacio, "ilegible"}

ASSUME SentAssumption == Sent \subseteq Commands \cup {"ilegible"}
ASSUME EnchufeAssumption == EnchufeLimit \in Nat \ {0}
ASSUME RadioAssumption ==
    IntMax \in Nat /\ TiempoRadioTotal \in Nat /\ 0 < TiempoRadioTotal
                   /\ TiempoRadioTotal <= IntMax
ASSUME RayosAssumption == TotalRayos \in Nat \ {0}
ASSUME TurbinaAssumption ==
    /\ TurbinaLoops \in [1..4 -> Nat \ {0}]
    /\ SillaLoops \in Nat \ {0, 1}
    /\ ShapeFrom \in Nat
ASSUME SimonAssumption ==
    RoundsToWin \in Nat \ {0} /\ EntryPolls \in Nat \ {0}
ASSUME QuietAssumption == QuietLoops \in Nat \ {0}

VARIABLES
    pc,              \* the call loop() makes next
    plug,            \* level of ENCHUFE_PIN
    enchufada, enchufeCounter, yaGano,
    knobsWon, radioWon, simonReady, simonWon, sillaOn,
    gamesWon,
    tiempoRadio,
    efectoTurbina, turbinaCounter,
    turbinaLit,      \* some pixel of ledsTurbina is not black
    luzRayos, tiempoRayos,
    plasmas,         \* relays plasma1..plasma3 that are LOW, that is on
    tramos,          \* stretches of strip1 that are lit
    salida,          \* botonSalida enabled and luzSalida lit
    gameRound,
    currentMove,     \* of the loop in play_memory()
    entryLeft,       \* polls left before ENTRY_TIME_LIMIT
    rx,              \* received by Serial1 and not yet read
    incomingData, lastCharTime,
    serial1          \* what the last step printed on Serial1

premios == <<knobsWon, radioWon, simonReady, simonWon, gamesWon>>
luces == <<plasmas, tramos, salida>>
turbina == <<efectoTurbina, turbinaCounter, turbinaLit>>
rayos == <<luzRayos, tiempoRayos>>
enchufe == <<enchufada, enchufeCounter, yaGano>>
simon == <<gameRound, currentMove, entryLeft>>
entrada == <<rx, incomingData, lastCharTime>>
vars == <<pc, plug, enchufe, premios, sillaOn, tiempoRadio, turbina, rayos,
          luces, simon, entrada, serial1>>

Labels == {"enchufe", "knobs", "radio", "simon", "addmove", "wait", "button",
           "rayos", "turbina", "enchufe2", "incoming"}

\* setup(): everything dark, nothing won; the plug may be in or out.
Init ==
    /\ pc = "enchufe"
    /\ plug \in BOOLEAN
    /\ enchufada = FALSE /\ enchufeCounter = 0 /\ yaGano = FALSE
    /\ knobsWon = FALSE /\ radioWon = FALSE
    /\ simonReady = FALSE /\ simonWon = FALSE /\ sillaOn = FALSE
    /\ gamesWon = 0
    /\ tiempoRadio = TiempoRadioTotal
    /\ efectoTurbina = FALSE /\ turbinaCounter = 0 /\ turbinaLit = FALSE
    /\ luzRayos = FALSE /\ tiempoRayos = 0
    /\ plasmas = {} /\ tramos = {} /\ salida = FALSE
    /\ gameRound = 0 /\ currentMove = 0 /\ entryLeft = 0
    /\ rx = Vacio /\ incomingData = Vacio /\ lastCharTime = 0
    /\ serial1 = <<>>

-----------------------------------------------------------------------------
(* Lights and stages *)

\* Mutant: Simon opens a stage too late.
rayoAvanza_Tarde(g) ==
    /\ plasmas' = plasmas \cup ({g - 1} \cap 1..3)
    /\ tramos' = tramos \cup ({g} \cap 1..4)
    /\ turbinaCounter' = IF g \in 1..4 THEN TurbinaLoops[g] ELSE turbinaCounter
    /\ turbinaLit' \in IF g = 1 THEN BOOLEAN ELSE {turbinaLit}
    /\ simonReady' = (simonReady \/ g = 4)
    /\ UNCHANGED <<salida, efectoTurbina>>

\* rayoAvanza(), called right after gamesWon has become g.
rayoAvanza(g) ==
    /\ plasmas' = plasmas \cup ({g - 1} \cap 1..3)
    /\ tramos' = tramos \cup ({g} \cap 1..4)
    /\ turbinaCounter' = IF g \in 1..4 THEN TurbinaLoops[g] ELSE turbinaCounter
    /\ turbinaLit' \in IF g = 1 THEN BOOLEAN ELSE {turbinaLit}
    /\ simonReady' = (simonReady \/ g = 3)
    /\ UNCHANGED <<salida, efectoTurbina>>

\* gamesWon += 1; rayoAvanza()
gana ==
    /\ gamesWon' = gamesWon + 1
    /\ rayoAvanza(gamesWon + 1)

\* Mutant: the relays of the plasmas are forgotten.
lucesOff_SinPlasmas(open) ==
    /\ tramos' = {} /\ turbinaLit' = FALSE
    /\ salida' = open
    /\ UNCHANGED plasmas

\* lucesOff(), followed by exitRoom() when open holds.
lucesOff(open) ==
    /\ plasmas' = {} /\ tramos' = {} /\ turbinaLit' = FALSE
    /\ salida' = open

\* resetState(); on and ganado are what the caller then stores in enchufada
\* and yaGano (false and false where it stores nothing).
resetState(on, ganado) ==
    /\ enchufada' = on /\ yaGano' = ganado
    /\ knobsWon' = FALSE /\ radioWon' = FALSE
    /\ simonReady' = FALSE /\ simonWon' = FALSE /\ sillaOn' = FALSE
    /\ efectoTurbina' = FALSE
    /\ luzRayos' = FALSE /\ tiempoRayos' = 0
    /\ gamesWon' = 0 /\ gameRound' = 0
    /\ UNCHANGED <<turbinaCounter, tiempoRadio, currentMove>>

\* turbinaFlash() on a counter of c: it redraws the pixels only when the random
\* flicker exceeds 1900, which needs c >= ShapeFrom; otherwise it only dims.
turbinaFlash(c) ==
    /\ turbinaLit' \in IF c >= ShapeFrom THEN BOOLEAN ELSE {turbinaLit}
    /\ turbinaCounter' = c - 1

handleReset ==
    /\ lucesOff(FALSE) /\ resetState(FALSE, FALSE)
    /\ enchufeCounter' = 0

handleOn ==
    /\ lucesOff(FALSE) /\ resetState(TRUE, FALSE)
    /\ enchufeCounter' = 0
    /\ serial1' = <<>>

handleOff ==
    /\ lucesOff(FALSE) /\ resetState(FALSE, FALSE)
    /\ UNCHANGED enchufeCounter
    /\ serial1' = <<>>

handleWin ==
    /\ lucesOff(TRUE) /\ resetState(FALSE, TRUE)
    /\ UNCHANGED enchufeCounter
    /\ serial1' = <<"OFF">>

handleSillaOn ==
    /\ IF ~sillaOn /\ gamesWon > 3
       THEN /\ sillaOn' = TRUE /\ efectoTurbina' = TRUE
            /\ turbinaFlash(SillaLoops)
       ELSE UNCHANGED <<sillaOn, turbina>>
    /\ UNCHANGED <<enchufe, premios, tiempoRadio, rayos, luces, gameRound,
                   currentMove>>
    /\ serial1' = <<>>

handleSillaOff ==
    /\ sillaOn' = FALSE
    /\ UNCHANGED <<enchufe, premios, tiempoRadio, turbina, rayos, luces,
                   gameRound, currentMove>>
    /\ serial1' = <<>>

handleTrueno ==
    /\ luzRayos' = TRUE /\ tiempoRayos' = TotalRayos
    /\ UNCHANGED <<enchufe, premios, sillaOn, tiempoRadio, turbina, luces,
                   gameRound, currentMove>>
    /\ serial1' = <<>>

handleManual ==
    \/ gamesWon > 3 /\ handleWin
    \/ /\ gamesWon <= 3
       /\ gana
       /\ UNCHANGED <<enchufe, knobsWon, radioWon, simonWon, sillaOn,
                      tiempoRadio, rayos, gameRound, currentMove>>
       /\ serial1' = <<>>

-----------------------------------------------------------------------------
(* Commands from the helper *)

\* Two texts read without QuietLoops quiet polls between them become one, and
\* no two commands spell a third.
Concat(a, b) == IF a = Vacio THEN b ELSE IF b = Vacio THEN a ELSE "ilegible"

\* The chain of equals() in checkIncoming().
dispatch(text) ==
    \/ text = "reset" /\ handleReset /\ serial1' = <<"OFF">>
    \/ text = "on" /\ handleOn
    \/ text = "off" /\ handleOff
    \/ text = "win" /\ handleWin
    \/ text = "son" /\ handleSillaOn
    \/ text = "soff" /\ handleSillaOff
    \/ text = "trueno" /\ handleTrueno
    \/ text = "manual" /\ handleManual
    \/ /\ text \notin Commands
       /\ UNCHANGED <<enchufe, premios, sillaOn, tiempoRadio, turbina, rayos,
                      luces, gameRound, currentMove>>
       /\ serial1' = <<>>

\* Mutant: the time is reset whether a character came or not.
quietPolls_Siempre == 1

\* lastCharTime after the characters were read.  It is compared with QuietLoops
\* and otherwise only reset, so it is counted up to the first value that
\* exceeds QuietLoops.
quietPolls ==
    IF rx # Vacio THEN 1
    ELSE IF lastCharTime > QuietLoops THEN lastCharTime
    ELSE lastCharTime + 1

checkIncoming ==
    LET data == Concat(incomingData, rx)
        due == data # Vacio /\ quietPolls > QuietLoops
    IN  /\ rx' = Vacio
        /\ lastCharTime' = quietPolls
        /\ incomingData' = IF due THEN Vacio ELSE data
        /\ dispatch(IF due THEN data ELSE Vacio)

-----------------------------------------------------------------------------
(* The plug *)

\* Mutant: a reading that agrees does not start the count again.
sinCambio_Acumula ==
    /\ plug = enchufada
    /\ UNCHANGED <<enchufe, premios, sillaOn, tiempoRadio, turbina, rayos, luces,
                   gameRound, currentMove>>
    /\ serial1' = <<>>

\* The four ways through checkEnchufe() while the room is not won; afterwards
\* it changes nothing.  The reading agrees with enchufada:
sinCambio ==
    /\ plug = enchufada
    /\ enchufeCounter' = 0
    /\ UNCHANGED <<enchufada, yaGano, premios, sillaOn, tiempoRadio, turbina,
                   rayos, luces, gameRound, currentMove>>
    /\ serial1' = <<>>

\* it disagrees, not yet often enough;
cuentaCambio ==
    /\ plug # enchufada
    /\ enchufeCounter + 1 # EnchufeLimit
    /\ enchufeCounter' = enchufeCounter + 1
    /\ UNCHANGED <<enchufada, yaGano, premios, sillaOn, tiempoRadio, turbina,
                   rayos, luces, gameRound, currentMove>>
    /\ serial1' = <<>>

\* the machine is accepted as plugged in;
aceptaOn ==
    /\ plug /\ ~enchufada
    /\ enchufeCounter + 1 = EnchufeLimit
    /\ enchufada' = TRUE /\ enchufeCounter' = 0
    /\ gana
    /\ UNCHANGED <<yaGano, knobsWon, radioWon, simonWon, sillaOn, tiempoRadio,
                   rayos, gameRound, currentMove>>
    /\ serial1' = <<"ON">>

\* Mutant: the change is reported and nothing is reset.
aceptaOff_SinReset ==
    /\ ~plug /\ enchufada
    /\ enchufeCounter + 1 = EnchufeLimit
    /\ enchufeCounter' = 0
    /\ UNCHANGED <<enchufada, yaGano, premios, sillaOn, tiempoRadio, turbina,
                   rayos, luces, gameRound, currentMove>>
    /\ serial1' = <<"OFF">>

\* or as unplugged, which prints OFF here and once more in handleReset().
aceptaOff ==
    /\ ~plug /\ enchufada
    /\ enchufeCounter + 1 = EnchufeLimit
    /\ handleReset
    /\ serial1' = <<"OFF", "OFF">>

leeEnchufe == sinCambio \/ cuentaCambio \/ aceptaOn \/ aceptaOff

\* if (checkEnchufe() == true)
Enchufe ==
    /\ pc = "enchufe"
    /\ \/ /\ yaGano
          /\ UNCHANGED <<enchufe, premios, sillaOn, tiempoRadio, turbina,
                         rayos, luces, gameRound, currentMove>>
          /\ serial1' = <<>>
          /\ pc' = "turbina"
       \/ /\ ~yaGano
          /\ leeEnchufe
          /\ pc' = IF enchufada' THEN "knobs" ELSE "turbina"
    /\ UNCHANGED <<plug, entryLeft, entrada>>

\* Mutant: the plug is read although the room is won.
Enchufe2_SinYaGano ==
    /\ pc = "enchufe2"
    /\ leeEnchufe
    /\ pc' = "incoming"
    /\ UNCHANGED <<plug, entryLeft, entrada>>

\* enchufada = checkEnchufe()
Enchufe2 ==
    /\ pc = "enchufe2"
    /\ \/ /\ yaGano
          /\ enchufada' = FALSE
          /\ UNCHANGED <<enchufeCounter, yaGano, premios, sillaOn,
                         tiempoRadio, turbina, rayos, luces, gameRound,
                         currentMove>>
          /\ serial1' = <<>>
       \/ ~yaGano /\ leeEnchufe
    /\ pc' = "incoming"
    /\ UNCHANGED <<plug, entryLeft, entrada>>

-----------------------------------------------------------------------------
(* Knobs and radio *)

\* Mutant: the knobs can be solved again.
Knobs_Repetible ==
    /\ pc = "knobs"
    /\ \/ /\ knobsWon' = TRUE
          /\ gana
          /\ UNCHANGED <<radioWon, simonWon>>
          /\ serial1' = <<"KWIN">>
       \/ /\ UNCHANGED <<premios, luces, turbina>>
          /\ serial1' = <<>>
    /\ pc' = "radio"
    /\ UNCHANGED <<plug, enchufe, sillaOn, tiempoRadio, rayos, simon, entrada>>

\* The knob button released with the three knobs in place; otherwise the call
\* only makes a noise.
Knobs ==
    /\ pc = "knobs"
    /\ \/ /\ ~knobsWon
          /\ knobsWon' = TRUE
          /\ gana
          /\ UNCHANGED <<radioWon, simonWon>>
          /\ serial1' = <<"KWIN">>
       \/ /\ UNCHANGED <<premios, luces, turbina>>
          /\ serial1' = <<>>
    /\ pc' = "radio"
    /\ UNCHANGED <<plug, enchufe, sillaOn, tiempoRadio, rayos, simon, entrada>>

\* An int that counts down wraps.
Decrement(n) == IF n = -IntMax - 1 THEN IntMax ELSE n - 1

\* checkRadio(): the two switches off (nothing is counted), on and out of
\* tune, or on and in tune.
Radio ==
    /\ pc = "radio"
    /\ \/ /\ UNCHANGED <<tiempoRadio, premios, luces, turbina>>
          /\ serial1' = <<>>
       \/ /\ ~radioWon
          /\ tiempoRadio' \in {TiempoRadioTotal, Decrement(tiempoRadio)}
          /\ IF tiempoRadio' = 0
             THEN /\ radioWon' = TRUE
                  /\ gana
                  /\ UNCHANGED <<knobsWon, simonWon>>
                  /\ serial1' = <<"RWIN">>
             ELSE /\ UNCHANGED <<premios, luces, turbina>>
                  /\ serial1' = <<>>
    /\ pc' = "simon"
    /\ UNCHANGED <<plug, enchufe, sillaOn, rayos, simon, entrada>>

-----------------------------------------------------------------------------
(* Simon *)

resto == <<plug, enchufe, sillaOn, tiempoRadio, rayos>>

\* Mutant: Simon is offered again after it was won.
Simon_Repetible ==
    /\ pc = "simon"
    /\ IF simonReady /\ turbinaCounter = 0
       THEN gameRound' = 0 /\ pc' = "addmove"
       ELSE UNCHANGED gameRound /\ pc' = "rayos"
    /\ UNCHANGED <<resto, premios, turbina, luces, currentMove, entryLeft,
                   entrada>>
    /\ serial1' = <<>>

\* attractMode() and the entry of play_memory()
Simon ==
    /\ pc = "simon"
    /\ IF simonReady /\ turbinaCounter = 0 /\ ~simonWon
       THEN gameRound' = 0 /\ pc' = "addmove"
       ELSE UNCHANGED gameRound /\ pc' = "rayos"
    /\ UNCHANGED <<resto, premios, turbina, luces, currentMove, entryLeft,
                   entrada>>
    /\ serial1' = <<>>

\* while (gameRound < ROUNDS_TO_WIN): add_to_moves(), playMoves()
AddMove ==
    /\ pc = "addmove"
    /\ gameRound < RoundsToWin
    /\ gameRound' = gameRound + 1
    /\ currentMove' = 0 /\ entryLeft' = EntryPolls
    /\ pc' = "wait"
    /\ UNCHANGED <<resto, premios, turbina, luces, entrada>>
    /\ serial1' = <<>>

\* play_memory() returned true
play_winner ==
    /\ pc = "addmove"
    /\ gameRound >= RoundsToWin
    /\ simonWon' = TRUE
    /\ gana
    /\ pc' = "rayos"
    /\ UNCHANGED <<resto, knobsWon, radioWon, simon, entrada>>
    /\ serial1' = <<"SWIN">>

\* play_memory() returned false
play_loser ==
    /\ pc' = "rayos"
    /\ UNCHANGED <<resto, premios, turbina, luces, simon, entrada>>
    /\ serial1' = <<"SFAIL">>

\* wait_for_button(): a poll of the line while there is time ...
WaitPoll ==
    /\ pc = "wait"
    /\ entryLeft > 0
    /\ checkIncoming
    /\ pc' = "button"
    /\ UNCHANGED <<plug, entryLeft>>

\* ... and the time limit
Timeout == pc = "wait" /\ entryLeft = 0 /\ play_loser

\* Mutant: waiting takes no time.
NoButton_SinLimite ==
    /\ pc = "button"
    /\ pc' = "wait"
    /\ UNCHANGED <<resto, premios, turbina, luces, simon, entrada>>
    /\ serial1' = <<>>

\* checkButton() returned CHOICE_NONE; a poll takes an unknown time.
NoButton ==
    /\ pc = "button"
    /\ entryLeft' \in 0..(entryLeft - 1)
    /\ pc' = "wait"
    /\ UNCHANGED <<resto, premios, turbina, luces, gameRound, currentMove,
                   entrada>>
    /\ serial1' = <<>>

\* Mutant: the last move of the round is not asked for.
RightButton_UnaMenos ==
    /\ pc = "button"
    /\ currentMove' = currentMove + 1
    /\ \/ /\ currentMove + 2 < gameRound
          /\ pc' = "wait" /\ entryLeft' = EntryPolls
       \/ /\ currentMove + 2 >= gameRound
          /\ pc' = "addmove" /\ UNCHANGED entryLeft
    /\ UNCHANGED <<resto, premios, turbina, luces, gameRound, entrada>>
    /\ serial1' = <<>>

\* The button of gameBoard[currentMove]: the next move, or the next round.
RightButton ==
    /\ pc = "button"
    /\ currentMove' = currentMove + 1
    /\ \/ /\ currentMove + 1 < gameRound
          /\ pc' = "wait" /\ entryLeft' = EntryPolls
       \/ /\ currentMove + 1 >= gameRound
          /\ pc' = "addmove" /\ UNCHANGED entryLeft
    /\ UNCHANGED <<resto, premios, turbina, luces, gameRound, entrada>>
    /\ serial1' = <<>>

WrongButton == pc = "button" /\ play_loser

-----------------------------------------------------------------------------
(* The end of loop() *)

\* if (luzRayos == true) rayoPega()
Rayos ==
    /\ pc = "rayos"
    /\ IF luzRayos /\ ~sillaOn
       THEN /\ tiempoRayos' = tiempoRayos - 1
            /\ luzRayos' = IF tiempoRayos - 1 < 1 THEN FALSE ELSE luzRayos
       ELSE UNCHANGED rayos
    /\ pc' = "turbina"
    /\ UNCHANGED <<plug, enchufe, premios, sillaOn, tiempoRadio, turbina,
                   luces, simon, entrada>>
    /\ serial1' = <<>>

\* Mutant: at the end of the countdown the counter stays.
updateTurbina_SinFin ==
    \/ turbinaCounter > 1 /\ turbinaFlash(turbinaCounter)
    \/ turbinaCounter <= 1 /\ turbinaLit' = FALSE /\ UNCHANGED turbinaCounter

updateTurbina ==
    \/ turbinaCounter > 1 /\ turbinaFlash(turbinaCounter)
    \/ turbinaCounter = 1 /\ turbinaLit' = FALSE /\ turbinaCounter' = 0
    \/ /\ turbinaCounter < 1 /\ efectoTurbina
       /\ turbinaLit' \in IF sillaOn THEN BOOLEAN ELSE {FALSE}
       /\ UNCHANGED turbinaCounter
    \/ /\ turbinaCounter < 1 /\ ~efectoTurbina
       /\ UNCHANGED <<turbinaLit, turbinaCounter>>

Turbina ==
    /\ pc = "turbina"
    /\ updateTurbina
    /\ pc' = "enchufe2"
    /\ UNCHANGED <<plug, enchufe, premios, sillaOn, tiempoRadio, rayos,
                   efectoTurbina, luces, simon, entrada>>
    /\ serial1' = <<>>

Incoming ==
    /\ pc = "incoming"
    /\ checkIncoming
    /\ pc' = "enchufe"
    /\ UNCHANGED <<plug, entryLeft>>

-----------------------------------------------------------------------------
(* The room and the helper *)

\* A player moves the plug.
MueveEnchufe ==
    /\ plug' = ~plug
    /\ UNCHANGED <<pc, enchufe, premios, sillaOn, tiempoRadio, turbina, rayos,
                   luces, simon, entrada>>
    /\ serial1' = <<>>

\* A burst of characters reaches Serial1.
Arrive(text) ==
    /\ rx' = Concat(rx, text)
    /\ UNCHANGED <<pc, plug, enchufe, premios, sillaOn, tiempoRadio, turbina,
                   rayos, luces, simon, incomingData, lastCharTime>>
    /\ serial1' = <<>>

Llega == \E text \in Sent : Arrive(text)

\* loop()
Programa ==
    \/ Enchufe \/ Knobs \/ Radio
    \/ Simon \/ AddMove \/ WaitPoll \/ NoButton \/ RightButton
    \/ WrongButton \/ Timeout \/ play_winner
    \/ Rayos \/ Turbina \/ Enchufe2 \/ Incoming

Next == Programa \/ MueveEnchufe \/ Llega

Spec == Init /\ [][Next]_vars

\* The processor keeps running; players and the helper promise nothing.
FairSpec == Spec /\ WF_vars(Programa)

-----------------------------------------------------------------------------
(* Properties *)

\* Ranges: no counter passes the value its equality test waits for, and
\* tiempoRadio stays within an int.
TypeOK ==
    /\ pc \in Labels
    /\ plug \in BOOLEAN
    /\ enchufada \in BOOLEAN /\ yaGano \in BOOLEAN
    /\ enchufeCounter \in 0..(EnchufeLimit - 1)
    /\ knobsWon \in BOOLEAN /\ radioWon \in BOOLEAN
    /\ simonReady \in BOOLEAN /\ simonWon \in BOOLEAN /\ sillaOn \in BOOLEAN
    /\ gamesWon \in Nat
    /\ tiempoRadio \in (-IntMax - 1)..IntMax
    /\ efectoTurbina \in BOOLEAN /\ turbinaLit \in BOOLEAN
    /\ turbinaCounter \in Nat
    /\ luzRayos \in BOOLEAN /\ tiempoRayos \in 0..TotalRayos
    /\ plasmas \in SUBSET (1..3) /\ tramos \in SUBSET (1..4)
    /\ salida \in BOOLEAN
    /\ gameRound \in 0..RoundsToWin /\ currentMove \in 0..RoundsToWin
    /\ entryLeft \in 0..EntryPolls
    /\ rx \in Texts /\ incomingData \in Texts
    /\ lastCharTime \in 0..(QuietLoops + 1)
    /\ serial1 \in {<<>>, <<"ON">>, <<"OFF">>, <<"OFF", "OFF">>, <<"KWIN">>,
                    <<"RWIN">>, <<"SWIN">>, <<"SFAIL">>}

Uno(b) == IF b THEN 1 ELSE 0

\* Puzzles of the present game that are solved, the plug included.
Resueltos == Uno(enchufada) + Uno(knobsWon) + Uno(radioWon) + Uno(simonWon)

\* What the players see is the stage the program is in: the lit stretches and
\* plasmas are those of stage gamesWon, and Simon is open from stage 3 on
\* (rayoAvanza, lucesOff and resetState keep the four in step).
EtapaVisible ==
    /\ tramos = {g \in 1..4 : g <= gamesWon}
    /\ plasmas = {i \in 1..3 : i < gamesWon}
    /\ simonReady <=> gamesWon >= 3

\* The exit button is enabled exactly while the room is won, and a won machine
\* counts as unplugged (handleWin, exitRoom, checkEnchufe).
PuertaGanada == (salida <=> yaGano) /\ (yaGano => ~enchufada)

\* However commands, games and plug interleave, gamesWon is never more than
\* one short of the puzzles solved (handleOn powers the machine without a
\* stage) and never more than four ahead (handleManual stops at stage 4).
Contabilidad == Resueltos - 1 <= gamesWon /\ gamesWon <= Resueltos + 4

\* The chair only has an effect on a machine that reached stage 4
\* (handleSillaOn), and no reset leaves it behind.
SillaLista ==
    /\ sillaOn => efectoTurbina
    /\ efectoTurbina => gamesWon >= 4

\* The thunder flag and its countdown agree: rayoPega never runs past the end.
RayosAcotados == luzRayos <=> tiempoRayos > 0

\* With the countdown over and no chair effect the turbine is dark, although
\* resetState forgets turbinaCounter.
TurbinaOscura == turbinaCounter = 0 /\ ~efectoTurbina => ~turbinaLit

\* When play_memory reaches its loop test after a round, every move of the
\* round was answered: a reset in the middle of wait_for_button, which zeroes
\* gameRound, gives no short cut to play_winner.
SimonSinAtajo ==
    /\ pc = "addmove" => gameRound \in {0, currentMove}
    /\ pc \in {"wait", "button"} => gameRound = 0 \/ currentMove < gameRound

\* What players and PC can rely on whatever call comes next and whatever order
\* was served in between: the lights show the stage, the exit is open exactly
\* while the room is won, stage and solved puzzles differ by at most -1/+4, the
\* chair counts only once it is ready, and thunder and turbine come to an end.
Nucleo ==
    /\ EtapaVisible /\ PuertaGanada /\ Contabilidad
    /\ SillaLista /\ RayosAcotados /\ TurbinaOscura

\* What holds because of where the program is: a game of Simon is only under
\* way while it is not won, and reads gameBoard within the rounds played.
Turno ==
    /\ pc \in {"addmove", "wait", "button"} => ~simonWon
    /\ pc \in {"wait", "button"} => currentMove < RoundsToWin
    /\ SimonSinAtajo

\* The inductive invariant: true of every state loop() can be in between two
\* calls, whatever the helper sends and the players do.
IndInv == TypeOK /\ Nucleo /\ Turno

\* The comments of rayoAvanza on what each value of gamesWon means.
EtapasComentadas ==
    /\ gamesWon <= 4
    /\ gamesWon = 1 => enchufada
    /\ gamesWon = 2 => enchufada /\ (radioWon \/ knobsWon)
    /\ gamesWon = 3 => enchufada /\ radioWon /\ knobsWon
    /\ gamesWon = 4 => enchufada /\ radioWon /\ knobsWon /\ simonWon

\* With the plug accepted, knobs and radio solved, Simon is open: the players
\* can go on.
NoSeTraba == enchufada /\ knobsWon /\ radioWon => simonReady

\* The commands by which the game master overrides the game.
Ordenes == {"reset", "on", "off", "win", "manual"}

\* What makes the comments true when the helper only relays the chair and the
\* thunder: gamesWon counts the solved puzzles, which are solved in order.
SinOrdenes ==
    /\ rx \notin Ordenes
    /\ incomingData \notin Ordenes
    /\ ~yaGano
    /\ gamesWon = Resueltos
    /\ knobsWon \/ radioWon => enchufada
    /\ simonWon => knobsWon /\ radioWon
    /\ pc \in {"knobs", "radio", "simon", "addmove", "wait", "button"} => enchufada
    /\ pc \in {"addmove", "wait", "button"} => simonReady

\* Only an order from the helper disables the exit button again; in
\* particular pulling the plug after the win does not.
PuertaCierraPorOrden ==
    [][salida /\ ~salida' =>
         Concat(incomingData, rx) \in {"reset", "on", "off"}]_vars

\* loop() comes round again once the helper is silent: no game of Simon holds
\* it for ever.  (A helper that keeps resetting can: every reset inside
\* wait_for_button sends play_memory back to round 0.)
LoopVuelve == <>[](rx = Vacio) => []<>(pc = "enchufe")

\* A plug left in is accepted, one left out is noticed, once the helper is
\* silent, even though the plug is not read during a game of Simon.
EnchufeNotado ==
    /\ <>[](plug /\ rx = Vacio) => <>[](enchufada \/ yaGano)
    /\ <>[](~plug /\ rx = Vacio) => <>[](~enchufada)

\* A text is dispatched, or dropped as unreadable, once the line is silent.
TextoAtendido == <>[](rx = Vacio) => <>[](incomingData = Vacio)

\* The turbine countdown that keeps Simon closed runs out once plug and line
\* are left alone.
TurbinaTermina == <>[](plug /\ rx = Vacio) => <>[](turbinaCounter = 0)

=============================================================================
