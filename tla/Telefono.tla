------------------------------ MODULE Telefono -------------------------------
(***************************************************************************)
(* The rotary telephone: an ESP8266 that reads one analog line, counts the *)
(* pulses of the dial, puts digits together to a number and reports WIN,   *)
(* FAIL, UP (receiver lifted) and DOWN (receiver put down) over UDP.       *)
(*                                                                         *)
(* Source: proyectos/telefono/telefono.ino.                                *)
(*                                                                         *)
(* A pass of loop() is server.handleClient() and the rest.  The line moves *)
(* at any time but is read once per pass.  Time is counted in the same     *)
(* units as the four limits; a pass takes one of the times in Pasadas.     *)
(***************************************************************************)
EXTENDS Integers, Sequences

CONSTANTS
    Objetivo,       \* objectivenum, as its digits (<<1, 5, 7>>)
    Base,           \* pulses of the digit 0 (10)
    DebounceDelay,  \* debounceDelay (10 ms)
    DialTime,       \* dialHasFinishedRotatingAfterMs (100 ms)
    HangTime,       \* hangPhoneTime (300 ms)
    ResetTime,      \* resetTime (2000000 ms)
    Pasadas         \* how long a pass may take; loop() has a delay(15)

ASSUME BaseAssumption == Base \in Nat \ {0, 1}

\* The digits.
Digitos == 0..(Base - 1)

ASSUME ObjetivoAssumption ==
    Objetivo \in Seq(Digitos) /\ Len(Objetivo) > 0
ASSUME TiemposAssumption ==
    /\ DebounceDelay \in Nat /\ DialTime \in Nat /\ HangTime \in Nat
    /\ ResetTime \in Nat
    /\ DebounceDelay < DialTime /\ DialTime < HangTime /\ HangTime < ResetTime
ASSUME PasadasAssumption ==
    Pasadas \subseteq Nat /\ \A p \in Pasadas : p > DebounceDelay

\* The three values of reading: in the middle of a pulse; hung up, or the end
\* of a pulse; lifted and at rest.
LOW == 0
HIGH == 1
PASIVO == 2
Lecturas == {LOW, HIGH, PASIVO}

\* Times beyond ResetTime are not told apart.
Tarde == ResetTime + 1

VARIABLES
    pc,
    linea,          \* what analogRead() would give now
    tuboUp, needToPrint, count,
    lastState, trueState,
    desde,          \* millis() - lastStateChangeTime, up to Tarde
    encendido,      \* millis(), up to Tarde
    fullnum, done,
    pedido,         \* the request the last handleClient() served
    enviado,        \* the packets the last pass sent
    anterior        \* history: the reading of the last pass

vars == <<pc, linea, tuboUp, needToPrint, count, lastState, trueState, desde,
          encendido, fullnum, done, pedido, enviado, anterior>>

\* setup() waits a second, and less than ResetTime for the access point.
Init ==
    /\ pc = "http"
    /\ linea \in Lecturas
    /\ tuboUp = FALSE /\ needToPrint = FALSE /\ count = 0
    /\ lastState = LOW /\ trueState = LOW
    /\ encendido \in (HangTime + 1)..ResetTime
    /\ desde = encendido
    /\ fullnum = <<>> /\ done = FALSE
    /\ pedido = "nada" /\ enviado = <<>>
    /\ anterior = LOW

-----------------------------------------------------------------------------
(* Requests *)

\* Mutant: the count of a half-dialled digit survives.
handleReset_SinCuenta(reading, ahora) ==
    /\ needToPrint' = FALSE /\ UNCHANGED count
    /\ lastState' = reading /\ trueState' = LOW
    /\ desde' = ahora
    /\ fullnum' = <<>> /\ done' = FALSE

\* handleReset() at time ahora: lastStateChangeTime = 0, so the last change is
\* as old as the program.  lastState becomes LOW, or the reading when loop()
\* itself makes the call and then stores the reading.
handleReset(reading, ahora) ==
    /\ needToPrint' = FALSE /\ count' = 0
    /\ lastState' = reading /\ trueState' = LOW
    /\ desde' = ahora
    /\ fullnum' = <<>> /\ done' = FALSE

handleManual ==
    /\ fullnum' = Objetivo
    /\ UNCHANGED <<needToPrint, count, lastState, trueState, desde, done>>

\* server.handleClient(): one pending request, or none (or /, /test and unknown
\* paths, which only answer).
handleClient ==
    /\ pc = "http"
    /\ \/ pedido' = "reset" /\ handleReset(LOW, encendido)
       \/ pedido' = "manual" /\ handleManual
       \/ /\ pedido' = "nada"
          /\ UNCHANGED <<needToPrint, count, lastState, trueState, desde,
                         fullnum, done>>
    /\ pc' = "cuerpo"
    /\ enviado' = <<>>
    /\ UNCHANGED <<linea, tuboUp, encendido, anterior>>

-----------------------------------------------------------------------------
(* A pass that takes p; linea is its reading. *)

Suma(t, p) == IF t + p > ResetTime THEN Tarde ELSE t + p

\* count only matters for being 0 and for its remainder, so Base is followed
\* by 1.
Pulso(n) == IF n = Base THEN 1 ELSE n + 1

\* After a win digits still pile up in fullnum, unread: they are kept up to one
\* more than a number has.
Agrega(num, d) == IF Len(num) > Len(Objetivo) THEN num ELSE Append(num, d)

\* The dial has come to rest and a digit is waiting.
termina(p) == needToPrint /\ Suma(desde, p) > DialTime

\* millis() - lastStateChangeTime once a change of the reading is noted
espera(p) == IF linea # lastState THEN 0 ELSE Suma(desde, p)

\* Mutant: no debouncing.
estable_Siempre(p) == linea # trueState

\* A new reading that is accepted as the true state
estable(p) == espera(p) > DebounceDelay /\ linea # trueState

\* Mutant: lifting is looked for in the wrong level of the line.
descuelga_Bajo(p) == espera(p) > HangTime /\ linea = LOW /\ ~tuboUp

cuelga(p) == espera(p) > HangTime /\ linea = HIGH /\ tuboUp

descuelga(p) == espera(p) > HangTime /\ linea = PASIVO /\ ~tuboUp

\* Mutant: a receiver that is down clears the number, reported or not.
marcado_Borra(p) ==
    IF (espera(p) > HangTime /\ linea = HIGH) \/ descuelga(p) THEN <<>>
    ELSE IF termina(p) THEN Agrega(fullnum, count % Base)
    ELSE fullnum

\* fullnum when the pass reaches the test of resetTime.
marcado(p) ==
    IF cuelga(p) \/ descuelga(p) THEN <<>>
    ELSE IF termina(p) THEN Agrega(fullnum, count % Base)
    ELSE fullnum

\* No change for a long time, with a number begun.
vence(p) == espera(p) > ResetTime /\ ~done /\ marcado(p) # <<>>

\* Mutant: the number that was given up stays.
numero_Queda(p) == marcado(p)

\* fullnum when it is compared with objectivenum
numero(p) == IF vence(p) THEN <<>> ELSE marcado(p)

\* Mutant: the win is reported again and again.
acierta_Repite(p) == numero(p) = Objetivo

acierta(p) == ~done /\ numero(p) = Objetivo

falla(p) == ~done /\ ~acierta(p) /\ Len(numero(p)) + 1 > Len(Objetivo)

Si(b, paquete) == IF b THEN <<paquete>> ELSE <<>>

\* What every pass does, whatever it makes of the number.
lectura(p) ==
    /\ encendido' = Suma(encendido, p)
    /\ tuboUp' = ((tuboUp \/ descuelga(p)) /\ ~cuelga(p))
    /\ enviado' = Si(cuelga(p), "DOWN") \o Si(descuelga(p), "UP")
                    \o Si(vence(p), "FAIL") \o Si(acierta(p), "WIN")
                    \o Si(falla(p), "FAIL")
    /\ anterior' = linea

\* The number is right, not complete, or already won: a digit that was waiting
\* is taken, and then the reading may count as the first pulse of the next.
sigue(p) ==
    LET pulso == estable(p) /\ linea = HIGH
    IN  /\ ~falla(p)
        /\ needToPrint' = (pulso \/ (needToPrint /\ ~termina(p)))
        /\ count' = LET c == IF termina(p) THEN 0 ELSE count
                    IN  IF pulso THEN Pulso(c) ELSE c
        /\ trueState' = IF estable(p) THEN linea ELSE trueState
        /\ lastState' = linea
        /\ desde' = espera(p)
        /\ fullnum' = numero(p)
        /\ done' = (done \/ acierta(p))

\* The number is complete and wrong.
equivocado(p) == falla(p) /\ handleReset(linea, Suma(encendido, p))

Cuerpo ==
    /\ pc = "cuerpo"
    /\ \E p \in Pasadas : lectura(p) /\ (sigue(p) \/ equivocado(p))
    /\ pc' = "http"
    /\ UNCHANGED <<linea, pedido>>

-----------------------------------------------------------------------------

\* Somebody dials, lifts the receiver or puts it down.
MueveLinea ==
    /\ linea' \in Lecturas \ {linea}
    /\ UNCHANGED <<pc, tuboUp, needToPrint, count, lastState, trueState, desde,
                   encendido, fullnum, done, pedido, enviado, anterior>>

Programa == handleClient \/ Cuerpo

Next == Programa \/ MueveLinea

Spec == Init /\ [][Next]_vars

\* loop() is called again and again; nobody promises a request or a call.
FairSpec == Spec /\ WF_vars(Programa)

-----------------------------------------------------------------------------

\* Ranges; a number never grows beyond one digit more than the right one.
TypeOK ==
    /\ pc \in {"http", "cuerpo"}
    /\ linea \in Lecturas /\ lastState \in Lecturas /\ trueState \in Lecturas
    /\ tuboUp \in BOOLEAN /\ needToPrint \in BOOLEAN /\ done \in BOOLEAN
    /\ count \in 0..Base
    /\ encendido \in (HangTime + 1)..Tarde
    /\ desde \in 0..Tarde
    /\ fullnum \in Seq(Digitos) /\ Len(fullnum) <= Len(Objetivo) + 1
    /\ pedido \in {"nada", "reset", "manual"}
    /\ enviado \in Seq({"UP", "DOWN", "WIN", "FAIL"})
    /\ anterior \in Lecturas

\* A digit is waiting exactly when pulses were counted, although handleReset,
\* the end of a digit and the pulse itself set the two in different places.
PulsosPendientes == needToPrint <=> count > 0

\* No complete number survives the pass in which it was completed: between
\* passes a game that goes on has a number still too short, and the number of
\* /manual is still there when the rest of its pass begins.
NumeroDecidido ==
    /\ pc = "http" /\ ~done => Len(fullnum) < Len(Objetivo)
    /\ pc = "cuerpo" /\ ~done =>
         fullnum = Objetivo \/ Len(fullnum) < Len(Objetivo)
    /\ pc = "cuerpo" /\ pedido = "manual" => fullnum = Objetivo

\* lastState is the reading of the last pass, or LOW after a reset.
MemoriaLectura == lastState \in {anterior, LOW}

\* The inductive invariant.
TelefonoInv == TypeOK /\ PulsosPendientes /\ NumeroDecidido /\ MemoriaLectura

\* A pulse is only counted when two passes in a row read it, whichever of the
\* resets came before (lastState and lastStateChangeTime are debouncing
\* state that handleReset overwrites).
PulsoConfirmado ==
    [][trueState' = HIGH /\ trueState # HIGH =>
         linea = HIGH /\ anterior = HIGH]_vars

\* A pass sends at most one packet: the tests for hanging up, for the long
\* silence and for the number exclude each other because each of the first two
\* empties the number.
UnPaquete == Len(enviado) <= 1

\* The step is the second half of a pass.
Pasada == pc = "cuerpo" /\ pc' = "http"

\* After the win the telephone is silent but for the receiver, until a reset.
CalladoTrasGanar ==
    [][Pasada /\ done => done' /\ enviado' \in {<<>>, <<"UP">>, <<"DOWN">>}]_vars

\* /manual never passes unnoticed: the pass that serves it wins, or reports
\* what got in its way.
ManualResponde ==
    [][Pasada /\ pedido = "manual" /\ ~done => enviado' # <<>>]_vars

\* "si telefono marca bien, manda WIN": the right number, which /manual sets,
\* with no digit waiting, is not answered with FAIL.
BienMandaWin ==
    [][Pasada /\ fullnum = Objetivo /\ ~done /\ ~needToPrint
         => enviado' # <<"FAIL">>]_vars

\* A receiver left lifted, or left down, is reported, unless /reset keeps
\* making the line look new.
TuboAvisado ==
    /\ <>[](linea = PASIVO /\ pedido # "reset") => <>[]tuboUp
    /\ <>[](linea = HIGH /\ pedido # "reset") => <>[](~tuboUp)

=============================================================================
