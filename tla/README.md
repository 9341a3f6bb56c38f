# Sal si puedes: TLA+ models of the escape-room firmware

`nearnshaw/arduino-salsipuedes` holds the firmware of an escape room: a dozen
Arduino and ESP8266 sketches under `src/proyectos`, one per prop, that talk to
a PC of the game master. Each sketch is a single `loop()` with global state,
called for ever; what makes them hard is that players, HTTP requests and serial
lines act between any two calls, and in some places in the middle of one.

Sections: [inventory](#1-inventory), [modules](#2-modules-and-code),
[runs](#3-runs), [bounds](#4-bounds), [fairness](#5-fairness),
[proofs](#6-proofs), [findings](#7-disagreements-found),
[left out](#8-not-modelled), [plan](#9-plan).

## 1. Inventory

    game master's PC
      |  HTTP requests (GET /reset, /on, /manual ...)      ^ UDP packets, a port per prop
      v                                                    |
    +------------------------+   +-----------------+  +------------------------+
    | wifi-helper-maquina    |   | wifi-helper-mapa|  | silla, telefono, portal|
    | (ESP8266)              |   | (ESP8266)       |  | trueno, velador, RFID, |
    +------------------------+   +-----------------+  | cuadro-que-cae         |
      | serial 115200 |              | serial |       | (ESP8266, one each)    |
      v words         ^ reports      v        ^       +------------------------+
    +------------------------+   +-----------------+
    | maquina (Arduino Mega) |   | mapa-leds (Uno) |
    +------------------------+   +-----------------+

Props do not talk to each other. The PC, which is not in the repository, joins
them: it relays the chair (`SILLA ON`) to the machine (`/son`) and the thunder
to every light.

| Component | State | Operations | What is hard | What makes it correct |
|---|---|---|---|---|
| **maquina** | plug and its debounce counter, four puzzle flags, `gamesWon`, lights, turbine and thunder countdowns, the Simon game, the line buffer | `loop()`: checkEnchufe, checkKnobs, checkRadio, Simon, rayoPega, updateTurbina, checkIncoming with eight commands | `checkIncoming()` also runs *inside* a game of Simon; one pass reads the plug twice; countdowns and flags are reset in different places; texts without a pause merge | lights show the stage; the door opens only by a win and stays open; Simon is never shortened; a game without interference can always go on; every pass ends |
| **silla-electrica** | contact, armed flag, last pass, count without contact, plasma | `/reset`, `/manual`, `/lista`, loop body | requests between any two passes; the OFF is sent when a counter *equals* 50 | the PC's belief: ON only if armed, OFF always follows, never because of glitches |
| **wifi-helper-maquina** | Wi-Fi/UDP state, text being collected, quiet-pass counter | HTTP to serial, serial to UDP, connection with retries and restart | restart while reports are waiting; full buffer; UDP that did not come up | order, no duplicates, a report is lost only by a restart or a full buffer |
| **wifi-helper-mapa** | Wi-Fi/UDP state, text being collected, quiet-pass counter | `/reset`, `/alarma`, UDPRead, serial to UDP | orders, packets and setup messages share one line with no separator but time | an order is kept apart from other texts; what is printed is forwarded |
| **mapa-leds** | LED pattern, red lights, alarm, text being collected | four buttons, alarm, checkIncoming | passes are slower with the alarm on, and the separation of texts counts passes; its debug prints are forwarded as packets | an order that stays alone is obeyed; red lights only in an alarm; the line falls silent |
| **telefono** | last and accepted reading, age of the last change, pulses, digits, receiver, done | dialling, receiver, `/reset`, `/manual` | everything is decided by the age of the last change, which changes, resets and wrong numbers overwrite; hanging up looks like a pulse | pulses are debounced; one answer per number; the receiver is reported in the end |
| **RFID-cuadro** | validated flag, laser | card, `/reset`, `/manual` | a card between requests | one WIN per game |
| **cuadro-que-cae** | strokes left, half of the stroke, solenoid | `/tirar`, `/manual`, `/reset`, loop body | a request between the halves of a stroke | the count stays right, the coil is not left energised |
| **portal** | on/off, phase, pulse flag and countdown, pixels | `/on`, `/off`, `/shutdown`, `/red`, `/cold`, `/pulso`, `/manual`, `/reset` | flag and countdown set and cleared in different places | off is dark, a pulse lasts its passes and ends |
| **velador** | on/off, countdown, LEDs, buzzer | `/on`, `/off`, `/buzz`, `/manual`, `/reset` | requests overwrite a countdown that is running | flicker and buzzer end, the lamp shows its flag |
| **trueno** | countdown, shapes and flashes left, pixels, brightness | `/trueno`, `/manual`, `/reset` | the flashes block `loop()` | the lights go out |
| relay-switch, TEMPLATE | — | — | — | starting points; relay-switch does not compile |
| tests | — | — | — | bench sketches |
| **libs** (two parts) | UART: FIFO, ring buffer, two positions; HTTP server: connections waiting, current one, its status and time | interrupt against `available`/`read`; `handleClient` against connecting, sending and closing clients | no lock between interrupt and sketch; one connection at a time with two limits, polled by loops that may be busy for seconds | the ring is a bounded queue; a request that arrived is handled, whatever others do |

`helper-functions.ino` (Wi-Fi, UDP, unknown paths) is the same file in every
ESP8266 sketch; it is modelled in `WifiHelper` and `HelperMapa`.

Modules exist for the components in bold.

The hazards these components are exposed to, each at its line and with the
properties aimed at it, are in `PROJECT.json`. Some have no property, because the
code really behaves that way and the models with it: texts that merge on both
serial lines, UDP that does not come up, the hang-up taken for a digit, a pulse of
the portal spoilt by `/off`, a FIFO caught with exactly 128 bytes, and the growing
number of a telephone that was won. Their notes say so.

## 2. Modules and code

| Module | Models | Contents |
|---|---|---|
| `Maquina` | `maquina/*.ino` | the machine: state, one action per call of `loop()`, properties |
| `MCMaquina` | – | values for the function-valued constant `TurbinaLoops` |
| `MaquinaProofs` | – | theorems about `Maquina` |
| `MaquinaEnchufe` | `checkEnchufe()` | `Maquina` with a history of the readings of the plug |
| `EnchufeProofs` | – | theorem about `MaquinaEnchufe` |
| `Silla` | `silla-electrica.ino` | the chair and its properties |
| `SillaProofs` | – | theorems about `Silla` |
| `WifiHelper` | `wifi-helper-maquina.ino`, `helper-functions.ino` | the link, its restarts and its losses |
| `Telefono` | `telefono.ino` | dial decoder, receiver, number and requests |
| `MCTelefono` | – | a right number for the constant `Objetivo` |
| `TelefonoProofs` | – | theorems about `Telefono` |
| `Portal` | `portal.ino` | requests and the figure a pass draws |
| `Velador` | `velador.ino` | requests, flicker, buzzer |
| `CuadroQueCae` | `cuadro-que-cae.ino` | requests and strokes of the solenoid |
| `Trueno` | `trueno.ino` | requests, the flashes inside the handler, the countdown |
| `RFIDCuadro` | `RFID-cuadro.ino` | card, requests, laser, reports |
| `Efecto` | – | abstract: an effect that is started, counts down and ends |
| `Efectos` | – | `Portal`, `Velador`, `CuadroQueCae`, `Trueno` and `RFIDCuadro` side by side |
| `EfectosProofs` | – | theorems about the five props and the refinement of `Efecto` |
| `Mapa` | `mapa-leds/*.ino` | buttons, alarm, checkIncoming |
| `HelperMapa` | `wifi-helper-mapa/*.ino` | connection, requests, UDPRead, forwarding |
| `EnlaceMapa` | – | `Mapa` and `HelperMapa` on one serial line, with their speeds |
| `EnlaceProofs` | – | theorems about `EnlaceMapa` |
| `Fifo` | – | abstract: a bounded queue that loses what finds no room |
| `Uart` | `uart.c`, `HardwareSerial.cpp` | interrupt and sketch sharing the ring buffer |
| `WebServer` | `ESP8266WebServer.cpp`, `Parsing.cpp`, `WiFiServer.cpp`, `WiFiClient.cpp`, `ClientContext.h` | `handleClient()` and its clients |
| `Esp8266` | – | `WifiHelper`, `Uart` and `WebServer` side by side |
| `Lemas` | – | lemmas about numbers, sequences and rings that several proofs need |
| `EspProofs` | – | theorems about `WifiHelper`, `Uart` (with its refinement of `Fifo`), `WebServer` and `Esp8266` |

A definition named `X_Something`, placed before `X`, is a wrong version of `X`
that a property is expected to refute; no specification uses it.

### Maquina

A step is one call that `loop()` makes, in the order of the source (`pc` is the
next call), or one poll of `wait_for_button()`:

    enchufe -> knobs -> radio -> simon -> rayos -> turbina -> enchufe2 -> incoming
       \                          |  ^               ^
        \ not plugged in          v  | play_memory   |
         \----------------------- addmove/wait/button / --------------+

An unplugged pass goes from `checkEnchufe()` straight to the turbine. During
Simon (`addmove`, `wait`, `button`) the program stays inside one call of
`loop()`, but every poll calls `checkIncoming()` first, so `WaitPoll` is a full
`checkIncoming` step, with any handler. That is the one place where another
activity changes the state under a running computation.

* *Handlers* set the state they set in the source, calls included: `handleReset`
  is `lucesOff` and `resetState` and the counter; `handleWin` also opens the
  door; `handleManual` is `handleWin` from stage 4 on. `resetState(on, ganado)`
  takes what the caller stores right after it; it leaves `turbinaCounter` and
  `tiempoRadio` alone, as the source does.
* *The plug* is `plug`; `MueveEnchufe` flips it at any time. `checkEnchufe()`
  is the four cases of `leeEnchufe`, and nothing once `yaGano` is set. Loop
  uses its result twice, differently: as a condition (`Enchufe`) and as an
  assignment (`Enchufe2`, which stores `false` after a win).
* *The line*: `Llega` appends a burst to `rx`. A text is abstracted to: empty,
  exactly one command, or `"ilegible"`. Concatenating two texts that are not
  empty is `"ilegible"`, since no two of the words spell a third.
* *Lights*: the relays that are on, the stretches of the strip that are lit,
  whether the turbine shows anything. Colours and brightness are not modelled;
  `turbinaFlash` redraws at random when its counter is large enough to reach
  the threshold (`ShapeFrom`), so it is a choice.
* *Readings* of knobs, radio and buttons are choices of the step that reads
  them. `tiempoRadio` keeps its width: it counts down past 0 after a reset and
  wraps.
* *Output*: `serial1` is what the last step printed.

### Silla

A pass is `handleClient` (at most one request) and `Cuerpo`. `reportado` is the
last packet, that is, what the PC believes; UDP losses are not modelled.
`silencio` is a history variable: the true number of passes in a row without
an armed contact, with which `offCounter` is compared, also after it wraps.

### WifiHelper

`setup()` is `Boot`, `connectWifi`, `connectUDP`; a pass of `loop()` is
`handleClient` or `handleReset`, then `Reenvia` when UDP is up. Reports of the
machine are numbered, so that loss, duplication and order can be stated;
`perdidos` collects the lost ones. A report is lost in the serial buffer when
that is full or not open yet (external behaviour of the UART), and with all of
memory when the chip restarts. `tx` is the word the last step printed for the
machine.

### Telefono

A pass is `handleClient` and `Cuerpo`. The body of `loop()` is a straight line of
tests; each is an operator of the time `p` the pass takes (`termina`: a digit is
taken; `estable`: the reading is accepted; `cuelga`, `descuelga`: the receiver;
`vence`: resetTime; `acierta`, `falla`: the number), and `marcado` and `numero`
are `fullnum` at the two points of the line where it is tested. `sigue` is a pass
that goes on with the number, `equivocado` one that ends in `handleReset()`,
after which the code still stores the reading in `lastState`.

* *Time*: `desde` is `millis() - lastStateChangeTime`, `encendido` is `millis()`;
  both stop at `Tarde`, beyond which no test tells times apart.
  `handleReset()` stores 0 as the time of the last change, so the change becomes
  as old as the program: `desde' = encendido`. `setup()` lasts more than
  `hangPhoneTime`, hence `Init`.
* *Data*: the line has the three levels the code distinguishes. `count` is kept
  up to `Base`, which is followed by 1, since only `count > 0` and
  `count % Base` are used. `fullnum` is a sequence of digits, kept one digit
  longer than the right number.
* *History*: `anterior` is the last reading, with which the program's own memory
  of it, overwritten by resets, is compared.

### Portal, Velador, CuadroQueCae, Trueno, RFIDCuadro

A pass is `handleClient` and one action for the rest. What the hardware shows is
a variable: `tira` (which figure was drawn last), `luz` and `tono`, `solenoid`,
`laser`. `Portal` keeps the width of `tiempoPulso`: a pulse whose countdown `/off`
zeroed counts through all negative values and wraps. `mostrados`, `cortado`,
`golpes`, `atendido`, `ganadas` and `forzado` are history variables.

`Trueno` has a step per `FastLED.show()` (full brightness, dimmer, dark), because `/trueno` flashes inside the
handler while `loop()` stands still; the strip shows light when the last `show()`
sent pixels that are not black at a brightness that is not 0. In `RFIDCuadro` the
reader library is modelled from its use: a card that was read may have been
silenced (`callada`) until it is lifted, and any read may fail.

`Efecto` says what these props promise, pass by pass. `turno` is where the pass is.
At `"http"` a request, and nothing else, may set the countdown, to one of the
lengths it can ask for (`Duraciones`), or clear it with the output off; at
`"manejador"` a handler that goes on may use the output while the countdown stands;
at `"cuerpo"` the pass takes exactly one off a countdown that runs, the last one
leaving the output off, and leaves an idle one alone. `Velador`, `CuadroQueCae` and
`Trueno` implement it under the mappings `E` of the modules (in this order: the
countdown and the buzzer; the half strokes left and the coil; the countdown and the
light; `turno` is `pc`, the flashes of the thunder being the handler that goes on).

`Efectos` puts the five side by side for one run: they share nothing, so one of
them (`equipo`) is at work in a behaviour and the others stay as they were
switched on, which is enough for properties that each speak of one. These models,
and those of chair and telephone, take Wi-Fi and UDP to be up: when `UDP.begin()`
fails their `loop()` answers requests and does nothing else, which `WifiHelper` and
`HelperMapa` model for their sketches.

### Mapa, HelperMapa, EnlaceMapa

A step of `Mapa` is a pass of `loop()` with the set of buttons that rose in it; the
helper has a step for the request, for `UDPRead()` and for the serial section,
since other texts can reach the line between them. Texts are abstracted as in
`Maquina`. Both programs tell texts apart by 25 passes without a character, so
`EnlaceMapa` keeps time, in fast passes of the map: the `delay(15)` of the helper
lasts `Espera` of them, a pass with the alarm on (`delay(4)` in `updateStrip`) lasts
between 1 and `Lenta`. A pass without alarm lasts 1 and, if it prints, as long as it
has to wait in `Serial.print()` for the Uno's 64-byte buffer; within one delay of
the helper these waits add up to `Bloqueo` at most (`bloqueado` counts them). That
`QuietLoops + Bloqueo < Espera` is an assumption on the hardware: four buttons at
once print 176 bytes, 112 of which must leave first, 10 ms at 115200 baud; each
button is debounced for 25 ms, so it prints once at most in the 15 ms; and 25 passes
of the Uno's short loop take the rest, less than 200 microseconds each.

### MaquinaEnchufe

Adds to `Maquina` what the plug was really read as: the last reading, how many in
a row were like it, and whether an order turned `enchufada` over while a count was
standing. It constrains nothing; it is there to compare the counter with.

### Uart, WebServer, Esp8266

`Fifo` is what a receive buffer promises: bytes come one by one (`Viene`); those that
wait are queued together, unchanged and in order, as many as there is room for,
and only the rest is lost (`Llega`); a read takes the head (`Lee`). `Uart` implements
it with its hardware FIFO as what waits and the content of the ring as the queue.

`Uart`: the interrupt is one action (it runs to its end), the sketch's
`while (Serial.available()) Serial.read()` is cut at every access to `wpos`, which
is not volatile: `available()` may use the value it compared or a newer one, so
the model lets it choose. Bytes are numbered. The fill count of the FIFO is
masked with `0x7F`, so a FIFO of exactly 128 bytes looks empty.

`WebServer`: clients connect, send a request in one piece or two, and close, at
any time; a call of `handleClient()` takes one of the ways through the source.
`millis()` wraps at `Vuelta`; `edad` is the true time since the status changed. A
request whose rest does not come is discarded or, when its first line is
complete, handled.

`Esp8266` puts both beside `WifiHelper`, one at work per behaviour (`parte`).

## 3. Runs

| Run | Question | Result |
|---|---|---|
| `maquina_local` | A game without orders of the game master; plug, puzzles, chair, thunder and noise on the line interleaved. | The invariant of the proofs holds (among it: counters stay in range, thunder flag and countdown agree, the turbine goes dark); each stage means what the comments of `rayoAvanza` say; Simon opens as soon as it should. |
| `maquina_remota` | Every order at every point, also inside Simon. | Lights and stage stay in step, the exit is enabled exactly while the room is won and only an order disables it, stage and solved puzzles differ by at most -1/+4. |
| `maquina_simon` | Games of three rounds with reset and off between any two polls; a history of the plug. | No game is shortened. The debounce counter counts readings in a row; only after an order that turned the plug over do readings of an unplugging count towards a plugging in, never the other way. |
| `maquina_viva` | What must happen, under fairness of `loop()`. | A pass ends, a plug left alone is accepted or noticed, a text is taken, the turbine comes to rest. |
| `maquina_traba_on` | Can the players go on after the order `on`? | **No**, see section 7. |
| `maquina_etapa_reset` | Do the stages keep their documented meaning after a reset? | **No**, when it falls into a game of Simon. |
| `silla` | The chair under all interleavings, with a counter that wraps. | Its invariant (ON only if armed, an OFF is always pending after a lost contact, the plasma shows the arming); no report without its cause, neither by glitches nor by `/manual`; contact and its loss are reported. |
| `esp8266` | The helper of the machine across restarts and failed connections; below it, serial buffer and HTTP server. | Reports are forwarded in order, at most once, lost only as stated, delivered when UDP stays up. The ring buffer is a queue that loses only what finds no room, although interrupt and sketch share it without a lock; `read()` after `available()` finds a byte; bytes are all taken unless the FIFO is caught exactly full. A client is dropped only if it left, sent no request or was silent longer than the limit, however busy `loop()` was; a request that arrived is handled, whatever other clients do. |
| `telefono` | Dialling, hanging up, requests and timers in every order. | The invariant of the proofs; one packet per pass; debounced pulses; silence after the win; `/manual` is answered; the receiver is reported in the end. |
| `telefono_manual` | Is the right number always a WIN? | **No**, see section 7. |
| `efectos` | Portal, lamp, solenoid, thunder and card reader, with requests between any two passes. | The portal is dark when off and a pulse lasts its passes, however interrupted; the lamp shows its flag; the strokes are counted right and the coil is only energised in a stroke; the strip of the thunder is dark between passes; one WIN per game, and a laser with a cause. Lamp, solenoid and thunder implement `Efecto`: only requests set the countdown and every pass takes one off it. All effects end. |
| `mapa` | The map and its helper with requests, packets, buttons, restarts during setup. | After the helper's first pass and with the alarm off, an order is never appended to another text (a packet of the same pass can still be appended to the order, section 7); an order that stays alone is obeyed; when the environment is quiet both lines fall silent and everything was forwarded. |

Deadlock is checked in every run: none of the programs can stop.

## 4. Bounds

All limits of the sources are constants, replaced by small numbers that keep
their order relations.

* `EnchufeLimit = 2` (50): one reading is not enough, the second is; a change
  can be interrupted. `QuietLoops = 1` or `2` (25): a text can wait, merge with
  another and be dispatched. `RoundsToWin = 1..3` (4): with 3 there are rounds
  with a first, a middle and a last move. `EntryPolls = 2, 3`: an entry can be
  answered at once, late, or time out.
* `TiempoRadioTotal`, `IntMax` = 1 or 2 (1000, 32767): tuning can be
  interrupted, and the count can wrap, which needs the smallest `IntMax`.
* `TotalRayos`, `SillaLoops`, `TurbinaLoops`, `ShapeFrom` = 1..3: countdowns of
  one and of several passes, with redraws possible and impossible.
* `Sent` is split between the runs: all eight commands and `"ilegible"` are sent
  in some passing run. `gamesWon` needs no bound: it never exceeds 8.
* `Silla`: `OffLimit = 3` (50), `IntMax = 5`; the counter passes the limit, goes
  on, and wraps.
* `MaquinaEnchufe` (`maquina_simon`): `EnchufeLimit = 3`, so that a count can be
  interrupted after one and after two readings; `Sent = {reset, off}`: an order
  that clears the count and one that does not. The theorem covers the others.
* `WifiHelper`: `MaxReports = 4`, `MaxRestarts = 2` bound the behaviour,
  `PuertoCap = 3` makes the buffer overflow, `WifiLimit = 1` (60), `IntMax = 3`.
* `Uart`: `Size = 4` (256) and `MaxBytes = 7`: the positions come round, the ring
  fills and overflows; `FifoCap = 3` (128): a FIFO that is exactly full.
* `WebServer`: three clients (one current, two waiting, or one long gone);
  `DataWait = 1`, `CloseWait = 2` (1000, 2000) with passes of 1 and 2, which fall on
  and jump over both; `Vuelta = 5` (2^32), so that the clock wraps during a wait.
* `EnlaceMapa`: 2 of 4 buttons (one alone, both at once), `WifiLimit = 1`,
  `QuietLoops = 2`, `Bloqueo = 2`, `Espera = 5` (the least the assumption allows),
  `Lenta = 3`, `IntMax = 3`: with the alarm on two orders can be too close, without it
  they cannot, though by no pass to spare; the waits for the print buffer can fall
  on one pass or on two; the counter of an idle line wraps.
* `Telefono`: `Base = 3`, `Objetivo = <<1, 2, 0>>`: digits of one and two pulses
  and the wrap to 0, numbers that are too short, wrong and right. `DebounceDelay = 0
  < DialTime = 2 < HangTime = 3 < ResetTime = 5` keeps the order of the limits,
  and passes of 1 and 2 units can fall on and jump over each of them.
* `Portal`: `TotalPulso = 3`, `IntMax = 4`: a pulse can be interrupted at every
  point, and a spoilt one wraps. `Velador`: `TiempoBuzz = 8`, so the ranges of the
  three `random` calls overlap as with 75. `CuadroQueCae`: the 3 strokes of the
  code. `Trueno`: 2 to 4 shapes as in the code, 1 to 3 flashes (of up to 9),
  `TiempoTrueno = 2` and `TiempoManual = 7` (100, 1000), the second the longest.

The values the code really uses are covered by the proofs of section 6, which
hold for every value of the constants. They settle every invariant, every
action property and both refinements that the passing runs check; only the
liveness properties rest on these bounds.

## 5. Fairness

Weak fairness of the steps of `loop()` (`Programa`, or `Next` where the module has
no steps of an environment): a
microcontroller calls `loop()` again and again and no call waits for the
environment without a bound (`wait_for_button()` has its time limit, which the
model has as `entryLeft`). In `EnlaceMapa` both
controllers are fair, each by itself; in `Uart` the reading loop and the
interrupt, which the hardware repeats while it is pending; in `WebServer` the
calls of `handleClient()`. No fairness is assumed of players, of the network, of
requests or clients, nor of a particular branch of a step. Liveness properties are
conditional on the environment becoming quiet (`<>[](rx = Vacio)`) where the
code needs it: a helper that sends `reset` for ever does keep a game of Simon
from ending, since each one sends `play_memory()` back to round 0 while a right
answer renews the time limit.

## 6. Proofs

Checked by TLAPS for every value of the constants that satisfies the named
assumptions of the modules: positive limits; `TiempoRadioTotal <= IntMax`,
`OffLimit <= IntMax`, `QuietLoops < IntMax`; the texts that may arrive are commands
or noise; `QuietLoops + Bloqueo < Espera` for the map; a ring and a FIFO of at least two
bytes; a wait of the HTTP server plus one pass of `loop()` shorter than the period
of `millis()`, and no client called as the absence of one. With the values of the
sources (1000, 32767; 25; 256, 128; 2 s against 49 days) all of them hold, the
one about the map by the estimate of section 2. The
bounds on the length of a behaviour (`MaxReports`, `MaxRestarts`, `MaxBytes`) may be
any number.

`MaquinaProofs`

* `Invariante`: `Spec => []IndInv`. `IndInv` is `TypeOK`, `Nucleo` (what holds
  of lights, door, stage, chair and countdowns in every state) and `Turno` (what
  holds because of the program's place). None of the parts is inductive alone:
  `EtapaVisible` needs to know that `plasmas` and `tramos` were those of the
  stage before; `Contabilidad` needs `Turno`, because `play_winner` may only add
  a stage to a game not yet won; that needs `~simonWon` throughout a game, which
  holds since no handler sets `simonWon`; `TypeOK` needs `SimonSinAtajo` for the
  range of `currentMove`, and `RayosAcotados` for `tiempoRayos`. The proof has
  one lemma per group of actions (plug, knobs and radio, Simon, countdowns, the
  line) and one step per conjunct.
* `NucleoSiempre`, `TipoCorrecto`, `EtapaSiempreVisible`, `PuertaSoloGanada`, `CuentaAcotada`,
  `SimonEntero` follow from it.
* `PuertaPorOrden`: the action property that only `reset`, `on` and `off` close
  the exit. It uses that an open exit means `yaGano`, so the plug is not read.
* `EtapasSinOrdenes`: when no order of the game master can arrive
  (`Sent \cap Ordenes = {}`), `EtapasComentadas` and `NoSeTraba` always hold. The
  strengthening `SinOrdenes` says that `gamesWon` counts the solved puzzles and
  that they were solved in order. Together with the two violation runs it
  isolates the cause: the orders. `SimonSeAbre` states the second half by itself.

`EnchufeProofs`

* `CuentaSiempreHonesta`: `HSpec => []CuentaEnchufe`, for every set of orders. Every
  call either leaves plug and count alone, clears the count, or (off, win)
  stores `false` and leaves the count (lemmas `TextoYCuenta`, `SinLeer`); a reading
  clears the count or adds one (`Leyendo`). The range of the counter, needed where
  the history stops counting, comes from `TipoCorrecto` through `HSpec => Spec`.

`SillaProofs`

* `SillaSegura`: `Spec => []SillaInv`. `OffPendiente` is what a reader of the code
  worries about (the OFF is sent by an equality test); it is inductive only
  together with `OnSoloLista` and the type of the counter. `CuentaHonesta`
  relates the counter to the history variable.
* `ReporteSoloJustificado`: ON is reported only for somebody on an armed chair, and
  OFF follows ON only by a reset or after `OffLimit` passes in a row without
  contact, also when the counter wraps.

`TelefonoProofs`

* `TelefonoSeguro`: `Spec => []TelefonoInv`. Besides the type it says that a digit
  is waiting exactly when pulses were counted, that no complete number survives
  its pass, that the number of `/manual` lasts to its pass, and that `lastState` is
  the last reading or LOW. The second needs
  the case `/manual` creates between the two halves of a pass. Sequences are
  kept out of the arithmetic by the predicate `Corto` and its three lemmas.
* `UnSoloPaquete`: the five tests that send exclude each other (lemma
  `Excluyentes`): the first three empty the number that the last two compare.
* `PulsoSiempreConfirmado`: from `MemoriaLectura` and the assumption that a reset
  leaves LOW, a reading of HIGH that is accepted was read in the pass before.
* `CalladoSiempre`: nothing but UP and DOWN after the win.
* `ManualSiempreResponde`: the pass of `/manual` sends a packet. The invariant keeps
  the number of `/manual` until the rest of its pass; if neither the receiver nor the
  long silence empties it, the number compared is the right one, or the right one
  with the digit that was waiting, which is too long.

`EfectosProofs`

* `PortalSeguro`: `Spec => []PortalInv`, the conjunction of type, `ApagadoNegro` and
  `PulsoEntero`. The last needs `~pulso => tiempoPulso = 0`, which is why a spoilt
  pulse is told apart from one that ended.
* `PulsoSiempreEntero` follows.
* `VeladorSeguro`, `CuadroSeguro`, `RfidSeguro`, `TruenoSeguro`: the invariants of the
  four props, each inductive as it stands. That of the picture ties the strokes
  made to the strokes left and the half of the stroke, and says that no stroke is
  half done once the series is over; that of the thunder says at which places of
  the handler shapes and flashes can be left.
* `EfectoSiempreImplementado`: `EfectosSpec => EfectoImplementado`. With the
  invariants, every step of lamp, picture and thunder is mapped to a step of
  `Efecto`: one lemma per prop, one case per action. `handleClient` is a request, a
  cut or nothing; a step within the thunder's handler leaves the countdown; `Cuerpo`
  is one count, or rest when the invariant gives that nothing is left and the output
  is off.

`EnlaceProofs`

* `MapaSiempreSegura`: `Spec => []MapaInv`, and from it `OrdenesSeparadas`: `Spec =>
  SeparadasSinAlarma`. That two texts stay apart is a matter of the speeds of two
  processors that share no clock. The invariant that carries it is `Ritmo`: while
  the helper is in its `delay(15)` and a text lies at the map, what is left of the
  delay, the quiet passes the map has counted and the time it stood in
  `Serial.print()` make up at least the whole delay; so when the delay is over the
  map has counted more than `QuietLoops` and has taken the text. `Lugares` says at which places of the helper's program anything
  was read at all; without it `Ritmo` is not inductive at the step that begins a
  pass.

`EspProofs`

* `WifiSiempre`, `EntregaSiempre`, `PierdeSolo`: the helper of the machine. Reports
  are numbered as they are printed, so `Entrega` says two things: what was sent is
  increasing, and what was sent, is on its way and was lost is together everything
  printed. Order is inductive only for the whole path (sent, then the text being
  put together, then the serial buffer): by the lemma `CaminoPaso` a step
  leaves the path as it is (a report moves along it), cuts it back to what was
  sent (a restart), or appends larger numbers (the machine prints). `IntMax` matters for the counter of quiet passes, which
  wraps on an idle line but never while a text waits.
* `UartSiempre`: `U!Spec => []U!UartInv`. The byte that `read()` takes must still be
  there although interrupts may come between its comparison and its access. The
  strengthening `VistoValido` says that the `wpos` seen by the sketch lies between
  `rpos` and the present `wpos`: what is seen can be old, never ahead. The order of
  what was read is inductive only together with the ring and the FIFO (`Recibidos`),
  whose bytes are all among those that arrived.
* `UartImplementaCola`: `U!Spec => U!F!Spec`. The content of the ring (`cola`, cut out
  of it modulo `Size`) changes as the queue of module `Fifo` does: an interrupt
  appends exactly the longest initial piece of the FIFO for which there is room
  (lemma `IsrEscribe`: `libres` is `Size - 1 - Len(cola)`), `read()` removes the head,
  nothing else changes it.
* `WebSiempre`, `WebDescarteJustificado`: the HTTP server. `Turnos` needs that the
  client being served is not in the list too, `Limites` that the true age of the
  status is the unsigned difference the code computes; that difference is right
  across a wrap of `millis()` because no wait lasts a whole period.
* `PlataformaSiempre`, `ColaSiempre`, `DescarteSiempreJustificado`: the same in the
  composition, which implements each of its parts (lemma `EspPartes`).

`Lemas` holds what these share: the remainder of a division, sequences cut and
joined, a sequence of sequences made one, increasing sequences and a ring
(`Anillo`) that is written at one end and read at the other. What they say of all
numbers is proved from the least element of a set of counterexamples (`MenorNatural`,
`Induccion`), since an induction theorem with an operator as its parameter cannot
be instantiated by the provers; the length of a ring and a place in it are kept as
operators of their own (`Largo`, `Lugar`), which keeps the remainder out of the
obligations about sequences.

Only model-checked: liveness, since fairness and ENABLED are out of the prover's
reach (`LoopVuelve`, `EnchufeNotado`, `TextoAtendido`, `TurbinaTermina`,
`ContactoAvisado`, `TodoLlega`, `BytesTomados`, `PedidoAtendido`, `TuboAvisado`, `EfectosTerminan`, `OrdenObedecida`, `EcoTermina`).

## 7. Disagreements found

1. `incoming.ino:130`: `handleOn()` sets `enchufada` without counting the stage.
   The plug is not counted again, so plug, knobs and radio reach only stage 2
   and Simon stays closed until the next reset (`maquina_traba_on`).
2. `simon.ino:101`: a reset served inside `wait_for_button()` clears the game but
   `play_memory()` continues; winning it adds a stage to a machine that is not
   plugged in (`maquina_etapa_reset`). A comment in `maquina.ino:321` asks
   whether requests can arrive while one plays.
3. `telefono.ino:281`: the test of resetTime comes before the comparison, so
   `/manual` on a telephone nobody touched for 33 minutes answers FAIL
   (`telefono_manual`); line 111 promises WIN for the right number.

Seen while reading, not stated as a run: `telefono.ino:111` says FAIL for a
complete wrong number, but it is also sent for any number begun longer than
resetTime ago (line 283), and a hang-up counts as a digit; `silla-electrica.ino:28` calls
`sillaOnOld` the last reported state, but one pass without contact clears it, 49
passes before the OFF, so a glitch repeats `SILLA ON`; unplugging the machine
prints OFF twice, which travels as one packet `OFFOFF` that the list in
`maquina.ino:8-16` does not have; after a wrong number `handleReset()` of the
telephone makes the last change as old as the program, so that a line that is
HIGH is taken as a digit two passes later, before the dial can have come to
rest; `/off` and `/shutdown` of the portal zero the countdown of a pulse and
leave its flag, so that `/manual`, or `/shutdown` itself, shows a pulse that
lasts until the int has wrapped; `cuadro-que-cae.ino:207` compares (`fallen ==
true;`) where it means to assign, but nothing reads `fallen`; the lamp is dark
at power on although `isOn` is true; `/manual` of the chair sets `sillaOn`,
which the same pass overwrites with the pin; the machine prints `SFAIL` where
its header lists `FAIL`; `handleOff()` and `handleWin()` leave the plug counter as
it is, so fewer than 50 readings can plug the machine in; the header of
`mapa-leds.ino` (lines 8-10) says the map sends nothing, but its debug prints
leave as packets; its strip is computed in every alarm pass and never shown,
shares pin 3 with a button, and only the first button gets its pull-up; with the
alarm on, or in the helper's first pass, or when a packet is printed in the same
pass, an order to the map merges with another text and is lost; `/manual` of
`trueno`, `RFID-cuadro`, `cuadro-que-cae` and `telefono`, and `/tirar`, send no HTTP
answer, so the client waits for `HTTP_MAX_CLOSE_WAIT` and blocks the others meanwhile; after a reset of the
reader a card left on it may have to be lifted before it is seen; `uart.c:135`
masks the FIFO count with `0x7F` although the field has 8 bits
(`esp8266_peri.h:259`).

## 8. Not modelled

* Colour, brightness, tones and the duration of `delay()`: no state the
  properties speak of depends on them. Time appears as numbers of passes and
  polls.
* Loss and reordering of UDP packets on the network: no code handles them.
* The PC: not in the repository.
* `relay-switch` (does not compile), `TEMPLATE` (a skeleton), `src/tests` (bench
  sketches and earlier versions of the same controllers).
* `src/libs`, except the receiving UART and the HTTP server: almost all lines of
  code of the repository are vendored third-party code (lwIP, file systems, displays,
  fonts, a chess engine, examples) that the sketches do not reach, or reach only
  through the interfaces modelled. Modelling it would say nothing about the
  escape room; the share of the repository's lines that the models cover is
  small for this reason.
* Transmission: `Serial.print` is taken to reach the line, `UDP.endPacket` the PC.
* The position `pos` of the portal's colours: it only chooses colours.

## 9. Plan

All components with behaviour of their own are modelled. In order of importance,
what is left:

1. `Enlace`: `Maquina` composed with `WifiHelper` over the two directions of the
   line; what the PC believes of the plug after a restart that swallows an OFF.
2. The safety half of the liveness properties as theorems: the countdowns that
   can only fall (turbine, effects, the delay of the helper).
