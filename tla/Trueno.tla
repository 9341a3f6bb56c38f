------------------------------- MODULE Trueno --------------------------------
(***************************************************************************)
(* The lights of the thunder: /trueno shows a few random shapes that flash *)
(* a few times each, all of it inside the handler, so that loop() stands   *)
(* still; the countdown /trueno and /manual set runs in loop() afterwards. *)
(*                                                                         *)
(* Source: proyectos/trueno/trueno.ino.                                    *)
(*                                                                         *)
(* What the strip shows is what the last FastLED.show() sent: pixels that  *)
(* are not black, at a brightness that is not 0.                           *)
(***************************************************************************)
EXTENDS Integers

CONSTANTS
    TiempoTrueno,   \* tiempoTrueno (100)
    TiempoManual,   \* what /manual stores in the counter (1000)
    Formas,         \* numbers of shapes: random(2, 5)
    Destellos       \* flashes of a shape: random(1, 10)

\* A thunder has something to show and to count.
TruenoSuficiente ==
    /\ TiempoTrueno \in Nat \ {0} /\ TiempoManual \in Nat \ {0}
    /\ Formas \subseteq Nat \ {0} /\ Formas # {}
    /\ Destellos \subseteq Nat \ {0} /\ Destellos # {}

VARIABLES
    pc,             \* "http", "forma", "destello", "brillante", "tenue" or
                    \* "cuerpo"
    truenoCounter,
    formas,         \* shapes left of the loop over s
    destellos,      \* flashes left of the loop over r
    pixeles,        \* some element of leds[] is not black
    brillo,         \* the brightness of FastLED is not 0
    luz,            \* the strip shows light
    pedido          \* the request the last handleClient() served

vars == <<pc, truenoCounter, formas, destellos, pixeles, brillo, luz, pedido>>

\* setup() ends with lightsOff(); FastLED starts at full brightness.
Init ==
    /\ pc = "http"
    /\ truenoCounter = 0 /\ formas = 0 /\ destellos = 0
    /\ pixeles = FALSE /\ brillo = TRUE /\ luz = FALSE
    /\ pedido = "nada"

-----------------------------------------------------------------------------

lightsOff == pixeles' = FALSE /\ luz' = FALSE

handleReset ==
    /\ truenoCounter' = 0
    /\ lightsOff
    /\ UNCHANGED formas

\* /manual only sets the counter, which lights nothing.
handleManual ==
    /\ truenoCounter' = TiempoManual
    /\ UNCHANGED <<formas, pixeles, luz>>

\* random(a, b) of the Arduino core, then the beginning of updateTrueno()
handleTrueno ==
    /\ truenoCounter' \in TiempoTrueno..(TiempoTrueno * 3 - 1)
    /\ formas' \in Formas
    /\ UNCHANGED <<pixeles, luz>>

handleClient ==
    /\ pc = "http"
    /\ \/ pedido' = "reset" /\ handleReset /\ pc' = "cuerpo"
       \/ pedido' = "manual" /\ handleManual /\ pc' = "cuerpo"
       \/ pedido' = "trueno" /\ handleTrueno /\ pc' = "forma"
       \/ /\ pedido' = "nada" /\ pc' = "cuerpo"
          /\ UNCHANGED <<truenoCounter, formas, pixeles, luz>>
    /\ UNCHANGED <<destellos, brillo>>

\* newShapeTrueno(), ApplyShape() and show(): a shape may be all black.
newShape ==
    /\ pc = "forma"
    /\ formas > 0
    /\ formas' = formas - 1
    /\ destellos' \in Destellos
    /\ pixeles' \in BOOLEAN
    /\ luz' = (pixeles' /\ brillo)
    /\ pc' = "destello"
    /\ UNCHANGED <<truenoCounter, brillo, pedido>>

\* Full brightness, ...
Destello ==
    /\ pc = "destello"
    /\ destellos > 0
    /\ brillo' = TRUE /\ luz' = pixeles
    /\ pc' = "brillante"
    /\ UNCHANGED <<truenoCounter, formas, destellos, pixeles, pedido>>

\* ... then a dimmer one, random(5, 100), which is not 0 ...
Atenua ==
    /\ pc = "brillante"
    /\ brillo' = TRUE /\ luz' = pixeles
    /\ pc' = "tenue"
    /\ UNCHANGED <<truenoCounter, formas, destellos, pixeles, pedido>>

\* ... and darkness.
Oscuridad ==
    /\ pc = "tenue"
    /\ brillo' = FALSE /\ luz' = FALSE
    /\ destellos' = destellos - 1
    /\ pc' = "destello"
    /\ UNCHANGED <<truenoCounter, formas, pixeles, pedido>>

OtraForma ==
    /\ pc = "destello"
    /\ destellos = 0
    /\ pc' = "forma"
    /\ UNCHANGED <<truenoCounter, formas, destellos, pixeles, brillo, luz,
                   pedido>>

\* Mutant: the last shape is left in the pixels, at the brightness it had.
Termina_SinApagar ==
    /\ pc = "forma"
    /\ formas = 0
    /\ brillo' = TRUE /\ luz' = pixeles
    /\ pc' = "cuerpo"
    /\ UNCHANGED <<truenoCounter, formas, destellos, pixeles, pedido>>

\* The end of updateTrueno()
Termina ==
    /\ pc = "forma"
    /\ formas = 0
    /\ lightsOff
    /\ pc' = "cuerpo"
    /\ UNCHANGED <<truenoCounter, formas, destellos, brillo, pedido>>

\* Mutant: a pass takes five off the countdown.
Cuerpo_DeACinco ==
    /\ pc = "cuerpo"
    /\ \/ /\ truenoCounter > 0
          /\ truenoCounter' = IF truenoCounter > 5 THEN truenoCounter - 5 ELSE 0
          /\ UNCHANGED <<pixeles, luz>>
       \/ /\ truenoCounter <= 0
          /\ lightsOff
          /\ UNCHANGED truenoCounter
    /\ pc' = "http"
    /\ UNCHANGED <<formas, destellos, brillo, pedido>>

\* The rest of loop()
Cuerpo ==
    /\ pc = "cuerpo"
    /\ \/ /\ truenoCounter > 0
          /\ truenoCounter' = truenoCounter - 1
          /\ UNCHANGED <<pixeles, luz>>
       \/ /\ truenoCounter <= 0
          /\ lightsOff
          /\ UNCHANGED truenoCounter
    /\ pc' = "http"
    /\ UNCHANGED <<formas, destellos, brillo, pedido>>

Next == handleClient \/ newShape \/ Destello \/ Atenua \/ Oscuridad
          \/ OtraForma \/ Termina \/ Cuerpo

Spec == Init /\ [][Next]_vars

\* loop() is called again and again; nobody promises a request.
FairSpec == Spec /\ WF_vars(Next)

-----------------------------------------------------------------------------

Labels == {"http", "forma", "destello", "brillante", "tenue", "cuerpo"}

\* The longest countdown.
Duracion ==
    IF TiempoTrueno * 3 - 1 > TiempoManual THEN TiempoTrueno * 3 - 1
                                           ELSE TiempoManual

\* Ranges; the countdown does not pass 0.
TypeOK ==
    /\ pc \in Labels
    /\ truenoCounter \in 0..Duracion
    /\ formas \in Nat /\ destellos \in Nat
    /\ pixeles \in BOOLEAN /\ brillo \in BOOLEAN /\ luz \in BOOLEAN
    /\ pedido \in {"nada", "reset", "manual", "trueno"}

\* Between two passes of loop() the strip is dark and holds no shape that a
\* later show() could bring back, whatever the brightness was left at.
SoloDestella ==
    pc \in {"http", "cuerpo"} => ~luz /\ ~pixeles /\ formas = 0 /\ destellos = 0

\* What holds in every state; the flashes only run in the first pass of a
\* countdown.
TruenoInv ==
    /\ TypeOK /\ SoloDestella
    /\ luz => pixeles /\ brillo
    /\ pc \notin {"http", "cuerpo"} => truenoCounter > 0
    /\ pc \in {"brillante", "tenue"} => destellos > 0
    /\ pc = "forma" => destellos = 0

\* Where the pass of loop() is: the flashes run within the handler.
Turno == IF pc \in {"http", "cuerpo"} THEN pc ELSE "manejador"

\* The thunder as an effect: its countdown and the light of the strip.
E == INSTANCE Efecto
       WITH turno <- Turno, resto <- truenoCounter, activo <- luz,
            Duraciones <- TiempoTrueno..(TiempoTrueno * 3 - 1) \cup {TiempoManual}

\* The handler that flashes returns: loop() serves requests again.
TruenoVuelve == []<>(pc = "http")

=============================================================================
