----------------------------- MODULE RFIDCuadro ------------------------------
(***************************************************************************)
(* The picture with a card reader: the right card switches a laser on and  *)
(* is reported once; then no card is looked for until /reset.              *)
(*                                                                         *)
(* Source: proyectos/RFID-cuadro/RFID-cuadro.ino.                          *)
(*                                                                         *)
(* The reader is a library that is not under src/ (a zip); what it returns *)
(* is modelled from how loop() uses it.  The tone is left out.             *)
(***************************************************************************)

EXTENDS Naturals

VARIABLES
    pc,             \* "http" or "lector"
    validado, laser,
    tarjeta,        \* the card on the reader: "ninguna", "buena" or "mala"
    callada,        \* PICC_HaltA() silenced it: it is not new until lifted
    enviado,        \* the last packet
    pedido,         \* the request the last handleClient() served
    ganadas,        \* history: WINs sent since power on or /reset
    forzado         \* history: /manual was served since then

vars == <<pc, validado, laser, tarjeta, callada, enviado, pedido, ganadas,
          forzado>>

Init ==
    /\ pc = "http"
    /\ validado = FALSE /\ laser = FALSE
    /\ tarjeta = "ninguna" /\ callada = FALSE
    /\ enviado = "nada" /\ pedido = "nada"
    /\ ganadas = 0 /\ forzado = FALSE

-----------------------------------------------------------------------------

\* Somebody lays a card on the reader or takes it away; a silenced card wakes
\* up when it leaves the field.
MueveTarjeta ==
    /\ tarjeta' \in {"ninguna", "buena", "mala"} \ {tarjeta}
    /\ tarjeta = "ninguna" \/ tarjeta' = "ninguna"
    /\ callada' = FALSE
    /\ UNCHANGED <<pc, validado, laser, enviado, pedido, ganadas, forzado>>

handleReset ==
    /\ laser' = FALSE /\ validado' = FALSE
    /\ ganadas' = 0 /\ forzado' = FALSE

\* /manual lights the laser but validates nothing (and sends no answer).
handleManual ==
    /\ laser' = TRUE
    /\ forzado' = TRUE
    /\ UNCHANGED <<validado, ganadas>>

handleClient ==
    /\ pc = "http"
    /\ \/ pedido' = "reset" /\ handleReset
       \/ pedido' = "manual" /\ handleManual
       \/ pedido' = "nada" /\ UNCHANGED <<validado, laser, ganadas, forzado>>
    /\ pc' = "lector"
    /\ UNCHANGED <<tarjeta, callada, enviado>>

\* PICC_IsNewCardPresent() or the first PICC_ReadCardSerial() fails, which a
\* card that was read before, or not well placed, makes happen.
SinTarjeta ==
    /\ pc = "lector"
    /\ ~validado
    /\ pc' = "http"
    /\ UNCHANGED <<validado, laser, tarjeta, callada, enviado, pedido, ganadas,
                   forzado>>

\* The serial number is read.  The second PICC_ReadCardSerial() may have thrown
\* the card out of the state in which PICC_HaltA() silences it.
lee ==
    /\ pc = "lector"
    /\ ~validado
    /\ tarjeta # "ninguna" /\ ~callada
    /\ callada' \in BOOLEAN
    /\ pc' = "http"
    /\ UNCHANGED <<tarjeta, pedido, forzado>>

\* Mutant: the right card is reported but not remembered.
Acierta_Olvida ==
    /\ lee
    /\ tarjeta = "buena"
    /\ laser' = TRUE /\ UNCHANGED validado
    /\ enviado' = "WIN" /\ ganadas' = ganadas + 1

Acierta ==
    /\ lee
    /\ tarjeta = "buena"
    /\ laser' = TRUE /\ validado' = TRUE
    /\ enviado' = "WIN" /\ ganadas' = ganadas + 1

Falla ==
    /\ lee
    /\ tarjeta = "mala"
    /\ enviado' = "FAIL"
    /\ UNCHANGED <<validado, laser, ganadas>>

\* After the win no card is looked for.
YaValidado ==
    /\ pc = "lector"
    /\ validado
    /\ pc' = "http"
    /\ UNCHANGED <<validado, laser, tarjeta, callada, enviado, pedido, ganadas,
                   forzado>>

Next == MueveTarjeta \/ handleClient \/ SinTarjeta \/ Acierta \/ Falla
          \/ YaValidado

Spec == Init /\ [][Next]_vars

-----------------------------------------------------------------------------

\* Ranges; at most one WIN per game, however often cards and requests follow
\* each other.
TypeOK ==
    /\ pc \in {"http", "lector"}
    /\ validado \in BOOLEAN /\ laser \in BOOLEAN /\ callada \in BOOLEAN
    /\ tarjeta \in {"ninguna", "buena", "mala"}
    /\ enviado \in {"nada", "WIN", "FAIL"}
    /\ pedido \in {"nada", "reset", "manual"}
    /\ ganadas \in {0, 1} /\ forzado \in BOOLEAN

\* The flag is the report: the picture stops looking for cards exactly when
\* the PC was told WIN in this game, and no FAIL follows that WIN.
UnSoloWin ==
    /\ validado <=> ganadas = 1
    /\ validado => enviado = "WIN"

\* The laser burns because of this game: its WIN or its /manual.
LaserJustificado == laser <=> validado \/ forzado

\* What holds in every state.
RfidInv == TypeOK /\ UnSoloWin /\ LaserJustificado

=============================================================================
