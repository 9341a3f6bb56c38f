--------------------------- MODULE MaquinaEnchufe ----------------------------
(***************************************************************************)
(* The machine with a history of its plug: which readings checkEnchufe()   *)
(* has really seen in a row, to compare with the counter it keeps.         *)
(***************************************************************************)
EXTENDS MCMaquina

VARIABLES
    ultima,         \* the last reading of the plug
    seguidas,       \* readings in a row that were like it, up to EnchufeLimit
    heredado        \* an order turned enchufada over and left the count standing

historia == <<ultima, seguidas, heredado>>

HInit == Init /\ ultima = FALSE /\ seguidas = 0 /\ heredado = FALSE

\* checkEnchufe() reads the plug, twice in a pass, until the room is won.
Lee == pc \in {"enchufe", "enchufe2"} /\ ~yaGano

HPrograma ==
    /\ Programa
    /\ IF Lee
       THEN /\ ultima' = plug
            /\ seguidas' = IF plug # ultima THEN 1
                           ELSE IF seguidas < EnchufeLimit THEN seguidas + 1
                           ELSE seguidas
       ELSE UNCHANGED <<ultima, seguidas>>
    /\ heredado' = (/\ enchufeCounter' > 0
                    /\ heredado \/ enchufada' # enchufada)

HNext == HPrograma \/ ((MueveEnchufe \/ Llega) /\ UNCHANGED historia)

HSpec == HInit /\ [][HNext]_<<vars, historia>>

\* The count is made of readings in a row that contradict enchufada, whatever
\* orders came between them.  The exception is an order that turns enchufada
\* over and leaves the count (off and win do): from then on the readings of an
\* unplugging count towards a plugging in.  Never the other way round: nobody
\* loses the game by a plug that was out for less than EnchufeLimit readings.
CuentaEnchufe ==
    /\ enchufeCounter > 0 /\ ~heredado
         => ultima # enchufada /\ enchufeCounter <= seguidas
    /\ heredado => ~enchufada

=============================================================================
