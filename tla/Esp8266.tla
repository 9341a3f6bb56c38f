------------------------------- MODULE Esp8266 -------------------------------
(***************************************************************************)
(* The helper of the machine next to the two pieces of the ESP8266 core    *)
(* that all these sketches stand on: the receiving UART (U) and the HTTP   *)
(* server (W).  Each is checked by itself: parte is the one at work, the   *)
(* others stay as they were switched on.                                   *)
(***************************************************************************)
EXTENDS WifiHelper

CONSTANTS Size, FifoCap, MaxBytes, Clientes, DataWait, CloseWait, Pasos, Vuelta

VARIABLES
    parte,
    fifo, buffer, wpos, rpos, upc, visto, data, llegados, leidos,
    conexion, datos, unclaimed, status, actual, statusChange, reloj, edad,
    atendidos

uvars == <<fifo, buffer, wpos, rpos, upc, visto, data, llegados, leidos>>

wvars == <<conexion, datos, unclaimed, status, actual, statusChange, reloj,
           edad, atendidos>>

U == INSTANCE Uart WITH pc <- upc

W == INSTANCE WebServer

ASSUME EspAssumption == U!UartSuficiente /\ W!WebSuficiente

EspInit ==
    /\ parte \in {"helper", "uart", "web"}
    /\ Init /\ U!Init /\ W!Init

Helper(A) == parte = "helper" /\ A /\ UNCHANGED <<parte, uvars, wvars>>

EnUart(A) == parte = "uart" /\ A /\ UNCHANGED <<parte, vars, wvars>>

EnWeb(A) == parte = "web" /\ A /\ UNCHANGED <<parte, vars, uvars>>

EspNext == Helper(Next) \/ EnUart(U!Next) \/ EnWeb(W!Next)

todo == <<parte, vars, uvars, wvars>>

\* Each program keeps running, a pending interrupt is served; neither machine
\* nor clients promise anything.
EspSpec ==
    /\ EspInit /\ [][EspNext]_todo
    /\ WF_todo(Helper(Programa))
    /\ WF_todo(EnUart(U!Lector)) /\ WF_todo(EnUart(U!uart_isr))
    /\ WF_todo(EnWeb(W!Servidor))

-----------------------------------------------------------------------------
(* The properties of the helper are those of its module. *)

\* Serial and the HTTP server in every state: after available() a read finds a
\* byte, the oldest, although the interrupt may change wpos within available();
\* connections are kept apart and no longer than their limits, also when
\* millis() comes round, and each request is handled once.
PlataformaInv == U!UartInv /\ W!WebInv

\* The ring buffer the interrupt and the sketch share without a lock behaves as
\* a bounded queue: it holds the bytes of the FIFO in their order, loses only
\* those that find no room, and gives each to the sketch once.
UartEsCola == U!F!Spec

\* Every byte is taken, as long as the FIFO is never caught completely full.
BytesTomados == U!BytesTomados

\* A client is only given up unanswered when it left, sent no request or was
\* silent for longer than the limit, however long loop() was busy.
DescarteJustificado == W!DescarteJustificado

\* A request that has arrived reaches its handler, whatever other clients do.
PedidoAtendido == W!PedidoAtendido

=============================================================================
