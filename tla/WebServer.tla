------------------------------ MODULE WebServer ------------------------------
(***************************************************************************)
(* The HTTP server every ESP8266 prop polls once per pass of loop(): one   *)
(* connection at a time, the others in a queue, and two time limits that   *)
(* keep a silent client from holding it.                                   *)
(*                                                                         *)
(* Source: libs/Arduino-master/libraries/ESP8266WebServer/src/             *)
(* {ESP8266WebServer,Parsing}.cpp, .../ESP8266WiFi/src/{WiFiServer.cpp,    *)
(* WiFiClient.cpp,include/ClientContext.h}.                                *)
(*                                                                         *)
(* A client connects once, may send one request, in one piece or two, and  *)
(* may close.  Contents, and so the handler that is called, are left out.  *)
(***************************************************************************)
EXTENDS Integers, Sequences, SequencesExt

CONSTANTS
    Clientes,
    DataWait,       \* HTTP_MAX_DATA_WAIT (1000)
    CloseWait,      \* HTTP_MAX_CLOSE_WAIT (2000)
    Pasos,          \* durations of the rest of a pass of loop()
    Vuelta          \* millis() counts modulo this (2^32)

Nadie == "nadie"

\* No client is called Nadie, and the clock does not come round while one is
\* waited for.
WebSuficiente ==
    /\ Nadie \notin Clientes
    /\ DataWait \in Nat /\ CloseWait \in Nat /\ Vuelta \in Nat
    /\ Pasos \subseteq Nat \ {0} /\ Pasos # {}
    /\ \A d \in Pasos : DataWait + d < Vuelta /\ CloseWait + d < Vuelta

VARIABLES
    conexion,       \* of each client: "fuera", "abierta", "cerrada" (by the
                    \* client) or "soltada" (by the server)
    datos,          \* unread from each client: "nada", "parte" or "pedido"
    unclaimed,      \* connections accepted and not yet taken
    status,         \* _currentStatus: "NONE", "READ" or "CLOSE"
    actual,         \* _currentClient
    statusChange,
    reloj,          \* millis()
    edad,           \* history: time since statusChange was set, up to Vuelta
    atendidos       \* history: clients whose request reached a handler

vars == <<conexion, datos, unclaimed, status, actual, statusChange, reloj, edad,
          atendidos>>

Init ==
    /\ conexion = [c \in Clientes |-> "fuera"]
    /\ datos = [c \in Clientes |-> "nada"]
    /\ unclaimed = <<>>
    /\ status = "NONE" /\ actual = Nadie
    /\ statusChange = 0 /\ reloj = 0 /\ edad = 0
    /\ atendidos = {}

-----------------------------------------------------------------------------
(* The clients and the TCP callbacks *)

\* WiFiServer::_accept() puts the connection at the end of the list.
_accept(c) ==
    /\ conexion[c] = "fuera"
    /\ conexion' = [conexion EXCEPT ![c] = "abierta"]
    /\ unclaimed' = Append(unclaimed, c)
    /\ UNCHANGED <<datos, status, actual, statusChange, reloj, edad, atendidos>>

\* The request arrives, in one piece or two.
_recv(c) ==
    /\ conexion[c] = "abierta"
    /\ datos[c] = "parte" \/ (datos[c] = "nada" /\ c \notin atendidos)
    /\ \E d \in {"parte", "pedido"} \ {datos[c]} :
         datos' = [datos EXCEPT ![c] = d]
    /\ UNCHANGED <<conexion, unclaimed, status, actual, statusChange, reloj, edad,
                   atendidos>>

\* The client goes away; what it sent can still be read.
Cierra(c) ==
    /\ conexion[c] = "abierta"
    /\ conexion' = [conexion EXCEPT ![c] = "cerrada"]
    /\ UNCHANGED <<datos, unclaimed, status, actual, statusChange, reloj, edad,
                   atendidos>>

-----------------------------------------------------------------------------
(* handleClient() *)

\* WiFiClient::connected() and available()
available(c) == datos[c] # "nada"

connected(c) == conexion[c] = "abierta" \/ available(c)

\* The connection this call works on: the current one, or the first in the list,
\* whose time starts now.
toma == status = "NONE" /\ unclaimed # <<>>

cliente == IF toma THEN Head(unclaimed) ELSE actual

estado == IF toma THEN "READ" ELSE status

inicio(ahora) == IF toma THEN ahora ELSE statusChange

\* millis() - _statusChange, both unsigned
transcurrido(ahora) == (ahora - inicio(ahora)) % Vuelta

\* _currentClient = WiFiClient(): the last reference closes the connection.
suelta(c) ==
    /\ conexion' = [conexion EXCEPT ![c] = "soltada"]
    /\ datos' = [datos EXCEPT ![c] = "nada"]
    /\ status' = "NONE" /\ actual' = Nadie

espera ==
    /\ status' = estado /\ actual' = cliente
    /\ UNCHANGED <<conexion, datos>>

\* Mutant: the limit is tested before the data.
SinDatos_Primero(ahora) ==
    /\ estado = "READ" /\ connected(cliente)
    /\ \/ transcurrido(ahora) > DataWait /\ suelta(cliente)
       \/ transcurrido(ahora) <= DataWait /\ ~available(cliente) /\ espera
    /\ statusChange' = inicio(ahora)
    /\ UNCHANGED atendidos

\* Connected and silent: wait, or give up.
SinDatos(ahora) ==
    /\ estado = "READ" /\ connected(cliente) /\ ~available(cliente)
    /\ IF transcurrido(ahora) > DataWait THEN suelta(cliente) ELSE espera
    /\ statusChange' = inicio(ahora)
    /\ UNCHANGED atendidos

\* The client has gone and left nothing to read.
Desconectado(ahora) ==
    /\ ~connected(cliente)
    /\ suelta(cliente)
    /\ statusChange' = inicio(ahora)
    /\ UNCHANGED atendidos

\* _parseRequest() fails: the rest of a request did not come in time.
NoEntiende(ahora) ==
    /\ estado = "READ" /\ datos[cliente] = "parte"
    /\ suelta(cliente)
    /\ statusChange' = inicio(ahora)
    /\ UNCHANGED atendidos

\* _parseRequest(), which empties the connection, and _handleRequest(); the
\* client is still there, or not.  The rest of a request may come meanwhile.
Atiende(ahora) ==
    /\ estado = "READ" /\ available(cliente)
    /\ atendidos' = atendidos \cup {cliente}
    /\ IF conexion[cliente] = "abierta"
       THEN /\ datos' = [datos EXCEPT ![cliente] = "nada"]
            /\ status' = "CLOSE" /\ actual' = cliente
            /\ statusChange' = ahora
            /\ UNCHANGED conexion
       ELSE suelta(cliente) /\ statusChange' = inicio(ahora)

\* Mutant: the client that was answered is waited for without a limit.
EsperaCierre_SinTope(ahora) ==
    /\ status = "CLOSE" /\ connected(actual)
    /\ espera
    /\ UNCHANGED <<statusChange, atendidos>>

\* The answered client is given some time to close.
EsperaCierre(ahora) ==
    /\ status = "CLOSE" /\ connected(actual)
    /\ IF transcurrido(ahora) > CloseWait THEN suelta(actual) ELSE espera
    /\ UNCHANGED <<statusChange, atendidos>>

\* No connection is waiting.
Nada ==
    /\ status = "NONE" /\ unclaimed = <<>>
    /\ UNCHANGED <<conexion, datos, status, actual, statusChange, atendidos>>

\* d is what the rest of loop() took since the last call.
handleClient(d) ==
    LET ahora == (reloj + d) % Vuelta
    IN  /\ reloj' = ahora
        /\ unclaimed' = IF toma THEN Tail(unclaimed) ELSE unclaimed
        /\ \/ Nada
           \/ /\ status # "NONE" \/ toma
              /\ \/ Desconectado(ahora) \/ SinDatos(ahora) \/ NoEntiende(ahora)
                 \/ Atiende(ahora) \/ EsperaCierre(ahora)
        /\ edad' = IF status' = "NONE" \/ status' # status THEN 0
                   ELSE IF edad + d < Vuelta THEN edad + d ELSE Vuelta

Servidor == \E d \in Pasos : handleClient(d)

Next ==
    Servidor \/ \E c \in Clientes : _accept(c) \/ _recv(c) \/ Cierra(c)

Spec == Init /\ [][Next]_vars

\* loop() keeps calling handleClient(); clients promise nothing.
FairSpec == Spec /\ WF_vars(Servidor)

-----------------------------------------------------------------------------

\* Ranges.
TypeOK ==
    /\ conexion \in [Clientes -> {"fuera", "abierta", "cerrada", "soltada"}]
    /\ datos \in [Clientes -> {"nada", "parte", "pedido"}]
    /\ unclaimed \in Seq(Clientes)
    /\ status \in {"NONE", "READ", "CLOSE"}
    /\ actual \in Clientes \cup {Nadie}
    /\ statusChange \in 0..(Vuelta - 1) /\ reloj \in 0..(Vuelta - 1)
    /\ edad \in 0..Vuelta /\ atendidos \subseteq Clientes

\* The connections not yet taken, the current one and the ones let go are kept
\* apart, and a client whose request was handled is not handled again.
Turnos ==
    /\ status = "NONE" <=> actual = Nadie
    /\ IsInjective(unclaimed) /\ actual \notin Range(unclaimed)
    /\ \A c \in Clientes :
         conexion[c] \in {"abierta", "cerrada"} <=> c = actual \/ c \in Range(unclaimed)
    /\ status = "CLOSE" => actual \in atendidos
    /\ \A c \in atendidos : c # actual => conexion[c] = "soltada"

\* Nobody is kept longer than the limits, also when millis() comes round.
Limites ==
    /\ status # "NONE" => edad = (reloj - statusChange) % Vuelta
    /\ status = "READ" => edad <= DataWait
    /\ status = "CLOSE" => edad <= CloseWait

\* What holds in every state.
WebInv == TypeOK /\ Turnos /\ Limites

\* The server lets go of a client it did not answer only if that client left
\* without a word, sent something that is not a request, or was silent for
\* longer than DataWait; a request that is there is handled, however late the
\* call that finds it comes.
DescarteJustificado ==
    [][\A c \in Clientes :
         conexion[c] # "soltada" /\ conexion'[c] = "soltada" /\ c \notin atendidos'
           => \/ conexion[c] = "cerrada" /\ datos[c] = "nada"
              \/ datos[c] = "parte"
              \/ datos[c] = "nada" /\ edad + ((reloj' - reloj) % Vuelta) > DataWait]_vars

\* A request that has arrived reaches its handler, however many silent clients
\* came before it and however long they stay.
PedidoAtendido ==
    \A c \in Clientes : datos[c] = "pedido" /\ c \notin atendidos ~> c \in atendidos

=============================================================================
