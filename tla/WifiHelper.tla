----------------------------- MODULE WifiHelper ------------------------------
(***************************************************************************)
(* The ESP8266 that links the machine to the network: HTTP requests of the *)
(* game master become words on the serial line, and what the machine       *)
(* prints becomes UDP packets, one packet per burst of characters.         *)
(*                                                                         *)
(* Source: proyectos/wifi-helper-maquina/{wifi-helper-maquina,             *)
(* helper-functions}.ino.                                                  *)
(*                                                                         *)
(* A report of the machine is the number of its turn: what matters here is *)
(* whether it arrives, once, in order and by itself.  Characters that      *)
(* reach the chip before Serial.begin(), or a full buffer, are lost.       *)
(***************************************************************************)
EXTENDS Integers, Sequences, FiniteSets, SequencesExt

CONSTANTS
    Bursts,       \* numbers of reports the machine prints back to back
    MaxReports,   \* bound: reports in a behaviour
    MaxRestarts,  \* bound: resets requested in a behaviour
    PuertoCap,    \* reports the receive buffer holds
    WifiLimit,    \* polls of WiFi.status() counted before ESP.restart() (60)
    QuietLoops,   \* quiet passes before a packet is sent (25)
    IntMax        \* largest int

ASSUME HelperAssumption ==
    /\ Bursts \subseteq Nat \ {0} /\ MaxReports \in Nat /\ MaxRestarts \in Nat
    /\ PuertoCap \in Nat \ {0} /\ WifiLimit \in Nat
    /\ QuietLoops \in Nat \ {0} /\ IntMax \in Nat /\ QuietLoops < IntMax

VARIABLES
    pc,              \* "boot", "wifi", "udp", "http", "serial" or "delay"
    intentos,        \* i of connectWifi()
    udpConnected,
    puerto,          \* received by Serial, not yet read
    incomingData,    \* the String, as the reports in it
    lastCharTime,
    tx,              \* the word the last step printed for the machine
    resets,          \* /reset requests served
    reportados,      \* history: reports printed by the machine
    entregados,      \* history: the packets sent
    perdidos         \* history: reports lost

vars == <<pc, intentos, udpConnected, puerto, incomingData, lastCharTime, tx,
          resets, reportados, entregados, perdidos>>

Init ==
    /\ pc = "boot"
    /\ intentos = 0 /\ udpConnected = FALSE
    /\ puerto = <<>> /\ incomingData = <<>> /\ lastCharTime = 0
    /\ tx = "ilegible"
    /\ resets = 0 /\ reportados = 0 /\ entregados = <<>> /\ perdidos = {}

-----------------------------------------------------------------------------
(* setup() *)

\* ESP.restart(): everything in memory is gone; the boot loader prints noise.
restart ==
    /\ pc' = "boot"
    /\ intentos' = 0 /\ udpConnected' = FALSE
    /\ perdidos' = perdidos \cup Range(incomingData) \cup Range(puerto)
    /\ puerto' = <<>> /\ incomingData' = <<>> /\ lastCharTime' = 0

\* Serial.begin(115200)
Boot ==
    /\ pc = "boot"
    /\ pc' = "wifi"
    /\ tx' = "ilegible"
    /\ UNCHANGED <<intentos, udpConnected, puerto, incomingData, lastCharTime,
                   resets, reportados, entregados, perdidos>>

\* Mutant: nobody gives up.
connectWifi_SinTope ==
    /\ pc = "wifi"
    /\ tx' = "ilegible"
    /\ \/ pc' = "udp" /\ UNCHANGED intentos
       \/ intentos' = intentos + 1 /\ UNCHANGED pc
    /\ UNCHANGED <<udpConnected, puerto, incomingData, lastCharTime, perdidos,
                   resets, reportados, entregados>>

\* A poll of connectWifi(): connected, another dot, or too many dots.
connectWifi ==
    /\ pc = "wifi"
    /\ tx' = "ilegible"
    /\ \/ /\ pc' = "udp"
          /\ UNCHANGED <<intentos, udpConnected, puerto, incomingData,
                         lastCharTime, perdidos>>
       \/ /\ intentos <= WifiLimit
          /\ intentos' = intentos + 1
          /\ UNCHANGED <<pc, udpConnected, puerto, incomingData, lastCharTime,
                         perdidos>>
       \/ intentos > WifiLimit /\ restart
    /\ UNCHANGED <<resets, reportados, entregados>>

\* Mutant: opening UDP empties the receive buffer.
connectUDP_Vacia ==
    /\ pc = "udp"
    /\ udpConnected' \in BOOLEAN
    /\ pc' = "http"
    /\ tx' = "ilegible"
    /\ puerto' = <<>> /\ perdidos' = perdidos \cup Range(puerto)
    /\ UNCHANGED <<intentos, incomingData, lastCharTime, resets, reportados,
                   entregados>>

\* connectUDP() is tried once; without it loop() only serves HTTP.
connectUDP ==
    /\ pc = "udp"
    /\ udpConnected' \in BOOLEAN
    /\ pc' = "http"
    /\ tx' = "ilegible"
    /\ UNCHANGED <<intentos, puerto, incomingData, lastCharTime, resets,
                   reportados, entregados, perdidos>>

-----------------------------------------------------------------------------
(* loop() *)

\* The rest of the pass is skipped when UDP did not come up.
trasHttp == pc' = IF udpConnected THEN "serial" ELSE "http"

\* /on, /off, /son, /soff and /trueno print their word; /, /test and unknown
\* paths print, or not, something the machine cannot read; no request at all.
handleClient ==
    /\ pc = "http"
    /\ tx' \in {"on", "off", "son", "soff", "trueno", "ilegible", "vacio"}
    /\ trasHttp
    /\ UNCHANGED <<intentos, udpConnected, puerto, incomingData, lastCharTime,
                   resets, reportados, entregados, perdidos>>

\* /reset: the word, a second of delay, the restart.
handleReset ==
    /\ pc = "http"
    /\ resets < MaxRestarts
    /\ resets' = resets + 1
    /\ tx' = "reset"
    /\ pc' = "delay"
    /\ UNCHANGED <<intentos, udpConnected, puerto, incomingData, lastCharTime,
                   reportados, entregados, perdidos>>

Reinicia ==
    /\ pc = "delay"
    /\ restart
    /\ tx' = "ilegible"
    /\ UNCHANGED <<resets, reportados, entregados>>

\* Mutant: quiet passes are not counted.
Increment_Nada(n) == n

Increment(n) == IF n = IntMax THEN -IntMax - 1 ELSE n + 1

\* Mutant: the text is not cleared once sent.
Reenvia_Repite ==
    LET data == incomingData \o puerto
        quiet == IF puerto # <<>> THEN 1 ELSE Increment(lastCharTime)
        due == data # <<>> /\ quiet > QuietLoops
    IN  /\ pc = "serial"
        /\ puerto' = <<>>
        /\ lastCharTime' = quiet
        /\ incomingData' = data
        /\ entregados' = IF due THEN Append(entregados, data) ELSE entregados
        /\ tx' \in {"vacio", "ilegible"}
        /\ pc' = "http"
        /\ UNCHANGED <<intentos, udpConnected, resets, reportados, perdidos>>

\* UDPRead(), which may print a packet somebody sent, and the serial section.
Reenvia ==
    LET data == incomingData \o puerto
        quiet == IF puerto # <<>> THEN 1 ELSE Increment(lastCharTime)
        due == data # <<>> /\ quiet > QuietLoops
    IN  /\ pc = "serial"
        /\ puerto' = <<>>
        /\ lastCharTime' = quiet
        /\ incomingData' = IF due THEN <<>> ELSE data
        /\ entregados' = IF due THEN Append(entregados, data) ELSE entregados
        /\ tx' \in {"vacio", "ilegible"}
        /\ pc' = "http"
        /\ UNCHANGED <<intentos, udpConnected, resets, reportados, perdidos>>

-----------------------------------------------------------------------------
(* The machine prints n reports back to back. *)

Reporta(n) ==
    LET libres == IF pc = "boot" THEN 0 ELSE PuertoCap - Len(puerto)
        entran == IF n <= libres THEN n ELSE libres
    IN  /\ reportados + n <= MaxReports
        /\ reportados' = reportados + n
        /\ puerto' = puerto \o [i \in 1..entran |-> reportados + i]
        /\ perdidos' = perdidos \cup (reportados + entran + 1)..(reportados + n)
        /\ UNCHANGED <<pc, intentos, udpConnected, incomingData, lastCharTime,
                       resets, entregados>>
        /\ tx' = "vacio"

Programa == Boot \/ connectWifi \/ connectUDP \/ handleClient \/ handleReset
              \/ Reinicia \/ Reenvia

Next == Programa \/ \E n \in Bursts : Reporta(n)

Spec == Init /\ [][Next]_vars

\* The chip keeps running; neither the network nor a request is promised.
FairSpec == Spec /\ WF_vars(Programa)

-----------------------------------------------------------------------------

Labels == {"boot", "wifi", "udp", "http", "serial", "delay"}

\* Ranges; the buffer and the counters stay within their limits.
TypeOK ==
    /\ pc \in Labels
    /\ intentos \in 0..(WifiLimit + 1)
    /\ udpConnected \in BOOLEAN
    /\ puerto \in Seq(1..reportados) /\ Len(puerto) <= PuertoCap
    /\ incomingData \in Seq(1..reportados)
    /\ lastCharTime \in (-IntMax - 1)..IntMax
    /\ tx \in {"reset", "on", "off", "son", "soff", "trueno", "ilegible", "vacio"}
    /\ resets \in 0..MaxRestarts
    /\ reportados \in 0..MaxReports
    /\ entregados \in Seq(Seq(1..reportados))
    /\ perdidos \in SUBSET (1..reportados)

\* Everything the machine printed, in the order in which it is on its way.
Camino == FlattenSeq(entregados) \o incomingData \o puerto

\* lastCharTime only matters while a text is waiting, and then it has not
\* wrapped: a text never waits for the counter to come round.
CuentaDesdeElTexto == incomingData # <<>> => lastCharTime \in 1..QuietLoops

\* Ranges, the bounded wait for the access point, and the count of quiet passes.
WifiInv == TypeOK /\ CuentaDesdeElTexto

\* Packets carry the reports in the order the machine printed them, each at
\* most once, across restarts too.
EnOrden == \A i, j \in 1..Len(Camino) : i < j => Camino[i] < Camino[j]

\* A report that did not arrive is on its way or was lost, never both, and
\* every packet carries something.
Conservacion ==
    /\ Range(Camino) \cap perdidos = {}
    /\ Range(Camino) \cup perdidos = 1..reportados
    /\ \A i \in 1..Len(entregados) : entregados[i] # <<>>

\* Reports arrive in order, at most once, and none disappears unaccounted for.
Entrega == EnOrden /\ Conservacion

\* Only a restart or a buffer that is full or not yet open loses a report.
PierdeSoloAlReiniciar ==
    [][perdidos' # perdidos =>
         \/ pc' = "boot"
         \/ reportados' > reportados /\ Len(puerto') = PuertoCap]_vars

\* With UDP up for good, everything that was not lost is sent.
TodoLlega == <>[]udpConnected => <>[](puerto = <<>> /\ incomingData = <<>>)

=============================================================================
