----------------------------- MODULE HelperMapa ------------------------------
(***************************************************************************)
(* The ESP8266 that links the map to the network: /reset and /alarma       *)
(* become words on the serial line, and everything the map prints becomes  *)
(* UDP packets.  Unlike the helper of the machine it does not restart once *)
(* setup() is over.                                                        *)
(*                                                                         *)
(* Source: proyectos/wifi-helper-mapa/{wifi-helper-mapa,helper-functions}  *)
(* .ino.                                                                   *)
(***************************************************************************)
EXTENDS Integers

CONSTANTS
    WifiLimit,      \* polls of WiFi.status() counted before ESP.restart() (60)
    QuietLoops,     \* quiet passes before a packet is sent (25)
    IntMax

VARIABLES
    pc,             \* "boot", "wifi", "udp", "http", "udpread" or "delay"
    intentos,       \* i of connectWifi()
    udpConnected,
    puerto,         \* something was received by Serial and not yet read
    juntado,        \* incomingData is not empty
    lastCharTime,
    tx,             \* what the last step printed for the map
    paquete         \* the last step sent a packet

vars == <<pc, intentos, udpConnected, puerto, juntado, lastCharTime, tx, paquete>>

Init ==
    /\ pc = "boot"
    /\ intentos = 0 /\ udpConnected = FALSE
    /\ puerto = FALSE /\ juntado = FALSE /\ lastCharTime = 0
    /\ tx = "vacio" /\ paquete = FALSE

-----------------------------------------------------------------------------
(* setup() *)

\* The boot loader and Serial.begin(115200)
Boot ==
    /\ pc = "boot"
    /\ pc' = "wifi"
    /\ tx' = "ilegible" /\ paquete' = FALSE
    /\ UNCHANGED <<intentos, udpConnected, puerto, juntado, lastCharTime>>

\* A poll of connectWifi(): connected, another dot, or too many dots.
connectWifi ==
    /\ pc = "wifi"
    /\ tx' = "ilegible" /\ paquete' = FALSE
    /\ \/ pc' = "udp" /\ UNCHANGED <<intentos, puerto>>
       \/ /\ intentos <= WifiLimit
          /\ intentos' = intentos + 1
          /\ UNCHANGED <<pc, puerto>>
       \/ /\ intentos > WifiLimit
          /\ pc' = "boot" /\ intentos' = 0 /\ puerto' = FALSE
    /\ UNCHANGED <<udpConnected, juntado, lastCharTime>>

\* connectUDP() is tried once.
connectUDP ==
    /\ pc = "udp"
    /\ udpConnected' \in BOOLEAN
    /\ pc' = "http"
    /\ tx' = "ilegible" /\ paquete' = FALSE
    /\ UNCHANGED <<intentos, puerto, juntado, lastCharTime>>

-----------------------------------------------------------------------------
(* loop() *)

\* Mutant: the pass is only waited for when it served no request.
trasHttp_Corta ==
    pc' = IF udpConnected /\ tx' \in {"vacio", "ilegible"} THEN "udpread"
                                                            ELSE "http"

\* The rest of the pass is skipped when UDP did not come up.
trasHttp == pc' = IF udpConnected THEN "udpread" ELSE "http"

\* /reset and /alarma print their word; / and /test something the map cannot
\* read; unknown paths and no request nothing.
handleClient ==
    /\ pc = "http"
    /\ tx' \in {"reset", "alarma", "ilegible", "vacio"}
    /\ trasHttp
    /\ paquete' = FALSE
    /\ UNCHANGED <<intentos, udpConnected, puerto, juntado, lastCharTime>>

\* A packet somebody sent is printed, within the pass that served a request.
UDPRead ==
    /\ pc = "udpread"
    /\ tx' \in {"vacio", "ilegible"}
    /\ pc' = "delay"
    /\ paquete' = FALSE
    /\ UNCHANGED <<intentos, udpConnected, puerto, juntado, lastCharTime>>

Increment(n) == IF n = IntMax THEN -IntMax - 1 ELSE n + 1

hay == puerto \/ juntado

quieto == IF puerto THEN 1 ELSE Increment(lastCharTime)

toca == hay /\ quieto > QuietLoops

\* Mutant: what is forwarded is also printed, so that it can be seen.
Reenvia_Imprime ==
    /\ pc = "delay"
    /\ puerto' = FALSE
    /\ juntado' = (hay /\ ~toca)
    /\ lastCharTime' = quieto
    /\ paquete' = toca
    /\ tx' = IF toca THEN "ilegible" ELSE "vacio"
    /\ pc' = "http"
    /\ UNCHANGED <<intentos, udpConnected>>

\* After delay(15): the serial section.
Reenvia ==
    /\ pc = "delay"
    /\ puerto' = FALSE
    /\ juntado' = (hay /\ ~toca)
    /\ lastCharTime' = quieto
    /\ paquete' = toca
    /\ tx' = "vacio"
    /\ pc' = "http"
    /\ UNCHANGED <<intentos, udpConnected>>

Next == Boot \/ connectWifi \/ connectUDP \/ handleClient \/ UDPRead \/ Reenvia

-----------------------------------------------------------------------------

\* Ranges; the wait for the access point is bounded.
TypeOK ==
    /\ pc \in {"boot", "wifi", "udp", "http", "udpread", "delay"}
    /\ intentos \in 0..(WifiLimit + 1)
    /\ udpConnected \in BOOLEAN /\ puerto \in BOOLEAN /\ juntado \in BOOLEAN
    /\ lastCharTime \in (-IntMax - 1)..IntMax
    /\ tx \in {"reset", "alarma", "ilegible", "vacio"}
    /\ paquete \in BOOLEAN

\* A text that waits is never behind a counter that wrapped, and without UDP
\* the line is not read at all.
HelperSeguro ==
    /\ juntado => lastCharTime \in 1..QuietLoops
    /\ juntado \/ paquete => udpConnected

=============================================================================
