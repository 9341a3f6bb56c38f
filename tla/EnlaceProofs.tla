---------------------------- MODULE EnlaceProofs -----------------------------
(***************************************************************************)
(* The map and its helper on one line, for every number of buttons and     *)
(* every choice of the limits under which the helper's delay is longer     *)
(* than the map waits and may stand in Serial.print().                     *)
(***************************************************************************)
EXTENDS EnlaceMapa, Lemas

Setup == {"boot", "wifi", "udp"}

\* Switched on, both programs are where the invariant wants them.
LEMMA InicioInv == Init => MapaInv
<1> SUFFICES ASSUME Init PROVE MapaInv
  OBVIOUS
<1>1. /\ 0 \in 0..NumBotones /\ 0 \in 0..(WifiLimit + 1) /\ 0 \in 0..Espera
      /\ 0 \in 0..Bloqueo
      /\ 0 \in (-IntMax - 1)..IntMax
  BY EnlaceAssumption
<1>2. M!TypeOK
  BY <1>1 DEF Init, M!Init, M!TypeOK, M!Textos
<1>3. H!TypeOK
  BY <1>1 DEF Init, H!Init, H!TypeOK
<1>4. /\ espera \in 0..Espera /\ bloqueado \in 0..Bloqueo
      /\ entorno \in BOOLEAN /\ completa \in BOOLEAN
  BY <1>1 DEF Init
<1>5. M!MapaSegura /\ H!HelperSeguro /\ Lugares /\ Ritmo
  BY DEF Init, M!Init, H!Init, M!MapaSegura, H!HelperSeguro, Lugares, Ritmo
<1> QED  BY <1>2, <1>3, <1>4, <1>5 DEF MapaInv

-----------------------------------------------------------------------------
(* A pass of the map *)

\* The buttons show a pattern that exists.
LEMMA BotonesTipo ==
    ASSUME M!TypeOK, NEW S \in SUBSET M!Botones
    PROVE  M!botones(S) \in 0..NumBotones
<1>1. NumBotones \in Nat
  BY EnlaceAssumption
<1>2. CASE S = {}
  BY <1>2 DEF M!botones, M!TypeOK
<1>3. CASE S # {}
  <2>1. Max(S) \in S
    BY <1>1, <1>3, MaximoDe DEF M!Botones
  <2>2. M!Max(S) = Max(S)
    BY DEF M!Max, Max
  <2>3. M!botones(S) = Max(S)
    BY <1>3, <2>2 DEF M!botones
  <2>4. Max(S) \in 1..NumBotones
    BY <2>1 DEF M!Botones
  <2> QED  BY <1>1, <2>3, <2>4
<1> QED  BY <1>2, <1>3

\* The counter of quiet passes stays an int, and a text that goes on waiting
\* was counted from its last character.
LEMMA QuietoTipo ==
    ASSUME M!TypeOK, M!MapaSegura
    PROVE  /\ M!quieto \in (-IntMax - 1)..IntMax
           /\ M!texto # "vacio" /\ ~M!toca => M!quieto \in 1..QuietLoops
           /\ M!texto \in M!Textos
           /\ rx # "vacio" => ~M!toca /\ M!quieto = 1
           /\ rx = "vacio" /\ incomingData # "vacio"
                => M!quieto = lastCharTime + 1
<1>0. /\ IntMax \in Nat /\ QuietLoops \in Nat /\ QuietLoops > 0
      /\ QuietLoops < IntMax /\ lastCharTime \in (-IntMax - 1)..IntMax
  BY EnlaceAssumption DEF M!TypeOK
<1>1. M!texto \in M!Textos
  BY DEF M!texto, M!Concat, M!TypeOK, M!Textos
<1>2. rx # "vacio" => M!quieto = 1
  BY DEF M!quieto
<1>3. rx # "vacio" => ~M!toca
  BY <1>0, <1>2 DEF M!toca
<1>4. rx = "vacio" => M!texto = incomingData
  BY DEF M!texto, M!Concat
<1>5. rx = "vacio" /\ incomingData # "vacio" => M!quieto = lastCharTime + 1
  BY <1>0 DEF M!quieto, M!Increment, M!MapaSegura
<1>6. M!quieto \in (-IntMax - 1)..IntMax
  BY <1>0 DEF M!quieto, M!Increment
<1>7. M!texto # "vacio" /\ ~M!toca => M!quieto \in 1..QuietLoops
  BY <1>0, <1>2, <1>4, <1>5 DEF M!toca, M!MapaSegura
<1> QED  BY <1>1, <1>2, <1>3, <1>5, <1>6, <1>7

\* A pass keeps the map in order.
LEMMA PasadaSegura ==
    ASSUME M!TypeOK, M!MapaSegura, NEW S \in SUBSET M!Botones, M!Pasada(S)
    PROVE  M!TypeOK' /\ M!MapaSegura'
<1>1. M!botones(S) \in 0..NumBotones
  BY BotonesTipo
<1>2. 0 \in 0..NumBotones
  BY EnlaceAssumption
<1>3. leds' \in 0..NumBotones
  BY <1>1, <1>2 DEF M!Pasada, M!handleReset, M!handleAlarma
<1>4. redLeds' \in BOOLEAN /\ alarma' \in BOOLEAN /\ habla' \in BOOLEAN
  BY DEF M!Pasada, M!handleReset, M!handleAlarma, M!TypeOK
<1>5. redLeds' => alarma'
  BY DEF M!Pasada, M!handleReset, M!handleAlarma, M!MapaSegura
<1>6. /\ rx' = "vacio" /\ lastCharTime' = M!quieto
      /\ incomingData' = IF M!toca THEN "vacio" ELSE M!texto
  BY DEF M!Pasada
<1>7. M!TypeOK'
  BY <1>3, <1>4, <1>6, QuietoTipo DEF M!TypeOK, M!Textos
<1> QED  BY <1>5, <1>6, <1>7, QuietoTipo DEF M!MapaSegura

\* A pass of the map keeps the invariant of the pair.
LEMMA MapaPaso ==
    ASSUME MapaInv, NEW S \in SUBSET M!Botones, PasoMapa(S)
    PROVE  MapaInv'
<1>0. /\ Espera \in Nat /\ Lenta \in Nat /\ espera \in 0..Espera
      /\ Bloqueo \in Nat /\ bloqueado \in 0..Bloqueo
      /\ QuietLoops \in Nat /\ QuietLoops + Bloqueo < Espera
      /\ lastCharTime \in Int
  BY EnlaceAssumption DEF MapaInv, M!TypeOK
<1>1. M!TypeOK' /\ M!MapaSegura'
  BY PasadaSegura DEF MapaInv, PasoMapa
<1>2. H!TypeOK' /\ H!HelperSeguro'
  BY DEF MapaInv, PasoMapa, H!TypeOK, H!HelperSeguro
<1>3. /\ \E d \in Nat : espera' = resta(d)
      /\ ~alarma => \E b \in 0..(Bloqueo - bloqueado) :
                       espera' = resta(1 + b) /\ bloqueado' = bloqueado + b
      /\ alarma => bloqueado' = bloqueado
  BY <1>0 DEF PasoMapa, Tarda
<1>4. /\ espera' \in 0..Espera /\ (espera = 0 => espera' = 0)
      /\ bloqueado' \in 0..Bloqueo
  <2>1. espera' \in 0..Espera /\ (espera = 0 => espera' = 0)
    BY <1>0, <1>3 DEF resta
  <2>2. bloqueado' \in 0..Bloqueo
    BY <1>0, <1>3
  <2> QED  BY <2>1, <2>2
<1>5. entorno' \in BOOLEAN /\ completa' \in BOOLEAN
  BY DEF MapaInv, PasoMapa
<1>6. Lugares'
  BY <1>4 DEF MapaInv, PasoMapa, Lugares
<1>7. Ritmo'
  <2> SUFFICES ASSUME ~alarma' PROVE Ritmo'
    BY DEF Ritmo
  <2>0. /\ pc' = pc /\ completa' = completa
        /\ rx' = "vacio" /\ lastCharTime' = M!quieto
        /\ incomingData' = IF M!toca THEN "vacio" ELSE M!texto
        /\ M!TypeOK /\ M!MapaSegura
    BY DEF PasoMapa, M!Pasada, MapaInv
  <2>1. M!texto' = incomingData'
    BY <2>0 DEF M!texto, M!Concat
  <2>2. CASE M!toca
    BY <2>0, <2>1, <2>2 DEF Ritmo
  <2>3. CASE ~M!toca
    <3>1. ~alarma
      BY <2>3 DEF PasoMapa, M!Pasada
    <3>2. pc = "http" /\ completa => M!texto = "vacio"
      BY <3>1 DEF MapaInv, Ritmo
    <3>3. ASSUME pc = "delay", incomingData' # "vacio"
          PROVE  espera' + lastCharTime' + bloqueado' >= Espera
      <4>0. PICK b \in 0..(Bloqueo - bloqueado) :
                   espera' = resta(1 + b) /\ bloqueado' = bloqueado + b
        BY <1>3, <3>1
      <4>1. M!texto # "vacio" /\ M!quieto \in 1..QuietLoops
        BY <2>0, <2>3, <3>3, QuietoTipo
      <4>2. CASE rx # "vacio"
        <5>1. espera = Espera /\ M!quieto = 1
          BY <2>0, <3>1, <3>3, <4>2, QuietoTipo DEF MapaInv, Ritmo
        <5> QED  BY <1>0, <2>0, <4>0, <5>1 DEF resta
      <4>3. CASE rx = "vacio"
        <5>1. incomingData # "vacio"
          BY <4>1, <4>3 DEF M!texto, M!Concat
        <5>2. /\ espera + lastCharTime + bloqueado >= Espera
              /\ M!quieto = lastCharTime + 1
          BY <2>0, <3>1, <3>3, <4>3, <5>1, QuietoTipo DEF MapaInv, Ritmo
        <5> QED  BY <1>0, <2>0, <4>0, <5>2 DEF resta
      <4> QED  BY <4>2, <4>3
    <3> QED  BY <2>0, <2>1, <3>2, <3>3 DEF Ritmo
  <2> QED  BY <2>2, <2>3
<1> QED  BY <1>1, <1>2, <1>4, <1>5, <1>6, <1>7 DEF MapaInv

-----------------------------------------------------------------------------
(* A step of the helper *)

\* The helper's counter stays an int, and a text that goes on waiting was
\* counted from its last character.
LEMMA QuietoHelper ==
    ASSUME H!TypeOK, H!HelperSeguro
    PROVE  /\ H!quieto \in (-IntMax - 1)..IntMax
           /\ H!hay /\ ~H!toca => H!quieto \in 1..QuietLoops
<1>0. /\ IntMax \in Nat /\ QuietLoops \in Nat /\ QuietLoops > 0
      /\ QuietLoops < IntMax /\ hLastCharTime \in (-IntMax - 1)..IntMax
  BY EnlaceAssumption DEF H!TypeOK
<1>1. H!quieto \in (-IntMax - 1)..IntMax
  BY <1>0 DEF H!quieto, H!Increment
<1>2. CASE puerto
  BY <1>0, <1>2 DEF H!quieto, H!toca, H!hay
<1>3. CASE ~puerto
  <2>1. H!hay => hLastCharTime \in 1..QuietLoops
    BY <1>3 DEF H!hay, H!HelperSeguro
  <2>2. H!quieto = H!Increment(hLastCharTime)
    BY <1>3 DEF H!quieto
  <2> QED  BY <1>0, <2>1, <2>2 DEF H!toca, H!Increment
<1> QED  BY <1>1, <1>2, <1>3

\* A step keeps the helper in order and its place in the program in step with
\* what it knows of UDP.
LEMMA HelperSegura ==
    ASSUME H!TypeOK, H!HelperSeguro, Lugares, PasoHelper
    PROVE  H!TypeOK' /\ H!HelperSeguro' /\ Lugares'
<1>0. /\ WifiLimit \in Nat /\ intentos \in 0..(WifiLimit + 1)
      /\ 0 \in 0..(WifiLimit + 1)
  BY EnlaceAssumption DEF H!TypeOK
<1>a. /\ completa' = (completa \/ pc = "delay")
      /\ espera' = IF pc' = "delay" THEN Espera ELSE 0
  BY DEF PasoHelper
<1>1. CASE H!Boot
  BY <1>1, <1>a DEF H!Boot, H!TypeOK, H!HelperSeguro, Lugares
<1>2. CASE H!connectWifi
  <2>1. intentos' \in 0..(WifiLimit + 1)
    BY <1>0, <1>2 DEF H!connectWifi
  <2> QED
    BY <1>2, <1>a, <2>1 DEF H!connectWifi, H!TypeOK, H!HelperSeguro, Lugares
<1>3. CASE H!connectUDP
  BY <1>3, <1>a DEF H!connectUDP, H!TypeOK, H!HelperSeguro, Lugares
<1>4. CASE H!handleClient
  <2>1. pc' \in {"udpread", "http"} /\ (pc' = "udpread" => udpConnected)
    BY <1>4 DEF H!handleClient, H!trasHttp
  <2> QED
    BY <1>4, <1>a, <2>1 DEF H!handleClient, H!TypeOK, H!HelperSeguro, Lugares
<1>5. CASE H!UDPRead
  BY <1>5, <1>a DEF H!UDPRead, H!TypeOK, H!HelperSeguro, Lugares
<1>6. CASE H!Reenvia
  <2>1. /\ pc = "delay" /\ udpConnected /\ udpConnected' = udpConnected
        /\ pc' = "http" /\ tx' = "vacio" /\ intentos' = intentos
        /\ puerto' = FALSE /\ hLastCharTime' = H!quieto
    BY <1>6 DEF H!Reenvia, Lugares
  <2>2. /\ paquete' \in BOOLEAN /\ juntado' \in BOOLEAN
        /\ juntado' => H!hay /\ ~H!toca
    BY <1>6 DEF H!Reenvia, H!toca, H!hay, H!TypeOK
  <2>3. H!TypeOK'
    BY <2>1, <2>2, QuietoHelper DEF H!TypeOK
  <2>4. H!HelperSeguro'
    BY <2>1, <2>2, QuietoHelper DEF H!HelperSeguro
  <2> QED  BY <1>a, <2>1, <2>3, <2>4 DEF Lugares
<1> QED
  BY <1>1, <1>2, <1>3, <1>4, <1>5, <1>6 DEF PasoHelper, H!Next

\* What the helper prints is appended to what the map has not read.
LEMMA HelperImprime ==
    ASSUME M!TypeOK, H!TypeOK', PasoHelper
    PROVE  rx' \in M!Textos /\ (tx' = "vacio" => rx' = rx)
<1>1. tx' \in M!Textos /\ rx \in M!Textos /\ rx' = M!Concat(rx, tx')
  BY DEF H!TypeOK, M!TypeOK, M!Textos, M!Ordenes, PasoHelper
<1> QED  BY <1>1 DEF M!Concat, M!Textos

\* A step of the helper keeps the invariant of the pair.
LEMMA HelperPaso ==
    ASSUME MapaInv, PasoHelper
    PROVE  MapaInv'
<1>0. /\ Espera \in Nat /\ QuietLoops \in Nat /\ Bloqueo \in Nat
      /\ QuietLoops + Bloqueo < Espera
      /\ bloqueado \in 0..Bloqueo /\ lastCharTime \in Int
  BY EnlaceAssumption DEF MapaInv, M!TypeOK
<1>1. H!TypeOK' /\ H!HelperSeguro' /\ Lugares'
  BY HelperSegura DEF MapaInv
<1>2. /\ leds' = leds /\ redLeds' = redLeds /\ alarma' = alarma
      /\ incomingData' = incomingData /\ lastCharTime' = lastCharTime
      /\ habla' = FALSE /\ entorno' \in BOOLEAN /\ completa' \in BOOLEAN
      /\ completa' = (completa \/ pc = "delay")
      /\ espera = 0 /\ espera' = IF pc' = "delay" THEN Espera ELSE 0
      /\ bloqueado' = 0
  BY DEF PasoHelper, MapaInv
<1>3. M!TypeOK' /\ M!MapaSegura'
  BY <1>1, <1>2, HelperImprime DEF MapaInv, M!TypeOK, M!MapaSegura
<1>4. espera' \in 0..Espera /\ bloqueado' \in 0..Bloqueo
  BY <1>0, <1>2
<1>5. Ritmo'
  <2> SUFFICES ASSUME ~alarma' PROVE Ritmo'
    BY DEF Ritmo
  <2>1. ASSUME pc' = "delay"
        PROVE  /\ espera' = Espera
               /\ incomingData' # "vacio"
                    => espera' + lastCharTime' + bloqueado' >= Espera
    <3>1. espera' = Espera
      BY <1>2, <2>1
    <3>2. incomingData' # "vacio" => lastCharTime' \in 1..QuietLoops
      BY <1>3 DEF M!MapaSegura
    <3> QED  BY <1>0, <1>2, <3>1, <3>2
  <2>2. ASSUME pc' = "http", completa'
        PROVE  M!texto' = "vacio"
    <3>1. pc = "delay" /\ tx' = "vacio"
      BY <2>2, <1>2
      DEF PasoHelper, H!Next, H!Boot, H!connectWifi, H!connectUDP, H!handleClient,
          H!trasHttp, H!UDPRead, H!Reenvia, MapaInv, Lugares
    <3>2. rx' = rx
      BY <1>1, <3>1, HelperImprime DEF MapaInv
    <3>3. ~alarma
      BY <1>2
    <3>4. rx = "vacio"
      <4>1. rx # "vacio" => espera = Espera
        BY <3>1, <3>3 DEF MapaInv, Ritmo
      <4> QED  BY <1>0, <1>2, <4>1
    <3>5. incomingData = "vacio"
      <4>1. incomingData # "vacio"
              => /\ espera + lastCharTime + bloqueado >= Espera
                 /\ lastCharTime \in 1..QuietLoops
        BY <3>1, <3>3, <3>4 DEF MapaInv, Ritmo, M!MapaSegura
      <4> QED  BY <1>0, <1>2, <4>1
    <3> QED  BY <1>2, <3>2, <3>4, <3>5 DEF M!texto, M!Concat
  <2> QED  BY <2>1, <2>2 DEF Ritmo
<1> QED  BY <1>1, <1>2, <1>3, <1>4, <1>5 DEF MapaInv

-----------------------------------------------------------------------------

\* Any step of the pair keeps the invariant.
LEMMA ParPaso == MapaInv /\ [Next]_vars => MapaInv'
<1> SUFFICES ASSUME MapaInv, [Next]_vars PROVE MapaInv'
  OBVIOUS
<1>1. CASE UNCHANGED vars
  BY <1>1
  DEF vars, mvars, hvars, MapaInv, M!TypeOK, H!TypeOK, M!MapaSegura,
      H!HelperSeguro, Lugares, Ritmo, M!texto
<1> QED  BY <1>1, MapaPaso, HelperPaso DEF Next

\* However requests, packets, buttons and failed connections fall: the counters
\* of quiet passes never keep a text waiting, the red lights burn only in an
\* alarm, nothing is forwarded without UDP, and without alarm the map has taken
\* a text before the helper serves its next request.
THEOREM MapaSiempreSegura == Spec => []MapaInv
BY InicioInv, ParPaso, PTL DEF Spec

\* For every delay of the helper longer than the map waits and may stand: after
\* the helper's first pass and without alarm, an order is never appended to
\* another text.
THEOREM OrdenesSeparadas == Spec => SeparadasSinAlarma
<1>1. MapaInv /\ [Next]_vars
        => (tx' \in M!Ordenes /\ completa /\ ~alarma => M!texto = "vacio")
           \/ UNCHANGED vars
  <2> SUFFICES ASSUME MapaInv, Next, tx' \in M!Ordenes, completa, ~alarma
               PROVE  M!texto = "vacio"
    OBVIOUS
  <2>1. PasoHelper /\ H!Next
    BY DEF Next, PasoMapa, M!Ordenes, PasoHelper
  <2>2. pc = "http"
    BY <2>1
    DEF H!Next, H!Boot, H!connectWifi, H!connectUDP, H!handleClient, H!UDPRead,
        H!Reenvia, M!Ordenes
  <2> QED  BY <2>2 DEF MapaInv, Ritmo
<1> QED
  BY <1>1, MapaSiempreSegura, PTL DEF Spec, SeparadasSinAlarma

=============================================================================
