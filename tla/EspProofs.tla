------------------------------ MODULE EspProofs ------------------------------
(***************************************************************************)
(* The helper of the machine, the receiving UART and the HTTP server, for  *)
(* every size of the buffers, every limit and every number of clients.     *)
(***************************************************************************)
EXTENDS Esp8266, Lemas

-----------------------------------------------------------------------------
(* The helper of the machine *)

\* The reports of a burst that fit, and how many they are.
Libres == IF pc = "boot" THEN 0 ELSE PuertoCap - Len(puerto)

Entran(n) == IF n <= Libres THEN n ELSE Libres

Nuevos(n) == [i \in 1..Entran(n) |-> reportados + i]

\* A program that is in its types prints numbers it has not printed before.
LEMMA NuevosTipo ==
    ASSUME TypeOK, NEW n \in Bursts
    PROVE  /\ n \in Nat /\ n > 0 /\ Entran(n) \in 0..n
           /\ Entran(n) < n => Entran(n) = Libres
           /\ Len(puerto) + Entran(n) <= PuertoCap
           /\ Nuevos(n) \in Seq((reportados + 1)..(reportados + n))
           /\ Len(Nuevos(n)) = Entran(n)
           /\ Creciente(Nuevos(n))
           /\ Range(Nuevos(n)) = (reportados + 1)..(reportados + Entran(n))
<1>0. n \in Nat /\ n > 0 /\ reportados \in Nat
  BY HelperAssumption DEF TypeOK
<1>1. Len(puerto) \in Nat /\ Len(puerto) <= PuertoCap /\ PuertoCap \in Nat
  BY HelperAssumption, LenProperties DEF TypeOK
<1>2. Libres \in Nat /\ Len(puerto) + Libres <= PuertoCap
  BY <1>1 DEF Libres
<1>3. /\ Entran(n) \in 0..n /\ Entran(n) <= Libres
      /\ Entran(n) < n => Entran(n) = Libres
  BY <1>0, <1>2 DEF Entran
<1> DEFINE k == Entran(n)
<1>4. Nuevos(n) \in [1..k -> (reportados + 1)..(reportados + n)] /\ k \in Nat
  BY <1>0, <1>3 DEF Nuevos
<1>5. Nuevos(n) \in Seq((reportados + 1)..(reportados + n)) /\ Len(Nuevos(n)) = k
  BY <1>4, Secuencia
<1>6. \A i \in 1..k : Nuevos(n)[i] = reportados + i
  BY DEF Nuevos
<1>7. Creciente(Nuevos(n))
  BY <1>0, <1>3, <1>5, <1>6 DEF Creciente
<1>8. Range(Nuevos(n)) = (reportados + 1)..(reportados + k)
  <2>1. Range(Nuevos(n)) = {reportados + i : i \in 1..k}
    BY <1>4, <1>6 DEF Range
  <2>2. ASSUME NEW r \in (reportados + 1)..(reportados + k)
        PROVE  r \in {reportados + i : i \in 1..k}
    <3>1. r - reportados \in 1..k /\ r = reportados + (r - reportados)
      BY <1>0, <1>3
    <3> QED  BY <3>1
  <2>3. \A i \in 1..k : reportados + i \in (reportados + 1)..(reportados + k)
    BY <1>0, <1>3
  <2> QED  BY <2>1, <2>2, <2>3
<1> QED  BY <1>0, <1>1, <1>2, <1>3, <1>5, <1>7, <1>8

\* The counter of quiet passes stays an int, and counts from the last
\* character of a text that goes on waiting.
LEMMA QuietoTipo ==
    ASSUME TypeOK, CuentaDesdeElTexto
    PROVE  LET junto == incomingData \o puerto
               quiet == IF puerto # <<>> THEN 1 ELSE Increment(lastCharTime)
           IN  /\ quiet \in (-IntMax - 1)..IntMax
               /\ junto # <<>> /\ ~(quiet > QuietLoops) => quiet \in 1..QuietLoops
<1> DEFINE quiet == IF puerto # <<>> THEN 1 ELSE Increment(lastCharTime)
<1>0. /\ IntMax \in Nat /\ QuietLoops \in Nat /\ QuietLoops > 0
      /\ QuietLoops < IntMax /\ lastCharTime \in (-IntMax - 1)..IntMax
  BY HelperAssumption DEF TypeOK
<1>1. quiet \in (-IntMax - 1)..IntMax
  BY <1>0 DEF Increment
<1>2. CASE puerto # <<>>
  BY <1>0, <1>1, <1>2
<1>3. CASE puerto = <<>> /\ incomingData # <<>>
  BY <1>0, <1>1, <1>3 DEF CuentaDesdeElTexto, Increment
<1>4. CASE puerto = <<>> /\ incomingData = <<>>
  <2>1. incomingData \o puerto = <<>>
    BY <1>4, ConcatEmptySeq DEF TypeOK
  <2> QED  BY <1>1, <2>1
<1> QED  BY <1>2, <1>3, <1>4

\* Init satisfies everything.
LEMMA HelperInicio == Init => WifiInv /\ Entrega
<1> SUFFICES ASSUME Init PROVE WifiInv /\ Entrega
  OBVIOUS
<1>0. /\ 0 \in 0..(WifiLimit + 1) /\ 0 \in (-IntMax - 1)..IntMax
      /\ 0 \in 0..MaxRestarts /\ 0 \in 0..MaxReports /\ 0 <= PuertoCap
  BY HelperAssumption
<1>1. TypeOK
  <2>1. /\ <<>> \in Seq(1..0) /\ Len(<<>>) = 0 /\ <<>> \in Seq(Seq(1..0))
    BY EmptySeq
  <2> QED  BY <1>0, <2>1 DEF Init, TypeOK, Labels
<1>2. CuentaDesdeElTexto
  BY DEF Init, CuentaDesdeElTexto
<1>3. Camino = <<>>
  <2>1. FlattenSeq(<<>>) = <<>>
    BY DEF FlattenSeq
  <2>2. <<>> \o <<>> = <<>> /\ (<<>> \o <<>>) \o <<>> = <<>>
    BY EmptySeq, ConcatEmptySeq
  <2> QED  BY <2>1, <2>2 DEF Init, Camino
<1>4. Range(Camino) = {} /\ Len(Camino) = 0
  BY <1>3, RangoVacio
<1>5. EnOrden
  BY <1>4 DEF EnOrden
<1>6. Conservacion
  BY <1>4, EmptySeq DEF Conservacion, Init
<1> QED  BY <1>1, <1>2, <1>5, <1>6 DEF WifiInv, Entrega

\* Every step of the helper, and every report of the machine, keeps ranges and
\* the count of quiet passes.
LEMMA WifiPaso == WifiInv /\ [Next]_vars => WifiInv'
<1> SUFFICES ASSUME TypeOK, CuentaDesdeElTexto, [Next]_vars
             PROVE  TypeOK' /\ CuentaDesdeElTexto'
  BY DEF WifiInv
<1>0. /\ WifiLimit \in Nat /\ intentos \in 0..(WifiLimit + 1)
      /\ resets \in Nat /\ reportados \in Nat /\ IntMax \in Nat
      /\ PuertoCap \in Nat /\ MaxRestarts \in Nat /\ MaxReports \in Nat
  BY HelperAssumption DEF TypeOK
<1>a. ASSUME restart
      PROVE  /\ intentos' \in 0..(WifiLimit + 1) /\ pc' \in Labels
             /\ udpConnected' \in BOOLEAN /\ lastCharTime' \in (-IntMax - 1)..IntMax
             /\ puerto' \in Seq(1..reportados) /\ Len(puerto') <= PuertoCap
             /\ incomingData' \in Seq(1..reportados)
             /\ perdidos' \in SUBSET (1..reportados)
             /\ CuentaDesdeElTexto'
  <2>1. 0 \in 0..(WifiLimit + 1) /\ 0 \in (-IntMax - 1)..IntMax /\ 0 <= PuertoCap
    BY <1>0
  <2>2. <<>> \in Seq(1..reportados) /\ Len(<<>>) = 0
    BY EmptySeq
  <2>3. Range(incomingData) \subseteq 1..reportados /\ Range(puerto) \subseteq 1..reportados
    BY RangeOfSeq DEF TypeOK
  <2> QED  BY <1>a, <2>1, <2>2, <2>3 DEF restart, TypeOK, Labels, CuentaDesdeElTexto
<1>1. CASE Boot
  BY <1>1 DEF Boot, TypeOK, CuentaDesdeElTexto, Labels
<1>2. CASE connectWifi
  <2>1. CASE restart /\ tx' = "ilegible" /\ UNCHANGED <<resets, reportados, entregados>>
    BY <1>a, <2>1 DEF TypeOK
  <2>2. CASE pc' = "udp" /\ UNCHANGED <<intentos, udpConnected, puerto, incomingData,
                                        lastCharTime, perdidos>>
    BY <1>2, <2>2 DEF connectWifi, TypeOK, CuentaDesdeElTexto, Labels
  <2>3. CASE /\ intentos <= WifiLimit /\ intentos' = intentos + 1
             /\ UNCHANGED <<pc, udpConnected, puerto, incomingData, lastCharTime,
                            perdidos>>
    <3>1. intentos' \in 0..(WifiLimit + 1)
      BY <1>0, <2>3
    <3> QED  BY <1>2, <2>3, <3>1 DEF connectWifi, TypeOK, CuentaDesdeElTexto
  <2> QED  BY <1>2, <2>1, <2>2, <2>3 DEF connectWifi
<1>3. CASE connectUDP
  BY <1>3 DEF connectUDP, TypeOK, CuentaDesdeElTexto, Labels
<1>4. CASE handleClient
  <2>1. pc' \in Labels
    BY <1>4 DEF handleClient, trasHttp, Labels
  <2> QED  BY <1>4, <2>1 DEF handleClient, TypeOK, CuentaDesdeElTexto
<1>5. CASE handleReset
  <2>1. resets' \in 0..MaxRestarts
    BY <1>0, <1>5 DEF handleReset
  <2> QED  BY <1>5, <2>1 DEF handleReset, TypeOK, CuentaDesdeElTexto, Labels
<1>6. CASE Reinicia
  BY <1>6, <1>a DEF Reinicia, TypeOK
<1>7. CASE Reenvia
  <2> DEFINE junto == incomingData \o puerto
             quiet == IF puerto # <<>> THEN 1 ELSE Increment(lastCharTime)
             due == junto # <<>> /\ quiet > QuietLoops
  <2>1. /\ puerto' = <<>> /\ lastCharTime' = quiet
        /\ incomingData' = IF due THEN <<>> ELSE junto
        /\ entregados' = IF due THEN Append(entregados, junto) ELSE entregados
        /\ tx' \in {"vacio", "ilegible"} /\ pc' = "http"
        /\ UNCHANGED <<intentos, udpConnected, resets, reportados, perdidos>>
    BY <1>7 DEF Reenvia
  <2>2. /\ quiet \in (-IntMax - 1)..IntMax
        /\ junto # <<>> /\ ~(quiet > QuietLoops) => quiet \in 1..QuietLoops
    BY QuietoTipo
  <2>3. junto \in Seq(1..reportados)
    BY ConcatProperties DEF TypeOK
  <2> HIDE DEF junto, quiet
  <2>4. Append(entregados, junto) \in Seq(Seq(1..reportados))
    BY <2>3, AppendProperties DEF TypeOK
  <2>5. <<>> \in Seq(1..reportados) /\ Len(<<>>) = 0 /\ 0 <= PuertoCap
    BY <1>0, EmptySeq
  <2>6. TypeOK'
    BY <2>1, <2>2, <2>3, <2>4, <2>5 DEF TypeOK, Labels
  <2> QED  BY <2>1, <2>2, <2>6 DEF CuentaDesdeElTexto
<1>8. ASSUME NEW n \in Bursts, Reporta(n)
      PROVE  TypeOK' /\ CuentaDesdeElTexto'
  <2>1. /\ reportados' = reportados + n /\ reportados + n <= MaxReports
        /\ puerto' = puerto \o Nuevos(n)
        /\ perdidos' = perdidos \cup (reportados + Entran(n) + 1)..(reportados + n)
        /\ UNCHANGED <<pc, intentos, udpConnected, incomingData, lastCharTime,
                       resets, entregados>>
        /\ tx' = "vacio"
    BY <1>8 DEF Reporta, Nuevos, Entran, Libres
  <2>2. /\ n \in Nat /\ Entran(n) \in 0..n /\ Len(puerto) + Entran(n) <= PuertoCap
        /\ Nuevos(n) \in Seq((reportados + 1)..(reportados + n))
        /\ Len(Nuevos(n)) = Entran(n)
    BY NuevosTipo
  <2>3. /\ 1..reportados \subseteq 1..reportados'
        /\ (reportados + 1)..(reportados + n) \subseteq 1..reportados'
        /\ (reportados + Entran(n) + 1)..(reportados + n) \subseteq 1..reportados'
        /\ reportados' \in 0..MaxReports
    BY <1>0, <2>1, <2>2
  <2>4. puerto \in Seq(1..reportados') /\ Nuevos(n) \in Seq(1..reportados')
    BY <2>2, <2>3, SeqMonotonic DEF TypeOK
  <2>5. puerto' \in Seq(1..reportados') /\ Len(puerto') <= PuertoCap
    BY <2>1, <2>2, <2>4, ConcatProperties
  <2>6. incomingData' \in Seq(1..reportados')
    BY <2>1, <2>3, SeqMonotonic DEF TypeOK
  <2>7. entregados' \in Seq(Seq(1..reportados'))
    <3>1. Seq(1..reportados) \subseteq Seq(1..reportados')
      BY <2>3, SeqMonotonic
    <3> QED  BY <2>1, <3>1, SeqMonotonic DEF TypeOK
  <2>8. perdidos' \in SUBSET (1..reportados')
    BY <2>1, <2>3 DEF TypeOK
  <2>9. TypeOK'
    BY <2>1, <2>3, <2>5, <2>6, <2>7, <2>8 DEF TypeOK
  <2> QED  BY <2>1, <2>9 DEF CuentaDesdeElTexto
<1>9. CASE UNCHANGED vars
  BY <1>9 DEF vars, TypeOK, CuentaDesdeElTexto
<1> QED
  BY <1>1, <1>2, <1>3, <1>4, <1>5, <1>6, <1>7, <1>8, <1>9 DEF Next, Programa

\* What a step does to the reports on their way: nothing, as when they are
\* collected or sent; a restart leaves what was sent; a burst is appended.
LEMMA CaminoPaso ==
    ASSUME TypeOK, [Next]_vars
    PROVE  \/ /\ Camino' = Camino
              /\ UNCHANGED <<reportados, perdidos>>
           \/ /\ Camino' = FlattenSeq(entregados)
              /\ perdidos' = perdidos \cup Range(incomingData) \cup Range(puerto)
              /\ UNCHANGED reportados
           \/ \E n \in Bursts :
                /\ Camino' = Camino \o Nuevos(n)
                /\ perdidos' = perdidos \cup (reportados + Entran(n) + 1)..(reportados + n)
                /\ reportados' = reportados + n
<1> DEFINE S == 1..reportados
           F == FlattenSeq(entregados)
<1>0. F \in Seq(S) /\ incomingData \in Seq(S) /\ puerto \in Seq(S) /\ <<>> \in Seq(S)
  BY Aplanar, EmptySeq DEF TypeOK
<1>1. ASSUME restart, UNCHANGED <<entregados, reportados>>
      PROVE  Camino' = F
  BY <1>0, <1>1, ConcatEmptySeq DEF restart, Camino
<1>2. CASE connectWifi
  <2>1. CASE UNCHANGED <<entregados, incomingData, puerto>>
    BY <1>2, <1>1, <2>1 DEF connectWifi, restart, Camino
  <2>2. CASE restart
    BY <1>2, <1>1, <2>2 DEF connectWifi, restart
  <2> QED  BY <1>2, <2>1, <2>2 DEF connectWifi
<1>3. CASE Reinicia
  BY <1>1, <1>3 DEF Reinicia, restart
<1>4. CASE Reenvia
  <2> DEFINE junto == incomingData \o puerto
             quiet == IF puerto # <<>> THEN 1 ELSE Increment(lastCharTime)
             due == junto # <<>> /\ quiet > QuietLoops
  <2>1. /\ puerto' = <<>>
        /\ incomingData' = IF due THEN <<>> ELSE junto
        /\ entregados' = IF due THEN Append(entregados, junto) ELSE entregados
        /\ UNCHANGED <<reportados, perdidos>>
    BY <1>4 DEF Reenvia
  <2>2. junto \in Seq(S) /\ F \o junto = (F \o incomingData) \o puerto
    <3>1. junto \in Seq(S)
      BY <1>0, ConcatProperties
    <3> DEFINE a == incomingData
               b == puerto
    <3>2. F \in Seq(S) /\ a \in Seq(S) /\ b \in Seq(S)
      BY <1>0
    <3> HIDE DEF F, S, a, b
    <3>3. (F \o a) \o b = F \o (a \o b)
      BY <3>2
    <3> QED  BY <3>1, <3>3 DEF a, b
  <2>3. F \o junto \in Seq(S)
    BY <1>0, <2>2, ConcatProperties
  <2>4. Camino = F \o junto
    BY <2>2 DEF Camino
  <2> HIDE DEF junto, due
  <2>5. CASE due
    <3>1. FlattenSeq(entregados') = F \o junto
      BY <2>1, <2>2, <2>5, Aplanar DEF TypeOK
    <3>2. ((F \o junto) \o <<>>) \o <<>> = F \o junto
      BY <2>3, ConcatEmptySeq
    <3> QED  BY <2>1, <2>4, <2>5, <3>1, <3>2 DEF Camino
  <2>6. CASE ~due
    <3>1. (F \o junto) \o <<>> = F \o junto
      BY <2>3, ConcatEmptySeq
    <3> QED  BY <2>1, <2>4, <2>6, <3>1 DEF Camino
  <2> QED  BY <2>5, <2>6
<1>5. ASSUME NEW n \in Bursts, Reporta(n)
      PROVE  /\ Camino' = Camino \o Nuevos(n)
             /\ perdidos' = perdidos \cup (reportados + Entran(n) + 1)..(reportados + n)
             /\ reportados' = reportados + n
  <2>1. /\ reportados' = reportados + n
        /\ puerto' = puerto \o Nuevos(n)
        /\ perdidos' = perdidos \cup (reportados + Entran(n) + 1)..(reportados + n)
        /\ UNCHANGED <<incomingData, entregados>>
    BY <1>5 DEF Reporta, Nuevos, Entran, Libres
  <2>2. Nuevos(n) \in Seq(Int) /\ puerto \in Seq(Int) /\ F \o incomingData \in Seq(Int)
    <3>1. Nuevos(n) \in Seq((reportados + 1)..(reportados + n))
      BY NuevosTipo
    <3>2. F \o incomingData \in Seq(S)
      BY <1>0, ConcatProperties
    <3>3. reportados \in Int /\ n \in Int
      BY NuevosTipo, HelperAssumption DEF TypeOK
    <3> HIDE DEF F
    <3> QED  BY <1>0, <3>1, <3>2, <3>3, DeEnteros
  <2> HIDE DEF F
  <2>3. (F \o incomingData) \o (puerto \o Nuevos(n))
          = ((F \o incomingData) \o puerto) \o Nuevos(n)
    <3> DEFINE a == F \o incomingData
               b == Nuevos(n)
    <3> HIDE DEF a, b
    <3>1. a \in Seq(Int) /\ b \in Seq(Int) /\ puerto \in Seq(Int)
      BY <2>2 DEF a, b
    <3>2. (a \o puerto) \o b = a \o (puerto \o b)
      BY <3>1, Asociativa, Zenon
    <3> QED  BY <3>2 DEF a, b
  <2> QED  BY <2>1, <2>3 DEF Camino, F
<1>6. CASE Boot \/ connectUDP \/ handleClient \/ handleReset
  BY <1>6 DEF Boot, connectUDP, handleClient, handleReset, Camino
<1>7. CASE UNCHANGED vars
  BY <1>7 DEF vars, Camino
<1> QED
  BY <1>2, <1>3, <1>4, <1>5, <1>6, <1>7 DEF Next, Programa

\* No step puts reports out of order or makes one disappear.
LEMMA EntregaPaso == TypeOK /\ Entrega /\ [Next]_vars => Entrega'
<1> SUFFICES ASSUME TypeOK, EnOrden, Conservacion, [Next]_vars
             PROVE  EnOrden' /\ Conservacion'
  BY DEF Entrega
<1> DEFINE S == 1..reportados
           F == FlattenSeq(entregados)
           I == incomingData
           P == puerto
<1>0. F \in Seq(S) /\ I \in Seq(S) /\ P \in Seq(S) /\ reportados \in Nat
  BY Aplanar DEF TypeOK
<1>1. F \o I \in Seq(S) /\ Camino = (F \o I) \o P /\ Camino \in Seq(S)
  BY <1>0, ConcatProperties DEF Camino
<1>a. F \in Seq(Int) /\ I \in Seq(Int) /\ P \in Seq(Int) /\ F \o I \in Seq(Int)
  <2> HIDE DEF F, I, P
  <2> QED  BY <1>0, <1>1, DeEnteros
<1>b. /\ Range((F \o I) \o P) = Range(F \o I) \cup Range(P)
      /\ Range(F \o I) = Range(F) \cup Range(I)
  <2> DEFINE a == F \o I
  <2> HIDE DEF F, I, P
  <2>1. Range(F \o I) = Range(F) \cup Range(I)
    BY <1>a, Concatenar
  <2>2. Range(a \o P) = Range(a) \cup Range(P)
    <3>1. a \in Seq(Int)
      BY <1>a
    <3> HIDE DEF a
    <3> QED  BY <1>a, <3>1, Concatenar
  <2> QED  BY <2>1, <2>2
<1>2. Range(Camino) = Range(F) \cup Range(I) \cup Range(P)
  BY <1>1, <1>b
<1>3. Creciente(Camino)
  BY DEF EnOrden, Creciente
<1>4. \A i \in 1..Len(entregados') : entregados'[i] # <<>>
  <2>1. CASE UNCHANGED entregados
    BY <2>1 DEF Conservacion
  <2>2. CASE entregados' # entregados
    <3>1. PICK d \in Seq(S) : d # <<>> /\ entregados' = Append(entregados, d)
      <4>1. Reenvia
        BY <2>2
        DEF Next, Programa, Boot, connectWifi, connectUDP, handleClient,
            handleReset, Reinicia, Reporta, vars
      <4>2. I \o P \in Seq(S)
        BY <1>0, ConcatProperties
      <4> QED  BY <2>2, <4>1, <4>2 DEF Reenvia
    <3>2. entregados \in Seq(Seq(S))
      BY DEF TypeOK
    <3>3. /\ Len(entregados') = Len(entregados) + 1 /\ Len(entregados) \in Nat
          /\ \A i \in 1..Len(entregados) : entregados'[i] = entregados[i]
          /\ entregados'[Len(entregados) + 1] = d
      BY <3>1, <3>2, AppendProperties, LenProperties
    <3>4. \A i \in 1..(Len(entregados) + 1) :
             i \in 1..Len(entregados) \/ i = Len(entregados) + 1
      BY <3>3
    <3> QED  BY <3>1, <3>3, <3>4 DEF Conservacion
  <2> QED  BY <2>1, <2>2
<1>5. CASE Camino' = Camino /\ UNCHANGED <<reportados, perdidos>>
  BY <1>4, <1>5 DEF EnOrden, Conservacion
<1>6. CASE /\ Camino' = F
           /\ perdidos' = perdidos \cup Range(I) \cup Range(P)
           /\ UNCHANGED reportados
  <2> HIDE DEF F, I, P
  <2>1. Creciente(F \o I) /\ Antes(F \o I, P)
    BY <1>1, <1>3, <1>a, CrecienteConcat
  <2>2. Creciente(F) /\ Antes(F, I)
    BY <1>a, <2>1, CrecienteConcat
  <2>3. EnOrden'
    BY <1>6, <2>2 DEF EnOrden, Creciente
  <2>4. Range(F) \cap Range(I) = {}
    BY <1>a, <2>2, Apartadas
  <2>5. Range(F) \cap Range(P) = {}
    <3>1. Range(F \o I) \cap Range(P) = {}
      BY <1>a, <2>1, Apartadas
    <3> QED  BY <1>b, <3>1
  <2>6. Range(Camino') \cap perdidos' = {} /\ Range(Camino') \cup perdidos' = 1..reportados'
    BY <1>2, <1>6, <2>4, <2>5 DEF Conservacion
  <2> QED  BY <1>4, <2>3, <2>6 DEF Conservacion
<1>7. ASSUME NEW n \in Bursts,
             Camino' = Camino \o Nuevos(n), reportados' = reportados + n,
             perdidos' = perdidos \cup (reportados + Entran(n) + 1)..(reportados + n)
      PROVE  EnOrden' /\ Conservacion'
  <2> DEFINE k == Entran(n)
             N == Nuevos(n)
  <2>1. /\ n \in Nat /\ k \in 0..n /\ Creciente(N)
        /\ N \in Seq((reportados + 1)..(reportados + n))
        /\ Range(N) = (reportados + 1)..(reportados + k)
    BY NuevosTipo
  <2>2. N \in Seq(Int) /\ Camino \in Seq(Int)
    <3> HIDE DEF N
    <3> QED  BY <1>0, <1>1, <2>1, DeEnteros
  <2>3. Antes(Camino, N)
    <3>1. \A i \in 1..Len(Camino) : Camino[i] \in S
      BY <1>1, ElementOfSeq
    <3>2. \A j \in 1..Len(N) : N[j] \in (reportados + 1)..(reportados + n)
      BY <2>1, ElementOfSeq
    <3> HIDE DEF k, N
    <3>3. ASSUME NEW i \in 1..Len(Camino), NEW j \in 1..Len(N)
          PROVE  Camino[i] < N[j]
      <4>1. Camino[i] \in 1..reportados
        BY <3>1
      <4>2. N[j] \in (reportados + 1)..(reportados + n)
        BY <3>2
      <4>3. reportados \in Int /\ n \in Int
        BY <1>0, <2>1
      <4> QED  BY <4>1, <4>2, <4>3
    <3> QED  BY <3>3 DEF Antes
  <2> HIDE DEF k, N
  <2>4. Creciente(Camino')
    BY <1>3, <1>7, <2>1, <2>2, <2>3, CrecienteConcat DEF N
  <2>5. EnOrden'
    BY <2>4 DEF EnOrden, Creciente
  <2>6. Range(Camino') = Range(Camino) \cup (reportados + 1)..(reportados + k)
    <3>1. Range(Camino \o N) = Range(Camino) \cup Range(N)
      BY <2>2, RangeConcatenation
    <3> QED  BY <1>7, <2>1, <3>1 DEF N
  <2>7. /\ Range(Camino) \cap perdidos = {}
        /\ Range(Camino) \cup perdidos = 1..reportados
        /\ perdidos' = perdidos \cup (reportados + k + 1)..(reportados + n)
    BY <1>7 DEF Conservacion, k
  <2>8. /\ Range(Camino') \cap perdidos' = {}
        /\ Range(Camino') \cup perdidos' = 1..reportados'
    <3>1. ASSUME NEW x \in Int
          PROVE  /\ x \in 1..(reportados + n)
                      <=> \/ x \in 1..reportados
                          \/ x \in (reportados + 1)..(reportados + k)
                          \/ x \in (reportados + k + 1)..(reportados + n)
                 /\ ~(x \in 1..reportados /\ x \in (reportados + 1)..(reportados + k))
                 /\ ~(x \in 1..reportados /\ x \in (reportados + k + 1)..(reportados + n))
                 /\ ~(/\ x \in (reportados + 1)..(reportados + k)
                      /\ x \in (reportados + k + 1)..(reportados + n))
      BY <1>0, <2>1
    <3>2. 1..(reportados + n) \subseteq Int /\ 1..reportados \subseteq Int
      OBVIOUS
    <3> QED  BY <1>7, <2>6, <2>7, <3>1, <3>2
  <2> QED  BY <1>4, <2>5, <2>8 DEF Conservacion
<1> QED  BY <1>5, <1>6, <1>7, CaminoPaso

\* Ranges, the bounded wait for the access point and the count of quiet passes
\* that never wraps while a text waits in loop(), for every limit.
THEOREM WifiSiempre == Spec => []WifiInv
<1>1. Init => WifiInv
  BY HelperInicio
<1>2. WifiInv /\ [Next]_vars => WifiInv'
  BY WifiPaso
<1> QED  BY <1>1, <1>2, PTL DEF Spec

\* Every report the machine prints is sent, in order and at most once, or is on
\* its way, or was lost: nothing disappears unaccounted for, across restarts.
THEOREM EntregaSiempre == Spec => []Entrega
<1>1. Init => WifiInv /\ Entrega
  BY HelperInicio
<1>2. WifiInv /\ Entrega /\ [Next]_vars => WifiInv' /\ Entrega'
  <2>1. WifiInv => TypeOK
    BY DEF WifiInv
  <2> QED  BY <2>1, WifiPaso, EntregaPaso
<1> QED  BY <1>1, <1>2, PTL DEF Spec

\* Only ESP.restart(), or a receive buffer that is full or not yet open, loses
\* a report.
THEOREM PierdeSolo == Spec => PierdeSoloAlReiniciar
<1> DEFINE Pierde == perdidos' # perdidos =>
                       \/ pc' = "boot"
                       \/ reportados' > reportados /\ Len(puerto') = PuertoCap
<1>1. WifiInv /\ [Next]_vars => [Pierde]_vars
  <2> SUFFICES ASSUME TypeOK, [Next]_vars, perdidos' # perdidos, pc' # "boot"
               PROVE  reportados' > reportados /\ Len(puerto') = PuertoCap
    BY DEF WifiInv
  <2>1. PICK n \in Bursts : Reporta(n)
    BY DEF Next, Programa, Boot, connectWifi, connectUDP, handleClient,
           handleReset, Reinicia, Reenvia, restart, vars
  <2>2. /\ reportados' = reportados + n /\ puerto' = puerto \o Nuevos(n)
        /\ perdidos' = perdidos \cup (reportados + Entran(n) + 1)..(reportados + n)
        /\ pc # "boot"
    BY <2>1 DEF Reporta, Nuevos, Entran, Libres
  <2>3. /\ n \in Nat /\ n > 0 /\ Entran(n) \in 0..n
        /\ Entran(n) < n => Entran(n) = Libres
        /\ Nuevos(n) \in Seq((reportados + 1)..(reportados + n))
        /\ Len(Nuevos(n)) = Entran(n)
    BY NuevosTipo
  <2>4. reportados \in Nat /\ PuertoCap \in Nat /\ Len(puerto) \in Nat
    BY HelperAssumption, LenProperties DEF TypeOK
  <2>5. Entran(n) < n
    <3>1. Entran(n) = n => (reportados + Entran(n) + 1)..(reportados + n) = {}
      BY <2>3, <2>4
    <3> QED  BY <2>2, <2>3, <3>1
  <2>6. Len(puerto) + Entran(n) = PuertoCap
    BY <2>2, <2>3, <2>4, <2>5 DEF Libres
  <2>7. Len(puerto \o Nuevos(n)) = Len(puerto) + Entran(n)
    <3>1. puerto \in Seq(Int) /\ Nuevos(n) \in Seq(Int)
      <4>1. puerto \in Seq(1..reportados)
        BY DEF TypeOK
      <4>2. reportados \in Int /\ n \in Int
        BY <2>3, <2>4
      <4> QED  BY <2>3, <4>1, <4>2, DeEnteros
    <3> QED  BY <2>3, <3>1, ConcatProperties
  <2> QED  BY <2>2, <2>3, <2>4, <2>6, <2>7
<1>2. Spec => []WifiInv
  BY WifiSiempre
<1> QED  BY <1>1, <1>2, PTL DEF Spec, PierdeSoloAlReiniciar

-----------------------------------------------------------------------------
(* Serial: the ring buffer between the interrupt and the sketch *)

\* cola is the content of a ring.
LEMMA ColaEsAnillo ==
    ASSUME U!TypeOK
    PROVE  /\ EsAnillo(Size, buffer, rpos, wpos)
           /\ U!cola = Anillo(Size, buffer, rpos, wpos)
           /\ U!cola \in Seq(Int)
           /\ Len(U!cola) = Largo(Size, rpos, wpos)
           /\ Len(U!cola) \in 0..(Size - 1)
           /\ U!cola = <<>> <=> wpos = rpos
           /\ wpos # rpos => U!cola[1] = buffer[rpos]
<1> DEFINE A == Anillo(Size, buffer, rpos, wpos)
<1>0. /\ Size \in Nat /\ Size > 0 /\ wpos \in 0..(Size - 1) /\ rpos \in 0..(Size - 1)
  BY EspAssumption DEF U!TypeOK, U!UartSuficiente
<1>1. buffer \in [0..(Size - 1) -> Int]
  <2>1. 0..llegados \cup {U!Nada} \subseteq Int
    BY DEF U!Nada
  <2> QED  BY <2>1 DEF U!TypeOK
<1>2. EsAnillo(Size, buffer, rpos, wpos)
  BY <1>0, <1>1 DEF EsAnillo
<1>3. U!cola = A
  BY DEF U!cola, Anillo, Largo, Lugar
<1>4. Contiene(Size, buffer, rpos, wpos, A)
  BY <1>2, AnilloTipo
<1>5. (A = <<>> <=> wpos = rpos) /\ (wpos # rpos => A[1] = buffer[rpos])
  BY <1>2, AnilloPrimero
<1>6. Largo(Size, rpos, wpos) \in 0..(Size - 1)
  BY <1>0, LargoDe
<1> HIDE DEF A
<1>7. A \in Seq(Int) /\ Len(A) = Largo(Size, rpos, wpos)
  BY <1>4 DEF Contiene
<1> QED  BY <1>2, <1>3, <1>5, <1>6, <1>7 DEF A

\* The interrupt appends to the queue the bytes of the FIFO that fit.
LEMMA IsrEscribe ==
    ASSUME U!TypeOK, U!uart_isr
    PROVE  \E k \in 0..Len(fifo) :
             /\ k + Len(U!cola) < Size
             /\ k = IF Len(fifo) < Size - 1 - Len(U!cola) THEN Len(fifo)
                    ELSE Size - 1 - Len(U!cola)
             /\ U!cola' = U!cola \o SubSeq(fifo, 1, k)
             /\ Largo(Size, rpos, wpos') = Largo(Size, rpos, wpos) + k
             /\ wpos' \in 0..(Size - 1)
             /\ buffer' \in [0..(Size - 1) -> 0..llegados \cup {U!Nada}]
<1> DEFINE k == IF Len(fifo) < U!libres THEN Len(fifo) ELSE U!libres
           s == SubSeq(fifo, 1, k)
           n == Largo(Size, rpos, wpos)
<1>0. /\ Size \in Nat /\ Size > 0 /\ wpos \in 0..(Size - 1) /\ rpos \in 0..(Size - 1)
      /\ Len(fifo) \in Nat /\ llegados \in Nat
      /\ buffer \in [0..(Size - 1) -> 0..llegados \cup {U!Nada}]
  BY EspAssumption, LenProperties DEF U!TypeOK, U!UartSuficiente
<1>1. EsAnillo(Size, buffer, rpos, wpos) /\ n \in 0..(Size - 1) /\ Len(U!cola) = n
  BY ColaEsAnillo
<1>2. U!libres \in Nat /\ U!libres = Size - 1 - n
  <2>1. n = IF wpos >= rpos THEN wpos - rpos ELSE (wpos - rpos) + Size
    BY <1>0, LargoDe
  <2>2. U!libres = IF rpos - wpos - 1 >= 0 THEN rpos - wpos - 1
                   ELSE (rpos - wpos - 1) + Size
    <3>1. rpos - wpos - 1 \in 0..(Size - 1) \/ rpos - wpos - 1 \in (-Size)..(-1)
      BY <1>0
    <3> QED  BY <1>0, <3>1, Modulo DEF U!libres
  <2> HIDE DEF n
  <2> QED  BY <1>0, <2>1, <2>2
<1>3. /\ k \in 0..Len(fifo) /\ k + n < Size
      /\ k = IF Len(fifo) < Size - 1 - n THEN Len(fifo) ELSE Size - 1 - n
  BY <1>0, <1>1, <1>2
<1>4. /\ buffer' = [i \in 0..(Size - 1) |->
                      IF ((i - wpos) % Size) + 1 <= Len(s)
                      THEN s[((i - wpos) % Size) + 1] ELSE buffer[i]]
      /\ wpos' = (wpos + Len(s)) % Size /\ rpos' = rpos
  BY DEF U!uart_isr
<1> HIDE DEF k, n
<1>5. s \in Seq(1..llegados) /\ Len(s) = k
  <2>1. fifo \in Seq(1..llegados) /\ 1 \in Int /\ llegados \in Int
    BY <1>0 DEF U!TypeOK
  <2> QED  BY <1>3, <2>1, Partir
<1> HIDE DEF s
<1>6. s \in Seq(Int) /\ Len(s) + Largo(Size, rpos, wpos) < Size
  BY <1>0, <1>3, <1>5, DeEnteros DEF n
<1>7. buffer' = Escrito(Size, buffer, wpos, s) /\ wpos' = Lugar(Size, wpos, Len(s) + 1)
  <2>1. wpos + (Len(s) + 1) - 1 = wpos + Len(s)
    BY <1>0, <1>3, <1>5
  <2> QED  BY <1>4, <2>1 DEF Escrito, Largo, Lugar
<1>8. /\ EsAnillo(Size, buffer', rpos, wpos')
      /\ Largo(Size, rpos, wpos') = Largo(Size, rpos, wpos) + Len(s)
      /\ Anillo(Size, buffer', rpos, wpos') = Anillo(Size, buffer, rpos, wpos) \o s
  BY <1>1, <1>6, <1>7, AnilloEscribe
<1>9. U!cola' = Anillo(Size, buffer', rpos, wpos')
  BY <1>4 DEF U!cola, Anillo, Largo, Lugar
<1>10. U!cola = Anillo(Size, buffer, rpos, wpos)
  BY ColaEsAnillo
<1>11. buffer' \in [0..(Size - 1) -> 0..llegados \cup {U!Nada}]
  <2>1. ASSUME NEW i \in 0..(Size - 1), Largo(Size, wpos, i) + 1 <= Len(s)
        PROVE  s[Largo(Size, wpos, i) + 1] \in 0..llegados
    <3>0. Largo(Size, wpos, i) \in 0..(Size - 1)
      BY <1>0, LargoDe
    <3>1. Largo(Size, wpos, i) + 1 \in 1..Len(s)
      BY <1>0, <1>3, <1>5, <2>1, <3>0
    <3>2. s[Largo(Size, wpos, i) + 1] \in 1..llegados
      BY <1>5, <3>1, ElementOfSeq
    <3> QED  BY <1>0, <3>2
  <2> QED  BY <1>0, <1>7, <2>1 DEF Escrito
<1>12. wpos' \in 0..(Size - 1)
  BY <1>8 DEF EsAnillo
<1>13. U!cola' = U!cola \o SubSeq(fifo, 1, k)
  BY <1>8, <1>9, <1>10 DEF s
<1> QED  BY <1>1, <1>3, <1>5, <1>8, <1>11, <1>12, <1>13

\* Freeing the slot takes the first byte from the queue.
LEMMA ReadSaca ==
    ASSUME U!TypeOK, U!Read3, wpos # rpos
    PROVE  /\ U!cola' = Tail(U!cola)
           /\ rpos' \in 0..(Size - 1)
<1>0. Size \in Nat /\ rpos \in 0..(Size - 1)
  BY EspAssumption DEF U!TypeOK, U!UartSuficiente
<1>1. EsAnillo(Size, buffer, rpos, wpos) /\ U!cola = Anillo(Size, buffer, rpos, wpos)
  BY ColaEsAnillo
<1>2. rpos' = Lugar(Size, rpos, 2) /\ UNCHANGED <<buffer, wpos>>
  <2>1. rpos + 2 - 1 = rpos + 1
    BY <1>0
  <2> QED  BY <2>1 DEF U!Read3, Lugar
<1>3. EsAnillo(Size, buffer, rpos', wpos)
      /\ Anillo(Size, buffer, rpos', wpos) = Tail(Anillo(Size, buffer, rpos, wpos))
  BY <1>1, <1>2, AnilloLee
<1>4. U!cola' = Anillo(Size, buffer, rpos', wpos)
  BY <1>2 DEF U!cola, Anillo, Largo, Lugar
<1> QED  BY <1>1, <1>3, <1>4 DEF EsAnillo

\* What Serial.available() says, computed from one or from two values of wpos.
LEMMA Disponible ==
    ASSUME U!TypeOK, U!VistoValido, upc \in {"avail2", "peek2"},
           NEW w \in {visto, wpos}
    PROVE  /\ wpos = rpos => U!available(w) = 0
           /\ visto # rpos => U!available(w) # 0 /\ wpos # rpos
<1>0. /\ Size \in Nat /\ Size > 0 /\ wpos \in 0..(Size - 1) /\ rpos \in 0..(Size - 1)
      /\ visto \in 0..(Size - 1)
  BY EspAssumption DEF U!TypeOK, U!UartSuficiente
<1> DEFINE n == Largo(Size, rpos, wpos)
           m == Largo(Size, rpos, visto)
<1>1. n = IF wpos >= rpos THEN wpos - rpos ELSE (wpos - rpos) + Size
  BY <1>0, LargoDe
<1>2. m = IF visto >= rpos THEN visto - rpos ELSE (visto - rpos) + Size
  BY <1>0, LargoDe
<1>3. m <= n
  BY ColaEsAnillo DEF U!VistoValido, Largo
<1> HIDE DEF n, m
<1>4. wpos = rpos => visto = rpos
  BY <1>0, <1>1, <1>2, <1>3
<1> QED  BY <1>0, <1>4 DEF U!available

\* What a step does to the bytes on their way: a byte is appended or lost, the
\* interrupt drops a tail that does not fit, reading moves the first one on.
LEMMA RecibidosPaso ==
    ASSUME U!UartInv, [U!Next]_uvars
    PROVE  /\ U!Recibidos \in Seq(1..llegados)
           /\ \/ U!Recibidos' = U!Recibidos /\ UNCHANGED llegados
              \/ /\ U!Recibidos' = U!Recibidos \o <<llegados + 1>>
                 /\ llegados' = llegados + 1
              \/ UNCHANGED U!Recibidos /\ llegados' = llegados + 1
              \/ /\ UNCHANGED llegados /\ U!Recibidos' \in Seq(Int)
                 /\ \E t \in Seq(Int) : U!Recibidos = U!Recibidos' \o t
<1> DEFINE L == leidos
           C == U!cola
           S == 1..llegados
           R == U!Recibidos
<1>0. U!TypeOK /\ L \in Seq(S) /\ C \in Seq(S) /\ fifo \in Seq(S) /\ llegados \in Nat
  BY DEF U!UartInv, U!TypeOK
<1>1. L \o C \in Seq(S) /\ R \in Seq(S) /\ R = (L \o C) \o fifo
  BY <1>0, ConcatProperties DEF U!Recibidos
<1>2. L \in Seq(Int) /\ C \in Seq(Int) /\ fifo \in Seq(Int) /\ L \o C \in Seq(Int)
  <2>1. 1 \in Int /\ llegados \in Int
    BY <1>0
  <2> HIDE DEF C, L
  <2> QED  BY <1>0, <1>1, <2>1, DeEnteros
<1>3. ASSUME UNCHANGED <<buffer, wpos, rpos>> PROVE C' = C
  BY <1>3 DEF U!cola
<1>4. CASE U!Llega
  <2>1. CASE fifo' = Append(fifo, llegados + 1)
    <3> DEFINE x == <<llegados + 1>>
    <3>1. Append(fifo, llegados + 1) = fifo \o x /\ x \in Seq(Int)
      BY <1>0, <1>2, AppendIsConcat
    <3> DEFINE a == L \o C
    <3>2. a \in Seq(Int)
      BY <1>2
    <3> HIDE DEF a, x
    <3>3. (a \o fifo) \o x = a \o (fifo \o x)
      BY <1>2, <3>1, <3>2, Asociativa, Zenon
    <3>4. R' = a \o (fifo \o x)
      BY <1>3, <1>4, <2>1, <3>1 DEF U!Llega, U!Recibidos, a
    <3>5. R = a \o fifo
      BY <1>1 DEF a
    <3> QED  BY <1>1, <1>4, <3>3, <3>4, <3>5 DEF U!Llega, x
  <2>2. CASE fifo' = fifo
    BY <1>1, <1>3, <1>4, <2>2 DEF U!Llega, U!Recibidos
  <2> QED  BY <1>4, <2>1, <2>2 DEF U!Llega
<1>5. CASE U!uart_isr
  <2>1. PICK k \in 0..Len(fifo) : C' = C \o SubSeq(fifo, 1, k)
    BY <1>0, <1>5, IsrEscribe
  <2> DEFINE s == SubSeq(fifo, 1, k)
             t == SubSeq(fifo, k + 1, Len(fifo))
  <2>2. s \in Seq(S) /\ t \in Seq(S) /\ s \o t = fifo
    <3>1. 1 \in Int /\ llegados \in Int
      BY <1>0
    <3> QED  BY <1>0, <3>1, Partir
  <2>3. s \in Seq(Int) /\ t \in Seq(Int)
    <3>1. 1 \in Int /\ llegados \in Int
      BY <1>0
    <3> HIDE DEF s, t
    <3> QED  BY <2>2, <3>1, DeEnteros
  <2>4. fifo' = <<>> /\ leidos' = leidos /\ llegados' = llegados
    BY <1>5 DEF U!uart_isr
  <2> DEFINE a == L \o C
  <2>5. a \in Seq(Int) /\ R = a \o fifo
    BY <1>1, <1>2
  <2>6. R' = (L \o (C \o s)) \o <<>>
    BY <2>1, <2>4 DEF U!Recibidos
  <2>7. L \o (C \o s) = a \o s
    <3>1. L \in Seq(Int) /\ C \in Seq(Int) /\ s \in Seq(Int)
      BY <1>2, <2>3
    <3> HIDE DEF L, C, s
    <3>2. (L \o C) \o s = L \o (C \o s)
      BY <3>1, Asociativa, Zenon
    <3> QED  BY <3>2
  <2> HIDE DEF a, s, t, L, C
  <2>8. a \o s \in Seq(Int) /\ (a \o s) \o <<>> = a \o s
    BY <2>3, <2>5, ConcatProperties, ConcatEmptySeq
  <2>9. (a \o s) \o t = a \o (s \o t)
    BY <2>3, <2>5, Asociativa, Zenon
  <2>10. R' = a \o s
    BY <2>6, <2>7, <2>8
  <2>11. R = R' \o t /\ R' \in Seq(Int)
    BY <2>2, <2>5, <2>8, <2>9, <2>10
  <2> QED  BY <1>1, <2>3, <2>4, <2>11
<1>6. CASE U!Read3
  <2>1. C # <<>> /\ data = C[1] /\ wpos # rpos
    BY <1>0, <1>6, ColaEsAnillo DEF U!Read3, U!UartInv, U!LecturaSegura
  <2>2. C' = Tail(C)
    BY <1>0, <1>6, <2>1, ReadSaca
  <2>3. leidos' = Append(leidos, C[1]) /\ fifo' = fifo /\ llegados' = llegados
    BY <1>6, <2>1 DEF U!Read3
  <2> HIDE DEF C
  <2>4. /\ C[1] \in Int /\ <<C[1]>> \in Seq(Int) /\ Tail(C) \in Seq(Int)
        /\ <<C[1]>> \o Tail(C) = C
    BY <1>2, <2>1, PrimeroYResto
  <2>5. Append(L, C[1]) = L \o <<C[1]>>
    BY <1>2, <2>4, AppendIsConcat
  <2> DEFINE h == <<C[1]>>
             u == Tail(C)
  <2>6. h \in Seq(Int) /\ u \in Seq(Int) /\ h \o u = C
    BY <2>4
  <2>7. L \o (h \o u) = (L \o h) \o u
    <3>1. L \in Seq(Int) /\ h \in Seq(Int) /\ u \in Seq(Int)
      BY <1>2, <2>6
    <3> HIDE DEF h, u, L
    <3>2. (L \o h) \o u = L \o (h \o u)
      BY <3>1, Asociativa, Zenon
    <3> QED  BY <3>2
  <2>8. (Append(L, C[1]) \o u) \o fifo = (L \o C) \o fifo
    BY <2>5, <2>6, <2>7
  <2>9. R' = (Append(L, C[1]) \o u) \o fifo
    BY <2>2, <2>3 DEF U!Recibidos, C
  <2> QED  BY <1>1, <2>3, <2>8, <2>9
<1>7. CASE U!Available1 \/ U!Available2 \/ U!Read1 \/ U!Read2 \/ U!Sigue \/ UNCHANGED uvars
  <2>1. UNCHANGED <<fifo, buffer, wpos, rpos, llegados, leidos>>
    BY <1>7 DEF U!Available1, U!Available2, U!Read1, U!Read2, U!Sigue, U!mira, uvars
  <2> QED  BY <1>1, <1>3, <2>1 DEF U!Recibidos
<1> QED  BY <1>4, <1>5, <1>6, <1>7 DEF U!Next, U!Lector

\* The bytes on their way stay in order.
LEMMA UartOrden == U!UartInv /\ [U!Next]_uvars => U!EnOrden'
<1> SUFFICES ASSUME U!UartInv, [U!Next]_uvars PROVE U!EnOrden'
  OBVIOUS
<1> DEFINE R == U!Recibidos
<1>1. Creciente(R)
  BY DEF U!UartInv, U!EnOrden, Creciente
<1>2. R \in Seq(1..llegados) /\ llegados \in Nat
  BY RecibidosPaso DEF U!UartInv, U!TypeOK
<1>3. R \in Seq(Int)
  <2> HIDE DEF R
  <2>1. 1 \in Int /\ llegados \in Int
    BY <1>2
  <2> QED  BY <1>2, <2>1, DeEnteros
<1>4. CASE R' = R
  BY <1>4 DEF U!UartInv, U!EnOrden
<1>5. CASE R' = R \o <<llegados + 1>>
  <2> DEFINE x == <<llegados + 1>>
  <2>1. x \in Seq(Int) /\ Creciente(x) /\ Antes(R, x)
    <3>1. x \in Seq(Int) /\ Len(x) = 1 /\ x[1] = llegados + 1
      BY <1>2
    <3>2. \A i \in 1..Len(R) : R[i] \in 1..llegados
      <4> HIDE DEF R
      <4> QED  BY <1>2, ElementOfSeq
    <3> HIDE DEF x, R
    <3>3. \A j \in 1..Len(x) : j = 1
      BY <3>1
    <3> QED  BY <1>2, <3>1, <3>2, <3>3 DEF Creciente, Antes
  <2> HIDE DEF x, R
  <2>2. Creciente(R \o x)
    BY <1>1, <1>3, <2>1, CrecienteConcat
  <2>3. Creciente(R')
    BY <1>5, <2>2 DEF x
  <2> QED  BY <2>3 DEF Creciente, U!EnOrden, R
<1>6. ASSUME R' \in Seq(Int), NEW t \in Seq(Int), R = R' \o t
      PROVE  U!EnOrden'
  <2> DEFINE r == R'
  <2>1. r \in Seq(Int) /\ Creciente(r \o t)
    BY <1>1, <1>6
  <2> HIDE DEF r
  <2>2. Creciente(r)
    BY <2>1, CrecienteConcat
  <2> QED  BY <2>2 DEF Creciente, U!EnOrden, r
<1> QED  BY <1>4, <1>5, <1>6, RecibidosPaso

\* The step of UartInv: first the ranges and the queue ...
LEMMA UartTipos ==
    ASSUME U!UartInv, [U!Next]_uvars
    PROVE  U!TypeOK' /\ U!cola' \in Seq(1..llegados')
<1>0. /\ U!TypeOK /\ U!cola \in Seq(1..llegados) /\ U!LecturaSegura /\ U!VistoValido
  BY DEF U!UartInv
<1>a. /\ llegados \in Nat /\ MaxBytes \in Nat /\ FifoCap \in Nat
      /\ Len(fifo) \in Nat /\ Len(fifo) <= FifoCap
      /\ fifo \in Seq(1..llegados)
  BY <1>0, EspAssumption, LenProperties DEF U!TypeOK, U!UartSuficiente
<1>b. ASSUME UNCHANGED <<buffer, wpos, rpos>> PROVE U!cola' = U!cola
  BY <1>b DEF U!cola
<1>c. U!cola # <<>> => U!cola[1] \in 1..llegados
  <2>1. U!cola # <<>> => 1 \in 1..Len(U!cola)
    BY <1>0, EmptySeq
  <2> QED  BY <1>0, <2>1, ElementOfSeq
<1>1. CASE U!Llega
  <2>1. llegados' = llegados + 1 /\ llegados' \in 0..MaxBytes
    BY <1>a, <1>1 DEF U!Llega
  <2>2. 1..llegados \subseteq 1..llegados' /\ 0..llegados \subseteq 0..llegados'
    BY <1>a, <2>1
  <2>3. /\ leidos \in Seq(1..llegados') /\ fifo \in Seq(1..llegados')
        /\ U!cola \in Seq(1..llegados')
    <3>1. leidos \in Seq(1..llegados)
      BY <1>0 DEF U!TypeOK
    <3> QED  BY <1>0, <1>a, <2>2, <3>1, SeqMonotonic
  <2>4. fifo' \in Seq(1..llegados') /\ Len(fifo') <= FifoCap
    <3>1. CASE Len(fifo) < FifoCap
      <4>1. llegados + 1 \in 1..llegados' /\ fifo' = Append(fifo, llegados + 1)
        BY <1>a, <1>1, <2>1, <3>1 DEF U!Llega
      <4>2. fifo' \in Seq(1..llegados') /\ Len(fifo') = Len(fifo) + 1
        BY <2>3, <4>1, AppendProperties
      <4> QED  BY <1>a, <3>1, <4>2
    <3>2. CASE ~(Len(fifo) < FifoCap)
      BY <1>a, <1>1, <2>3, <3>2 DEF U!Llega
    <3> QED  BY <3>1, <3>2
  <2>5. buffer \in [0..(Size - 1) -> 0..llegados' \cup {U!Nada}]
    BY <1>0, <2>2 DEF U!TypeOK
  <2>6. data \in 1..llegados' \cup {U!Nada}
    BY <1>0, <2>2 DEF U!TypeOK
  <2>7. UNCHANGED <<buffer, wpos, rpos, upc, visto, data, leidos>>
    BY <1>1 DEF U!Llega
  <2> QED  BY <1>0, <1>b, <2>1, <2>3, <2>4, <2>5, <2>6, <2>7 DEF U!TypeOK
<1>2. CASE U!uart_isr
  <2>1. PICK k \in 0..Len(fifo) :
              /\ U!cola' = U!cola \o SubSeq(fifo, 1, k)
              /\ wpos' \in 0..(Size - 1)
              /\ buffer' \in [0..(Size - 1) -> 0..llegados \cup {U!Nada}]
    BY <1>0, <1>2, IsrEscribe
  <2>2. fifo' = <<>> /\ UNCHANGED <<rpos, upc, visto, data, llegados, leidos>>
    BY <1>2 DEF U!uart_isr
  <2>3. SubSeq(fifo, 1, k) \in Seq(1..llegados)
    <3>1. 1 \in Int /\ llegados \in Int
      BY <1>a
    <3> QED  BY <1>a, <3>1, Partir
  <2>4. U!cola' \in Seq(1..llegados')
    BY <1>0, <2>1, <2>2, <2>3, ConcatProperties
  <2>5. fifo' \in Seq(1..llegados') /\ Len(fifo') <= FifoCap
    BY <1>a, <2>2, EmptySeq
  <2> QED  BY <1>0, <2>1, <2>2, <2>4, <2>5 DEF U!TypeOK
<1>3. CASE U!Available1 \/ U!Read1
  <2>1. /\ visto' = wpos /\ UNCHANGED <<fifo, buffer, wpos, rpos, data, llegados, leidos>>
        /\ upc' \in {"avail2", "peek2"}
    BY <1>3 DEF U!Available1, U!Read1, U!mira
  <2> QED  BY <1>0, <1>b, <2>1 DEF U!TypeOK
<1>4. CASE U!Available2 \/ U!Sigue
  <2>1. /\ UNCHANGED <<fifo, buffer, wpos, rpos, visto, data, llegados, leidos>>
        /\ upc' \in {"afuera", "leer"}
    BY <1>4 DEF U!Available2, U!Sigue
  <2> QED  BY <1>0, <1>b, <2>1 DEF U!TypeOK
<1>5. CASE U!Read2
  <2>1. /\ UNCHANGED <<fifo, buffer, wpos, rpos, visto, llegados, leidos>>
        /\ upc' \in {"saca", "avanza"} /\ data' \in {U!Nada, buffer[rpos]}
        /\ upc = "peek2"
    BY <1>5 DEF U!Read2
  <2>2. buffer[rpos] \in 1..llegados
    <3>1. U!cola # <<>> /\ U!cola[1] = buffer[rpos]
      BY <1>0, <2>1, ColaEsAnillo DEF U!LecturaSegura
    <3> QED  BY <1>c, <3>1
  <2> QED  BY <1>0, <1>b, <2>1, <2>2 DEF U!TypeOK
<1>6. CASE U!Read3
  <2>1. /\ UNCHANGED <<fifo, buffer, wpos, visto, data, llegados>>
        /\ leidos' = Append(leidos, data) /\ upc' = "avanza" /\ upc = "saca"
    BY <1>6 DEF U!Read3
  <2>2. U!cola # <<>> /\ data = U!cola[1] /\ wpos # rpos
    BY <1>0, <2>1, ColaEsAnillo DEF U!LecturaSegura
  <2>3. U!cola' = Tail(U!cola) /\ rpos' \in 0..(Size - 1)
    BY <1>0, <1>6, <2>2, ReadSaca
  <2>4. U!cola' \in Seq(1..llegados)
    BY <1>0, <2>2, <2>3, HeadTailProperties
  <2>5. leidos' \in Seq(1..llegados)
    BY <1>0, <1>c, <2>1, <2>2, AppendProperties DEF U!TypeOK
  <2> QED  BY <1>0, <2>1, <2>3, <2>4, <2>5 DEF U!TypeOK
<1>7. CASE UNCHANGED uvars
  BY <1>0, <1>b, <1>7 DEF uvars, U!TypeOK
<1> QED  BY <1>1, <1>2, <1>3, <1>4, <1>5, <1>6, <1>7 DEF U!Next, U!Lector

\* ... then what makes a read safe.
LEMMA UartLectura ==
    ASSUME U!UartInv, [U!Next]_uvars
    PROVE  U!LecturaSegura' /\ U!VistoValido'
<1>0. /\ U!TypeOK /\ U!cola \in Seq(1..llegados) /\ U!LecturaSegura /\ U!VistoValido
  BY DEF U!UartInv
<1>a. /\ Size \in Nat /\ Size > 0 /\ rpos \in 0..(Size - 1) /\ wpos \in 0..(Size - 1)
      /\ visto \in 0..(Size - 1)
  BY <1>0, EspAssumption DEF U!TypeOK, U!UartSuficiente
<1>b. ASSUME UNCHANGED <<buffer, wpos, rpos>> PROVE U!cola' = U!cola
  BY <1>b DEF U!cola
<1>c. /\ U!cola = <<>> <=> wpos = rpos
      /\ wpos # rpos => U!cola[1] = buffer[rpos]
      /\ Len(U!cola) = Largo(Size, rpos, wpos)
  BY <1>0, ColaEsAnillo
<1>1. CASE U!Llega \/ UNCHANGED uvars
  <2>1. UNCHANGED <<buffer, wpos, rpos, upc, visto, data>>
    BY <1>1 DEF U!Llega, uvars
  <2> QED  BY <1>0, <1>b, <2>1 DEF U!LecturaSegura, U!VistoValido
<1>2. CASE U!uart_isr
  <2>1. PICK k \in 0..Len(fifo) :
              /\ U!cola' = U!cola \o SubSeq(fifo, 1, k)
              /\ Largo(Size, rpos, wpos') = Largo(Size, rpos, wpos) + k
    BY <1>0, <1>2, IsrEscribe
  <2>2. UNCHANGED <<rpos, upc, visto, data>>
    BY <1>2 DEF U!uart_isr
  <2>3. k \in Nat /\ Largo(Size, rpos, wpos) \in Nat
    BY <1>a, LargoDe
  <2>4. Len(U!cola') = Len(U!cola) + k /\ Len(U!cola) \in Nat
    <3>1. SubSeq(fifo, 1, k) \in Seq(1..llegados) /\ Len(SubSeq(fifo, 1, k)) = k
      <4>1. 1 \in Int /\ llegados \in Int /\ fifo \in Seq(1..llegados)
        BY <1>0 DEF U!TypeOK
      <4> QED  BY <4>1, Partir
    <3> QED  BY <1>0, <2>1, <3>1, ConcatProperties, LenProperties
  <2>5. U!cola # <<>> => U!cola' # <<>> /\ U!cola'[1] = U!cola[1]
    <3> SUFFICES ASSUME U!cola # <<>>
                 PROVE  U!cola' # <<>> /\ U!cola'[1] = U!cola[1]
      OBVIOUS
    <3>1. Len(U!cola) \in Nat \ {0}
      BY <1>0, EmptySeq
    <3>2. SubSeq(fifo, 1, k) \in Seq(1..llegados) /\ Len(SubSeq(fifo, 1, k)) = k
      <4>1. 1 \in Int /\ llegados \in Int /\ fifo \in Seq(1..llegados)
        BY <1>0 DEF U!TypeOK
      <4> QED  BY <4>1, Partir
    <3>3. 1 \in 1..(Len(U!cola) + Len(SubSeq(fifo, 1, k))) /\ 1 <= Len(U!cola)
      BY <2>3, <3>1, <3>2
    <3>4. U!cola'[1] = U!cola[1]
      BY <1>0, <2>1, <3>2, <3>3, ConcatProperties
    <3>5. U!cola' # <<>>
      BY <2>3, <2>4, <3>1
    <3> QED  BY <3>4, <3>5
  <2>6. U!LecturaSegura'
    BY <1>0, <2>2, <2>5 DEF U!LecturaSegura
  <2>7. (visto - rpos) % Size \in Int
    <3>1. visto - rpos \in Int
      BY <1>a
    <3> QED  BY <1>a, <3>1, Modulo
  <2>8. U!VistoValido'
    <3>1. (visto' - rpos') % Size = (visto - rpos) % Size
      BY <2>2
    <3> DEFINE m == (visto - rpos) % Size
    <3> HIDE DEF m
    <3>2. m <= Len(U!cola) => m <= Len(U!cola')
      BY <2>3, <2>4, <2>7 DEF m
    <3> QED  BY <1>0, <2>2, <3>1, <3>2 DEF U!VistoValido, m
  <2> QED  BY <2>6, <2>8
<1>3. CASE U!Available1 \/ U!Read1
  <2>1. /\ visto' = wpos /\ UNCHANGED <<fifo, buffer, wpos, rpos, data, llegados, leidos>>
        /\ \/ upc = "afuera" /\ upc' = "avail2"
           \/ upc = "leer" /\ upc' = "peek2"
    BY <1>3 DEF U!Available1, U!Read1, U!mira
  <2>2. U!cola' = U!cola
    BY <1>b, <2>1
  <2>3. U!LecturaSegura'
    BY <1>0, <2>1, <2>2 DEF U!LecturaSegura
  <2>4. (visto' - rpos') % Size <= Len(U!cola')
    <3>1. Len(U!cola) \in Int /\ Len(U!cola) = (wpos - rpos) % Size
      BY <1>a, <1>c, LargoDe DEF Largo
    <3> QED  BY <2>1, <2>2, <3>1
  <2>5. upc' = "peek2" => visto' # rpos'
    BY <1>0, <1>c, <2>1 DEF U!LecturaSegura
  <2> QED  BY <2>1, <2>3, <2>4, <2>5 DEF U!VistoValido
<1>4. CASE U!Available2
  <2>1. UNCHANGED <<fifo, buffer, wpos, rpos, visto, data, llegados, leidos>>
    BY <1>4 DEF U!Available2
  <2>2. PICK w \in {visto, wpos} :
             upc = "avail2" /\ upc' = IF U!available(w) = 0 THEN "afuera" ELSE "leer"
    BY <1>4 DEF U!Available2
  <2>3. wpos = rpos => U!available(w) = 0
    BY <1>0, <2>2, Disponible
  <2>4. upc' = "leer" => U!cola # <<>>
    BY <1>c, <2>2, <2>3
  <2>5. upc' \in {"afuera", "leer"}
    BY <2>2
  <2>6. U!cola' = U!cola
    BY <1>b, <2>1
  <2> QED  BY <2>4, <2>5, <2>6 DEF U!LecturaSegura, U!VistoValido
<1>5. CASE U!Read2
  <2>1. UNCHANGED <<fifo, buffer, wpos, rpos, visto, llegados, leidos>> /\ upc = "peek2"
    BY <1>5 DEF U!Read2
  <2>2. PICK w \in {visto, wpos} :
             IF U!available(w) = 0 THEN data' = U!Nada /\ upc' = "avanza"
                                   ELSE data' = buffer[rpos] /\ upc' = "saca"
    BY <1>5 DEF U!Read2
  <2>3. U!available(w) # 0 /\ wpos # rpos
    BY <1>0, <2>1, Disponible DEF U!VistoValido
  <2>4. data' = U!cola[1] /\ upc' = "saca" /\ U!cola # <<>> /\ U!cola' = U!cola
    BY <1>b, <1>c, <2>1, <2>2, <2>3
  <2> QED  BY <2>4 DEF U!LecturaSegura, U!VistoValido
<1>6. CASE U!Read3
  <2>1. data' = data /\ upc' = "avanza" /\ upc = "saca"
    BY <1>6 DEF U!Read3
  <2>2. data # U!Nada
    <3>1. U!cola # <<>> /\ data = U!cola[1]
      BY <1>0, <2>1 DEF U!LecturaSegura
    <3>2. 1 \in 1..Len(U!cola)
      BY <1>0, <3>1, EmptySeq
    <3>3. data \in 1..llegados
      BY <1>0, <3>1, <3>2, ElementOfSeq
    <3> QED  BY <3>3 DEF U!Nada
  <2> QED  BY <2>1, <2>2 DEF U!LecturaSegura, U!VistoValido
<1>7. CASE U!Sigue
  BY <1>7 DEF U!Sigue, U!LecturaSegura, U!VistoValido
<1> QED  BY <1>1, <1>2, <1>3, <1>4, <1>5, <1>6, <1>7 DEF U!Next, U!Lector

\* All of it.
LEMMA UartPaso == U!UartInv /\ [U!Next]_uvars => U!UartInv'
BY UartTipos, UartLectura, UartOrden DEF U!UartInv

LEMMA UartInicio == U!Init => U!UartInv
<1> SUFFICES ASSUME U!Init PROVE U!UartInv
  OBVIOUS
<1>0. Size \in Nat /\ Size > 0 /\ FifoCap \in Nat /\ MaxBytes \in Nat
  BY EspAssumption DEF U!UartSuficiente
<1>1. U!TypeOK
  <2>1. /\ 0 \in 0..(Size - 1) /\ 0 \in 0..MaxBytes /\ 0 <= FifoCap
        /\ <<>> \in Seq(1..0) /\ Len(<<>>) = 0
    BY <1>0, EmptySeq
  <2> QED  BY <2>1 DEF U!Init, U!TypeOK
<1>2. U!cola = <<>>
  BY <1>1, ColaEsAnillo DEF U!Init
<1>3. U!Recibidos = <<>>
  <2>1. <<>> \o <<>> = <<>> /\ (<<>> \o <<>>) \o <<>> = <<>>
    BY EmptySeq, ConcatEmptySeq
  <2> QED  BY <1>2, <2>1 DEF U!Init, U!Recibidos
<1>4. U!EnOrden
  <2>1. Len(U!Recibidos) = 0
    BY <1>3, RangoVacio
  <2> QED  BY <2>1 DEF U!EnOrden
<1>5. U!LecturaSegura /\ U!VistoValido
  BY DEF U!Init, U!LecturaSegura, U!VistoValido
<1>6. <<>> \in Seq(1..llegados)
  BY EmptySeq
<1> QED  BY <1>1, <1>2, <1>4, <1>5, <1>6 DEF U!UartInv

\* available(), then read(), from a buffer the interrupt fills meanwhile: a byte
\* is there, it is the oldest, and none is read twice or out of order, for every
\* size of the buffer and of the FIFO.
THEOREM UartSiempre == U!Spec => []U!UartInv
<1>1. U!Init => U!UartInv
  BY UartInicio
<1>2. U!UartInv /\ [U!Next]_U!vars => U!UartInv'
  BY UartPaso DEF uvars, U!vars
<1> QED  BY <1>1, <1>2, PTL DEF U!Spec

\* Every step of the ring buffer is a step of the queue, or none.
LEMMA UartPasoCola ==
    ASSUME U!UartInv, [U!Next]_uvars
    PROVE  [U!F!Next]_(U!F!vars)
<1>0. U!TypeOK /\ U!cola \in Seq(1..llegados) /\ U!LecturaSegura
  BY DEF U!UartInv
<1>b. ASSUME UNCHANGED <<buffer, wpos, rpos>> PROVE U!cola' = U!cola
  BY <1>b DEF U!cola
<1>1. CASE U!uart_isr
  <2>1. PICK k \in 0..Len(fifo) :
              /\ k = IF Len(fifo) < Size - 1 - Len(U!cola) THEN Len(fifo)
                     ELSE Size - 1 - Len(U!cola)
              /\ U!cola' = U!cola \o SubSeq(fifo, 1, k)
    BY <1>0, <1>1, IsrEscribe
  <2>2. fifo # <<>> /\ fifo' = <<>> /\ leidos' = leidos
    <3>1. Len(fifo) # 0
      <4>1. FifoCap \in Nat /\ FifoCap > 0
        BY EspAssumption DEF U!UartSuficiente
      <4>2. 0 % FifoCap = 0
        BY <4>1
      <4> QED  BY <1>1, <4>2 DEF U!uart_isr
    <3> QED  BY <1>1, <3>1 DEF U!uart_isr
  <2>3. U!F!Llega
    BY <2>1, <2>2 DEF U!F!Llega
  <2> QED  BY <2>3 DEF U!F!Next
<1>2. CASE U!Read3
  <2>1. U!cola # <<>> /\ data = U!cola[1] /\ wpos # rpos
    BY <1>0, <1>2, ColaEsAnillo DEF U!Read3, U!LecturaSegura
  <2>2. U!cola' = Tail(U!cola)
    BY <1>0, <1>2, <2>1, ReadSaca
  <2>3. Head(U!cola) = data
    <3>1. U!cola \in Seq(Int)
      BY <1>0, ColaEsAnillo
    <3> QED  BY <2>1, <3>1, PrimeroYResto
  <2>4. U!F!Lee
    BY <1>2, <2>1, <2>2, <2>3 DEF U!Read3, U!F!Lee
  <2> QED  BY <2>4 DEF U!F!Next
<1>3. CASE U!Llega
  <2>1. U!cola' = U!cola /\ leidos' = leidos
    BY <1>3, <1>b DEF U!Llega
  <2>2. CASE fifo' = fifo
    BY <2>1, <2>2 DEF U!F!vars
  <2>3. CASE fifo' = Append(fifo, llegados + 1)
    <3>1. fifo \in Seq(Int) /\ llegados + 1 \in Int /\ Len(fifo) \in Nat
      <4>1. fifo \in Seq(1..llegados) /\ llegados \in Int /\ 1 \in Int
        BY <1>0 DEF U!TypeOK
      <4> QED  BY <4>1, DeEnteros, LenProperties
    <3>2. Len(fifo') = Len(fifo) + 1
      BY <2>3, <3>1, AppendProperties
    <3>3. SubSeq(fifo', 1, Len(fifo)) = fifo
      <4>1. CASE Len(fifo) = 0
        BY <3>1, <4>1, EmptySeq, SubSeqEmpty
      <4>2. CASE Len(fifo) # 0
        <5>1. <<llegados + 1>> \in Seq(Int) /\ fifo' = fifo \o <<llegados + 1>>
          BY <2>3, <3>1, AppendIsConcat
        <5>2. 1 \in 1..Len(fifo) /\ Len(fifo) \in 1..Len(fifo)
          BY <3>1, <4>2
        <5>3. SubSeq(fifo \o <<llegados + 1>>, 1, Len(fifo))
                = SubSeq(fifo, 1, Len(fifo))
          BY <3>1, <5>1, <5>2, SubSeqOfConcat1
        <5> QED  BY <3>1, <5>1, <5>3, SubSeqFull
      <4> QED  BY <4>1, <4>2
    <3> QED  BY <2>1, <3>2, <3>3 DEF U!F!Next, U!F!Viene
  <2> QED  BY <1>3, <2>2, <2>3 DEF U!Llega
<1>4. CASE ~U!uart_isr /\ ~U!Read3 /\ ~U!Llega
  <2>1. UNCHANGED <<fifo, buffer, wpos, rpos, leidos>>
    BY <1>4
    DEF U!Next, U!Lector, U!Available1, U!Available2, U!Read1, U!Read2, U!Sigue,
        U!mira, uvars
  <2> QED  BY <1>b, <2>1 DEF U!F!vars
<1> QED  BY <1>1, <1>2, <1>3, <1>4

\* The buffer that the interrupt and the sketch share without a lock implements
\* a queue of Size - 1 bytes: what came is queued in its order, what found no
\* room is lost and nothing else, and each byte is read once.
THEOREM UartImplementaCola == U!Spec => U!F!Spec
<1>1. U!Init => U!F!Init
  <2> SUFFICES ASSUME U!Init PROVE U!F!Init
    OBVIOUS
  <2>1. U!cola = <<>>
    BY UartInicio, ColaEsAnillo DEF U!Init, U!UartInv
  <2> QED  BY <2>1 DEF U!Init, U!F!Init
<1>2. U!UartInv /\ [U!Next]_U!vars => [U!F!Next]_(U!F!vars)
  BY UartPasoCola DEF uvars, U!vars
<1>3. U!Spec => []U!UartInv
  BY UartSiempre
<1> QED  BY <1>1, <1>2, <1>3, PTL DEF U!Spec, U!F!Spec

-----------------------------------------------------------------------------
(* The HTTP server *)

\* The connections are kept apart: the same statement as in WebServer, in terms
\* of the operators of this module.
Filas ==
    /\ status = "NONE" <=> actual = W!Nadie
    /\ IsInjective(unclaimed) /\ actual \notin Range(unclaimed)
    /\ \A c \in Clientes :
         conexion[c] \in {"abierta", "cerrada"} <=> c = actual \/ c \in Range(unclaimed)
    /\ status = "CLOSE" => actual \in atendidos
    /\ \A c \in atendidos : c # actual => conexion[c] = "soltada"

LEMMA FilasSon == (W!Turnos <=> Filas) /\ (W!Turnos' <=> Filas')
<1>1. \A s : W!Range(s) = Range(s)
  BY DEF W!Range, Range
<1>2. \A s : W!IsInjective(s) <=> IsInjective(s)
  BY DEF W!IsInjective, IsInjective
<1>3. W!Turnos <=> Filas
  BY <1>1, <1>2, Zenon DEF W!Turnos, Filas
<1>4. W!Turnos' <=> Filas'
  BY <1>1, <1>2, Zenon DEF W!Turnos, Filas
<1> QED  BY <1>3, <1>4

\* The connection a call of handleClient() works on is an open one, and leaves
\* the list if it was in it.
LEMMA TurnoDe ==
    ASSUME W!WebInv, status # "NONE" \/ W!toma,
           unclaimed' = IF W!toma THEN Tail(unclaimed) ELSE unclaimed
    PROVE  /\ W!cliente \in Clientes
           /\ conexion[W!cliente] \in {"abierta", "cerrada"}
           /\ unclaimed' \in Seq(Clientes) /\ IsInjective(unclaimed')
           /\ W!cliente \notin Range(unclaimed')
           /\ \A c \in Clientes :
                c = actual \/ c \in Range(unclaimed)
                  <=> c = W!cliente \/ c \in Range(unclaimed')
           /\ W!toma => actual = W!Nadie /\ W!estado = "READ"
           /\ ~W!toma => W!cliente = actual /\ W!estado = status
<1>0. W!TypeOK /\ Filas /\ W!Nadie \notin Clientes
  BY EspAssumption, FilasSon DEF W!WebInv, W!WebSuficiente
<1>1. CASE W!toma
  <2>1. /\ unclaimed # <<>> /\ status = "NONE" /\ actual = W!Nadie
        /\ W!cliente = Head(unclaimed) /\ W!estado = "READ"
        /\ unclaimed' = Tail(unclaimed)
    BY <1>0, <1>1 DEF W!toma, W!cliente, W!estado, Filas
  <2>2. unclaimed \in Seq(Clientes) /\ IsInjective(unclaimed)
    BY <1>0 DEF W!TypeOK, Filas
  <2>3. /\ Head(unclaimed) \in Clientes /\ Head(unclaimed) \in Range(unclaimed)
        /\ Tail(unclaimed) \in Seq(Clientes) /\ IsInjective(Tail(unclaimed))
        /\ Range(Tail(unclaimed)) = Range(unclaimed) \ {Head(unclaimed)}
    BY <2>1, <2>2, SaleUno
  <2>4. \A c \in Clientes : c # actual
    BY <1>0, <2>1
  <2>5. conexion[W!cliente] \in {"abierta", "cerrada"}
    BY <1>0, <2>1, <2>3 DEF Filas
  <2> QED  BY <1>1, <2>1, <2>3, <2>4, <2>5
<1>2. CASE ~W!toma
  <2>1. /\ W!cliente = actual /\ W!estado = status /\ unclaimed' = unclaimed
        /\ status # "NONE"
    BY <1>2 DEF W!cliente, W!estado
  <2>2. actual \in Clientes /\ actual \notin Range(unclaimed)
    BY <1>0, <2>1 DEF W!TypeOK, Filas
  <2> QED  BY <1>0, <1>2, <2>1, <2>2 DEF W!TypeOK, Filas
<1> QED  BY <1>1, <1>2

\* The four ways a call of handleClient() ends, when there is somebody: the
\* client is let go, unanswered or answered; it goes on being waited for; it is
\* answered and given time to close.
Suelta == /\ W!suelta(W!cliente)
          /\ atendidos' = atendidos \/ atendidos' = atendidos \cup {W!cliente}

Sigue == W!espera /\ atendidos' = atendidos

Responde == /\ status' = "CLOSE" /\ actual' = W!cliente
            /\ atendidos' = atendidos \cup {W!cliente}
            /\ datos' = [datos EXCEPT ![W!cliente] = "nada"]
            /\ conexion' = conexion

LEMMA Finales ==
    ASSUME W!WebInv, status # "NONE" \/ W!toma, NEW ahora,
           \/ W!Desconectado(ahora) \/ W!SinDatos(ahora) \/ W!NoEntiende(ahora)
           \/ W!Atiende(ahora) \/ W!EsperaCierre(ahora)
    PROVE  Suelta \/ Sigue \/ Responde
<1>1. CASE W!Desconectado(ahora) \/ W!NoEntiende(ahora)
  BY <1>1 DEF W!Desconectado, W!NoEntiende, Suelta
<1>2. CASE W!SinDatos(ahora)
  BY <1>2 DEF W!SinDatos, Suelta, Sigue
<1>3. CASE W!Atiende(ahora)
  BY <1>3 DEF W!Atiende, Suelta, Responde
<1>4. CASE W!EsperaCierre(ahora)
  <2>1. W!cliente = actual
    BY <1>4 DEF W!EsperaCierre, W!cliente, W!toma
  <2> QED  BY <1>4, <2>1 DEF W!EsperaCierre, Suelta, Sigue
<1> QED  BY <1>1, <1>2, <1>3, <1>4

\* Ranges of the clocks, whatever the call does.
LEMMA RelojTipo ==
    ASSUME W!TypeOK, NEW d \in Pasos, W!handleClient(d)
    PROVE  /\ reloj' \in 0..(Vuelta - 1) /\ statusChange' \in 0..(Vuelta - 1)
           /\ edad' \in 0..Vuelta
           /\ reloj' = (reloj + d) % Vuelta
<1>0. /\ d \in Nat /\ d < Vuelta /\ Vuelta \in Nat /\ Vuelta > 0
      /\ reloj \in 0..(Vuelta - 1) /\ statusChange \in 0..(Vuelta - 1)
      /\ edad \in 0..Vuelta
  BY EspAssumption DEF W!WebSuficiente, W!TypeOK
<1>1. reloj' = (reloj + d) % Vuelta
  BY DEF W!handleClient
<1>2. reloj' \in 0..(Vuelta - 1)
  BY <1>0, <1>1, Modulo
<1>3. statusChange' \in {statusChange, reloj'}
  BY <1>1
  DEF W!handleClient, W!Nada, W!Desconectado, W!SinDatos, W!NoEntiende, W!Atiende,
      W!EsperaCierre, W!inicio
<1>4. edad' \in {0, edad + d, Vuelta} /\ (edad' = edad + d => edad + d < Vuelta \/ edad' \in {0, Vuelta})
  BY DEF W!handleClient
<1>5. edad' \in 0..Vuelta
  BY <1>0, <1>4
<1> QED  BY <1>0, <1>1, <1>2, <1>3, <1>5

\* A call of handleClient() keeps the connections apart ...
LEMMA TurnosLlamada ==
    ASSUME W!WebInv, NEW d \in Pasos, W!handleClient(d)
    PROVE  W!TypeOK' /\ Filas'
<1>0. W!TypeOK /\ Filas /\ W!Nadie \notin Clientes
  BY EspAssumption, FilasSon DEF W!WebInv, W!WebSuficiente
<1>1. /\ reloj' \in 0..(Vuelta - 1) /\ statusChange' \in 0..(Vuelta - 1)
      /\ edad' \in 0..Vuelta
  BY <1>0, RelojTipo
<1>2. unclaimed' = IF W!toma THEN Tail(unclaimed) ELSE unclaimed
  BY DEF W!handleClient
<1>3. CASE W!Nada
  <2>1. /\ unclaimed' = unclaimed
        /\ UNCHANGED <<conexion, datos, status, actual, atendidos>>
    BY <1>2, <1>3 DEF W!Nada, W!toma
  <2> QED  BY <1>0, <1>1, <2>1 DEF W!TypeOK, Filas
<1>4. CASE ~W!Nada
  <2> DEFINE c == W!cliente
  <2>0. status # "NONE" \/ W!toma
    BY <1>4 DEF W!handleClient
  <2>1. /\ c \in Clientes /\ conexion[c] \in {"abierta", "cerrada"}
        /\ unclaimed' \in Seq(Clientes) /\ IsInjective(unclaimed')
        /\ c \notin Range(unclaimed')
        /\ \A x \in Clientes :
             x = actual \/ x \in Range(unclaimed) <=> x = c \/ x \in Range(unclaimed')
        /\ W!toma => actual = W!Nadie /\ W!estado = "READ"
        /\ ~W!toma => c = actual /\ W!estado = status
    BY <1>2, <2>0, TurnoDe
  <2>2. Suelta \/ Sigue \/ Responde
    BY <1>4, <2>0, Finales DEF W!handleClient
  <2>3. \A x \in Clientes : x # c => x # actual
    BY <1>0, <2>1
  <2> HIDE DEF c
  <2>4. CASE Suelta
    <3>1. /\ conexion' = [conexion EXCEPT ![c] = "soltada"]
          /\ datos' = [datos EXCEPT ![c] = "nada"]
          /\ status' = "NONE" /\ actual' = W!Nadie
          /\ atendidos' = atendidos \/ atendidos' = atendidos \cup {c}
      BY <2>4 DEF Suelta, W!suelta, c
    <3>2. W!TypeOK'
      BY <1>0, <1>1, <2>1, <3>1 DEF W!TypeOK
    <3>3. Range(unclaimed') \subseteq Clientes
      BY <2>1, RangeOfSeq
    <3>4. /\ conexion'[c] = "soltada"
          /\ \A x \in Clientes : x # c => conexion'[x] = conexion[x]
      <4>1. c \in Clientes
        BY <2>1
      <4> QED  BY <1>0, <3>1, <4>1 DEF W!TypeOK
    <3>5. Filas'
      <4>1. \A x \in Clientes : conexion'[x] \in {"abierta", "cerrada"}
                                  <=> x = actual' \/ x \in Range(unclaimed')
        BY <1>0, <2>1, <3>1, <3>4 DEF Filas
      <4>2. \A x \in atendidos' : conexion'[x] = "soltada"
        <5>1. atendidos \subseteq Clientes
          BY <1>0 DEF W!TypeOK
        <5>2. \A x \in atendidos : x # c => conexion'[x] = "soltada"
          BY <1>0, <2>3, <3>4, <5>1 DEF Filas
        <5> QED  BY <3>1, <3>4, <5>2
      <4>3. actual' \notin Range(unclaimed')
        BY <1>0, <3>1, <3>3
      <4> QED  BY <2>1, <3>1, <4>1, <4>2, <4>3 DEF Filas
    <3> QED  BY <3>2, <3>5
  <2>5. CASE Sigue \/ Responde
    <3>1. /\ conexion' = conexion /\ actual' = c
          /\ status' \in {"READ", "CLOSE"}
          /\ datos' = datos \/ datos' = [datos EXCEPT ![c] = "nada"]
          /\ atendidos' = atendidos \/ atendidos' = atendidos \cup {c}
      <4>1. W!estado \in {"READ", "CLOSE"}
        BY <1>0, <2>0, <2>1 DEF W!TypeOK
      <4> QED  BY <2>5, <4>1 DEF Sigue, Responde, W!espera, c
    <3>2. status' = "CLOSE" => c \in atendidos'
      <4>1. CASE Responde
        BY <4>1 DEF Responde, c
      <4>2. CASE Sigue
        BY <1>0, <2>1, <4>2 DEF Sigue, W!espera, Filas, c
      <4> QED  BY <2>5, <4>1, <4>2
    <3>3. W!TypeOK'
      BY <1>0, <1>1, <2>1, <3>1 DEF W!TypeOK
    <3>4. Filas'
      <4>1. \A x \in Clientes : conexion'[x] \in {"abierta", "cerrada"}
                                  <=> x = actual' \/ x \in Range(unclaimed')
        BY <1>0, <2>1, <3>1 DEF Filas
      <4>2. \A x \in atendidos' : x # c => conexion'[x] = "soltada"
        <5>1. atendidos \subseteq Clientes
          BY <1>0 DEF W!TypeOK
        <5> QED  BY <1>0, <2>3, <3>1, <5>1 DEF Filas
      <4>3. c # W!Nadie
        BY <1>0, <2>1
      <4> QED  BY <2>1, <3>1, <3>2, <4>1, <4>2, <4>3 DEF Filas
    <3> QED  BY <3>3, <3>4
  <2> QED  BY <2>2, <2>4, <2>5
<1> QED  BY <1>3, <1>4

\* The unsigned difference of two readings of millis() is the time between
\* them, for the client that is being waited for.
LEMMA TiempoReal ==
    ASSUME W!WebInv, NEW d \in Pasos, W!handleClient(d), status # "NONE"
    PROVE  /\ d \in Nat /\ edad \in Nat /\ edad + d < Vuelta
           /\ (reloj' - statusChange) % Vuelta = edad + d
           /\ (reloj' - reloj) % Vuelta = d
<1>0. /\ d \in Nat /\ d < Vuelta /\ Vuelta \in Nat /\ DataWait \in Nat /\ CloseWait \in Nat
      /\ reloj \in 0..(Vuelta - 1) /\ statusChange \in 0..(Vuelta - 1)
      /\ edad \in Nat /\ DataWait + d < Vuelta /\ CloseWait + d < Vuelta
  BY EspAssumption DEF W!WebSuficiente, W!WebInv, W!TypeOK
<1>1. edad = (reloj - statusChange) % Vuelta
  BY DEF W!WebInv, W!Limites
<1>2. edad <= DataWait \/ edad <= CloseWait
  BY DEF W!WebInv, W!Limites, W!TypeOK
<1>3. edad + d < Vuelta
  BY <1>0, <1>2
<1>4. reloj' = (reloj + d) % Vuelta
  BY DEF W!handleClient
<1> DEFINE t == Lugar(Vuelta, reloj, d + 1)
<1>5. /\ t = (reloj + d) % Vuelta /\ Largo(Vuelta, reloj, t) = d
      /\ Largo(Vuelta, statusChange, reloj) + d < Vuelta =>
           Largo(Vuelta, statusChange, t) = Largo(Vuelta, statusChange, reloj) + d
  BY <1>0, Avanza
<1> HIDE DEF t
<1>6. (reloj' - reloj) % Vuelta = d
  BY <1>4, <1>5 DEF Largo
<1>7. (reloj' - statusChange) % Vuelta = edad + d
  <2>1. Largo(Vuelta, statusChange, reloj) = edad
    BY <1>1 DEF Largo
  <2>2. Largo(Vuelta, statusChange, t) = edad + d
    BY <1>3, <1>5, <2>1
  <2> QED  BY <1>4, <1>5, <2>2 DEF Largo
<1> QED  BY <1>0, <1>3, <1>6, <1>7

\* ... and none longer than its limit.
LEMMA LimitesLlamada ==
    ASSUME W!WebInv, NEW d \in Pasos, W!handleClient(d)
    PROVE  W!Limites'
<1>0. W!TypeOK /\ Filas /\ W!Limites
  BY FilasSon DEF W!WebInv
<1>a. /\ Vuelta \in Nat /\ Vuelta > 0 /\ DataWait \in Nat /\ CloseWait \in Nat
      /\ reloj' \in 0..(Vuelta - 1)
  BY <1>0, EspAssumption, RelojTipo DEF W!WebSuficiente
<1>b. 0 % Vuelta = 0 /\ reloj' - reloj' = 0
  <2>1. Vuelta \in Nat /\ Vuelta > 0 /\ reloj' \in Int
    BY <1>a
  <2>2. 0 % Vuelta = 0
    BY <2>1
  <2>3. reloj' - reloj' = 0
    <3>1. \A x \in Int : x - x = 0
      OBVIOUS
    <3> QED  BY <2>1, <3>1, Zenon
  <2> QED  BY <2>2, <2>3, Zenon
<1> DEFINE ahora == (reloj + d) % Vuelta
<1>c. reloj' = ahora
  BY DEF W!handleClient
<1>d. /\ status' = "NONE" \/ status' # status => edad' = 0
      /\ status' = status /\ status' # "NONE" =>
           edad' = IF edad + d < Vuelta THEN edad + d ELSE Vuelta
  BY DEF W!handleClient
<1>e. W!Nada \/ W!Desconectado(ahora) \/ W!SinDatos(ahora) \/ W!NoEntiende(ahora)
        \/ W!Atiende(ahora) \/ W!EsperaCierre(ahora)
  BY DEF W!handleClient
<1> HIDE DEF ahora
<1>1. CASE status' = "NONE"
  BY <1>1 DEF W!Limites
<1>2. CASE status' # "NONE" /\ status' # status
  <2>1. statusChange' = reloj'
    <3>1. CASE W!SinDatos(ahora)
      BY <1>2, <1>c, <3>1 DEF W!SinDatos, W!suelta, W!espera, W!estado, W!inicio
    <3>2. CASE W!Atiende(ahora)
      BY <1>2, <1>c, <3>2 DEF W!Atiende, W!suelta
    <3>3. ~W!Nada /\ ~W!Desconectado(ahora) /\ ~W!NoEntiende(ahora)
            /\ ~W!EsperaCierre(ahora)
      BY <1>2
      DEF W!Nada, W!Desconectado, W!NoEntiende, W!EsperaCierre, W!suelta, W!espera,
          W!estado, W!toma
    <3> QED  BY <1>e, <3>1, <3>2, <3>3
  <2>2. edad' = 0 /\ (reloj' - statusChange') % Vuelta = 0
    BY <1>2, <1>b, <1>d, <2>1
  <2> QED  BY <1>a, <2>2 DEF W!Limites
<1>3. CASE status' # "NONE" /\ status' = status
  <2>1. /\ d \in Nat /\ edad \in Nat /\ edad + d < Vuelta
        /\ (reloj' - statusChange) % Vuelta = edad + d
    BY <1>3, TiempoReal
  <2>2. edad' = edad + d
    BY <1>3, <1>d, <2>1
  <2>3. W!inicio(ahora) = statusChange /\ ~W!toma /\ W!estado = status
    BY <1>3 DEF W!inicio, W!toma, W!estado
  <2>4. W!transcurrido(ahora) = edad + d
    BY <1>c, <2>1, <2>3 DEF W!transcurrido
  <2>5. /\ statusChange' = statusChange
        /\ \/ W!SinDatos(ahora) /\ ~(W!transcurrido(ahora) > DataWait) /\ status = "READ"
           \/ W!EsperaCierre(ahora) /\ ~(W!transcurrido(ahora) > CloseWait) /\ status = "CLOSE"
    <3>1. CASE W!SinDatos(ahora)
      BY <1>3, <2>3, <3>1 DEF W!SinDatos, W!suelta
    <3>2. CASE W!EsperaCierre(ahora)
      BY <1>3, <3>2 DEF W!EsperaCierre, W!suelta
    <3>3. ~W!Nada /\ ~W!Desconectado(ahora) /\ ~W!NoEntiende(ahora) /\ ~W!Atiende(ahora)
      BY <1>3, <2>3
      DEF W!Nada, W!Desconectado, W!NoEntiende, W!Atiende, W!suelta
    <3> QED  BY <1>e, <3>1, <3>2, <3>3
  <2>6. edad' = (reloj' - statusChange') % Vuelta
    BY <2>1, <2>2, <2>5
  <2>7. status' = "READ" => edad' <= DataWait
    BY <1>3, <1>a, <2>1, <2>2, <2>4, <2>5
  <2>8. status' = "CLOSE" => edad' <= CloseWait
    BY <1>3, <1>a, <2>1, <2>2, <2>4, <2>5
  <2> QED  BY <2>6, <2>7, <2>8 DEF W!Limites
<1> QED  BY <1>1, <1>2, <1>3

\* What the clients do keeps the invariant too.
LEMMA ClientePaso ==
    ASSUME W!WebInv, NEW c \in Clientes, W!_accept(c) \/ W!_recv(c) \/ W!Cierra(c)
    PROVE  W!WebInv'
<1>0. W!TypeOK /\ Filas /\ W!Limites /\ W!Nadie \notin Clientes
  BY EspAssumption, FilasSon DEF W!WebInv, W!WebSuficiente
<1>1. CASE W!_accept(c)
  <2>1. /\ conexion[c] = "fuera"
        /\ conexion' = [conexion EXCEPT ![c] = "abierta"]
        /\ unclaimed' = Append(unclaimed, c)
        /\ UNCHANGED <<datos, status, actual, statusChange, reloj, edad, atendidos>>
    BY <1>1 DEF W!_accept
  <2>2. c # actual /\ c \notin Range(unclaimed)
    BY <1>0, <2>1 DEF Filas
  <2>3. /\ unclaimed' \in Seq(Clientes) /\ IsInjective(unclaimed')
        /\ Range(unclaimed') = Range(unclaimed) \cup {c}
    BY <1>0, <2>1, <2>2, EntraUno DEF W!TypeOK, Filas
  <2>4. W!TypeOK'
    BY <1>0, <2>1, <2>3 DEF W!TypeOK
  <2>5. /\ conexion'[c] = "abierta"
        /\ \A x \in Clientes : x # c => conexion'[x] = conexion[x]
    BY <1>0, <2>1 DEF W!TypeOK
  <2>6. c \notin atendidos
    BY <1>0, <2>1, <2>2 DEF Filas
  <2>7. atendidos \subseteq Clientes
    BY <1>0 DEF W!TypeOK
  <2>8. Filas'
    <3>1. \A x \in Clientes : conexion'[x] \in {"abierta", "cerrada"}
                                <=> x = actual' \/ x \in Range(unclaimed')
      BY <1>0, <2>1, <2>3, <2>5 DEF Filas
    <3>2. \A x \in atendidos' : x # actual' => conexion'[x] = "soltada"
      BY <1>0, <2>1, <2>5, <2>6, <2>7 DEF Filas
    <3>3. actual' \notin Range(unclaimed')
      BY <1>0, <2>1, <2>2, <2>3 DEF Filas
    <3> QED  BY <1>0, <2>1, <2>3, <3>1, <3>2, <3>3 DEF Filas
  <2>9. W!Limites'
    BY <1>0, <2>1 DEF W!Limites
  <2> QED  BY <2>4, <2>8, <2>9, FilasSon DEF W!WebInv
<1>2. CASE W!_recv(c)
  <2>1. /\ UNCHANGED <<conexion, unclaimed, status, actual, statusChange, reloj, edad,
                       atendidos>>
        /\ \E e \in {"parte", "pedido"} : datos' = [datos EXCEPT ![c] = e]
    BY <1>2 DEF W!_recv
  <2>2. W!TypeOK'
    BY <1>0, <2>1 DEF W!TypeOK
  <2>3. Filas' /\ W!Limites'
    BY <1>0, <2>1 DEF Filas, W!Limites
  <2> QED  BY <2>2, <2>3, FilasSon DEF W!WebInv
<1>3. CASE W!Cierra(c)
  <2>1. /\ conexion[c] = "abierta"
        /\ conexion' = [conexion EXCEPT ![c] = "cerrada"]
        /\ UNCHANGED <<datos, unclaimed, status, actual, statusChange, reloj, edad,
                       atendidos>>
    BY <1>3 DEF W!Cierra
  <2>2. W!TypeOK' /\ W!Limites'
    BY <1>0, <2>1 DEF W!TypeOK, W!Limites
  <2>3. /\ conexion'[c] = "cerrada"
        /\ \A x \in Clientes : x # c => conexion'[x] = conexion[x]
    BY <1>0, <2>1 DEF W!TypeOK
  <2>4. atendidos \subseteq Clientes
    BY <1>0 DEF W!TypeOK
  <2>5. \A x \in atendidos' : x # actual' => conexion'[x] = "soltada"
    BY <1>0, <2>1, <2>3, <2>4 DEF Filas
  <2>6. \A x \in Clientes : conexion'[x] \in {"abierta", "cerrada"}
                              <=> x = actual' \/ x \in Range(unclaimed')
    BY <1>0, <2>1, <2>3 DEF Filas
  <2>7. Filas'
    BY <1>0, <2>1, <2>5, <2>6 DEF Filas
  <2> QED  BY <2>2, <2>7, FilasSon DEF W!WebInv
<1> QED  BY <1>1, <1>2, <1>3

LEMMA WebPaso == W!WebInv /\ [W!Next]_wvars => W!WebInv'
<1> SUFFICES ASSUME W!WebInv, [W!Next]_wvars PROVE W!WebInv'
  OBVIOUS
<1>1. ASSUME NEW d \in Pasos, W!handleClient(d) PROVE W!WebInv'
  BY <1>1, TurnosLlamada, LimitesLlamada, FilasSon DEF W!WebInv
<1>2. CASE UNCHANGED wvars
  <2>1. W!TypeOK' /\ W!Limites'
    BY <1>2 DEF wvars, W!WebInv, W!TypeOK, W!Limites
  <2>2. Filas'
    BY <1>2, FilasSon DEF wvars, W!WebInv, Filas
  <2> QED  BY <2>1, <2>2, FilasSon DEF W!WebInv
<1> QED  BY <1>1, <1>2, ClientePaso DEF W!Next, W!Servidor

LEMMA WebInicio == W!Init => W!WebInv
<1> SUFFICES ASSUME W!Init PROVE W!WebInv
  OBVIOUS
<1>0. W!Nadie \notin Clientes /\ Vuelta \in Nat /\ Vuelta > 0
  <2>1. PICK d \in Pasos : d \in Nat /\ DataWait + d < Vuelta
    BY EspAssumption DEF W!WebSuficiente
  <2> QED  BY <2>1, EspAssumption DEF W!WebSuficiente
<1>1. W!TypeOK
  <2>1. 0 \in 0..(Vuelta - 1) /\ 0 \in 0..Vuelta /\ <<>> \in Seq(Clientes)
    BY <1>0, EmptySeq
  <2> QED  BY <2>1 DEF W!Init, W!TypeOK
<1>2. IsInjective(unclaimed) /\ Range(unclaimed) = {}
  <2>1. unclaimed = <<>> /\ DOMAIN unclaimed = {}
    BY DEF W!Init
  <2> QED  BY <2>1, RangoVacio DEF IsInjective
<1>3. Filas
  BY <1>0, <1>2 DEF W!Init, Filas
<1>4. W!Limites
  BY DEF W!Init, W!Limites
<1> QED  BY <1>1, <1>3, <1>4, FilasSon DEF W!WebInv

\* Connections in the list, the current one and those let go are kept apart, none
\* longer than its limit although millis() comes round, and each request is
\* handled once, for any number of clients.
THEOREM WebSiempre == W!Spec => []W!WebInv
<1>1. W!Init => W!WebInv
  BY WebInicio
<1>2. W!WebInv /\ [W!Next]_W!vars => W!WebInv'
  BY WebPaso DEF wvars, W!vars
<1> QED  BY <1>1, <1>2, PTL DEF W!Spec

\* handleClient() lets go of a client it did not answer only for a reason.
LEMMA DescartePaso ==
    ASSUME W!WebInv, [W!Next]_wvars, NEW c \in Clientes,
           conexion[c] # "soltada", conexion'[c] = "soltada", c \notin atendidos'
    PROVE  \/ conexion[c] = "cerrada" /\ datos[c] = "nada"
           \/ datos[c] = "parte"
           \/ datos[c] = "nada" /\ edad + ((reloj' - reloj) % Vuelta) > DataWait
<1>0. W!TypeOK /\ Filas /\ W!Limites
  BY FilasSon DEF W!WebInv
<1>1. PICK d \in Pasos : W!handleClient(d)
  BY <1>0
  DEF W!Next, W!Servidor, W!_accept, W!_recv, W!Cierra, W!TypeOK, wvars
<1> DEFINE ahora == (reloj + d) % Vuelta
<1>2. /\ status # "NONE" \/ W!toma
      /\ \/ W!Desconectado(ahora) \/ W!SinDatos(ahora) \/ W!NoEntiende(ahora)
         \/ W!Atiende(ahora) \/ W!EsperaCierre(ahora)
  BY <1>1 DEF W!handleClient, W!Nada
<1>3. reloj' = ahora
  BY <1>1 DEF W!handleClient
<1>4. conexion[W!cliente] \in {"abierta", "cerrada"} /\ W!cliente \in Clientes
  BY <1>1, <1>2, TurnoDe DEF W!handleClient
<1> HIDE DEF ahora
<1>5. CASE W!Desconectado(ahora)
  <2>1. c = W!cliente
    BY <1>0, <1>5 DEF W!Desconectado, W!suelta, W!TypeOK
  <2> QED  BY <1>4, <1>5, <2>1 DEF W!Desconectado, W!connected, W!available
<1>6. CASE W!NoEntiende(ahora)
  <2>1. c = W!cliente
    BY <1>0, <1>6 DEF W!NoEntiende, W!suelta, W!TypeOK
  <2> QED  BY <1>6, <2>1 DEF W!NoEntiende
<1>7. CASE W!Atiende(ahora)
  <2>1. c = W!cliente
    BY <1>0, <1>7 DEF W!Atiende, W!suelta, W!TypeOK
  <2> QED  BY <1>7, <2>1 DEF W!Atiende
<1>8. CASE W!EsperaCierre(ahora)
  <2>1. c = actual
    BY <1>0, <1>8 DEF W!EsperaCierre, W!suelta, W!espera, W!TypeOK
  <2> QED  BY <1>0, <1>8, <2>1 DEF W!EsperaCierre, Filas
<1>9. CASE W!SinDatos(ahora)
  <2>1. c = W!cliente /\ datos[c] = "nada" /\ W!transcurrido(ahora) > DataWait
    <3>1. W!transcurrido(ahora) > DataWait /\ W!suelta(W!cliente)
      BY <1>9 DEF W!SinDatos, W!espera
    <3>2. c = W!cliente
      BY <1>0, <3>1 DEF W!suelta, W!TypeOK
    <3> QED  BY <1>9, <3>1, <3>2 DEF W!SinDatos, W!available
  <2>2. CASE W!toma
    <3>1. DataWait \in Nat /\ Vuelta \in Nat /\ Vuelta > 0 /\ ahora \in 0..(Vuelta - 1)
      BY <1>0, <1>1, <1>3, RelojTipo, EspAssumption DEF W!WebSuficiente
    <3>2. W!transcurrido(ahora) = 0
      <4>1. ahora - ahora = 0 /\ 0 % Vuelta = 0
        BY <3>1, Modulo
      <4> QED  BY <2>2, <4>1 DEF W!transcurrido, W!inicio
    <3> QED  BY <2>1, <3>1, <3>2
  <2>3. CASE ~W!toma
    <3>1. /\ (reloj' - statusChange) % Vuelta = edad + d
          /\ (reloj' - reloj) % Vuelta = d
      BY <1>1, <1>2, <2>3, TiempoReal
    <3>2. W!transcurrido(ahora) = edad + d
      BY <1>3, <2>3, <3>1 DEF W!transcurrido, W!inicio
    <3> QED  BY <2>1, <3>1, <3>2
  <2> QED  BY <2>2, <2>3
<1> QED  BY <1>2, <1>5, <1>6, <1>7, <1>8, <1>9

\* The server gives up a client it did not answer only if that client left
\* without a word, sent no request, or was silent for longer than DataWait.
THEOREM WebDescarteJustificado == W!Spec => W!DescarteJustificado
<1> DEFINE Justo ==
      \A c \in Clientes :
         conexion[c] # "soltada" /\ conexion'[c] = "soltada" /\ c \notin atendidos'
           => \/ conexion[c] = "cerrada" /\ datos[c] = "nada"
              \/ datos[c] = "parte"
              \/ datos[c] = "nada" /\ edad + ((reloj' - reloj) % Vuelta) > DataWait
<1>1. W!WebInv /\ [W!Next]_W!vars => [Justo]_W!vars
  BY DescartePaso DEF wvars, W!vars
<1>2. W!Spec => []W!WebInv
  BY WebSiempre
<1> QED  BY <1>1, <1>2, PTL DEF W!Spec, W!DescarteJustificado

-----------------------------------------------------------------------------
(* The three together *)

\* Each part of the composition behaves as its own specification.
LEMMA EspPartes == EspSpec => Spec /\ U!Spec /\ W!Spec
<1>1. EspInit => Init /\ U!Init /\ W!Init
  BY DEF EspInit
<1>2. [EspNext]_todo => [Next]_vars
  BY DEF EspNext, Helper, EnUart, EnWeb, todo
<1>3. [EspNext]_todo => [U!Next]_U!vars
  BY DEF EspNext, Helper, EnUart, EnWeb, todo, uvars, U!vars
<1>4. [EspNext]_todo => [W!Next]_W!vars
  BY DEF EspNext, Helper, EnUart, EnWeb, todo, wvars, W!vars
<1> QED  BY <1>1, <1>2, <1>3, <1>4, PTL DEF EspSpec, Spec, U!Spec, W!Spec

\* Serial and the HTTP server in every state, for every size of the buffers,
\* every limit of time and any number of clients.
THEOREM PlataformaSiempre == EspSpec => []PlataformaInv
<1>1. U!UartInv /\ W!WebInv => PlataformaInv
  BY DEF PlataformaInv
<1> QED  BY <1>1, EspPartes, UartSiempre, WebSiempre, PTL

\* The ring buffer behaves as a bounded queue that loses only what finds no room.
THEOREM ColaSiempre == EspSpec => UartEsCola
<1>1. U!F!Spec => UartEsCola
  BY DEF UartEsCola
<1> QED  BY <1>1, EspPartes, UartImplementaCola, PTL

\* Only a client that left, sent no request or was silent is given up.
THEOREM DescarteSiempreJustificado == EspSpec => DescarteJustificado
<1>1. W!DescarteJustificado => DescarteJustificado
  BY DEF DescarteJustificado
<1> QED  BY <1>1, EspPartes, WebDescarteJustificado, PTL

=============================================================================
