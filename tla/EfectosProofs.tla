--------------------------- MODULE EfectosProofs -----------------------------
(***************************************************************************)
(* Theorems about the props of module Efectos, for every value of their    *)
(* limits: the invariants of portal, lamp, picture, thunder and reader,    *)
(* and that lamp, picture and thunder implement the effect of Efecto.      *)
(***************************************************************************)
EXTENDS Efectos, TLAPS

todos == <<equipo, vars, vvars, cvars, tvars, rvars>>

-----------------------------------------------------------------------------
(* The portal *)

\* setup() establishes the invariant.
LEMMA PortalInicio == Init => PortalInv
<1> USE PulsoAssumption
<1> SUFFICES ASSUME Init PROVE PortalInv
  OBVIOUS
<1>1. tiempoPulso \in (-IntMax - 1)..IntMax /\ mostrados \in 0..TotalPulso
  BY DEF Init
<1>2. TypeOK
  BY <1>1 DEF Init, TypeOK, Fases, Figuras
<1> QED
  BY <1>2 DEF Init, PortalInv, ApagadoNegro, PulsoEntero

\* Each request keeps it: what hides the pulse does not touch its count, what
\* touches its count marks it as cut off.
LEMMA PortalPedido == PortalInv /\ handleClient => PortalInv'
<1> USE PulsoAssumption
<1> SUFFICES ASSUME PortalInv, handleClient PROVE PortalInv'
  OBVIOUS
<1> USE DEF PortalInv, TypeOK, ApagadoNegro, PulsoEntero, Fases, Figuras
<1>1. CASE pedido' = "reset" /\ handleReset
  BY <1>1 DEF handleClient, handleReset
<1>2. CASE pedido' = "manual" /\ handleManual
  BY <1>2 DEF handleClient, handleManual
<1>3. CASE pedido' = "on" /\ muestra("start")
  BY <1>3 DEF handleClient, muestra
<1>4. CASE pedido' = "red" /\ muestra("red")
  BY <1>4 DEF handleClient, muestra
<1>5. CASE pedido' = "cold" /\ muestra("cold")
  BY <1>5 DEF handleClient, muestra
<1>6. CASE pedido' = "off" /\ handleOff
  BY <1>6 DEF handleClient, handleOff
<1>7. CASE pedido' = "shutdown" /\ handleShutDown
  <2>1. tiempoPulso' \in (-IntMax - 1)..IntMax
    BY <1>7 DEF handleShutDown
  <2> QED
    BY <1>7, <2>1 DEF handleClient, handleShutDown
<1>8. CASE pedido' = "pulso" /\ handlePulso
  <2>1. /\ tiempoPulso' \in (-IntMax - 1)..IntMax /\ mostrados' \in 0..TotalPulso
        /\ tiempoPulso' > 0 /\ tiempoPulso' + mostrados' = TotalPulso
    BY <1>8 DEF handlePulso
  <2>2. pulso' /\ ~cortado'
    BY <1>8 DEF handlePulso
  <2> QED
    BY <1>8, <2>1, <2>2 DEF handleClient, handlePulso
<1>9. CASE /\ pedido' = "nada"
           /\ UNCHANGED <<state, fase, pulso, tiempoPulso, tira, mostrados,
                          cortado>>
  BY <1>9 DEF handleClient
<1> QED
  BY <1>1, <1>2, <1>3, <1>4, <1>5, <1>6, <1>7, <1>8, <1>9 DEF handleClient

\* A pass of the pulse moves one from what is left to what was shown.
LEMMA PortalPulso ==
    ASSUME PortalInv, pc = "dibujo", state = 1, pulso, updatePulso,
           pc' = "http", UNCHANGED <<state, fase, pedido>>
    PROVE  PortalInv'
<1> USE PulsoAssumption
<1>1. tiempoPulso' \in (-IntMax - 1)..IntMax
  BY DEF PortalInv, TypeOK, updatePulso, Decrement
<1>2. pulso' <=> tiempoPulso' # 0
  BY Zenon DEF updatePulso
<1>3. pulso' \in BOOLEAN
  BY Zenon DEF updatePulso
<1>4. mostrados' \in 0..TotalPulso
  BY DEF PortalInv, TypeOK, updatePulso
<1>5. TypeOK'
  BY <1>1, <1>3, <1>4 DEF PortalInv, TypeOK, updatePulso, Figuras
<1>6. ASSUME ~cortado'
      PROVE  tiempoPulso' >= 0 /\ tiempoPulso' + mostrados' = TotalPulso
  <2>1. tiempoPulso > 0 /\ tiempoPulso + mostrados = TotalPulso
    BY <1>6 DEF PortalInv, PulsoEntero, updatePulso
  <2>2. tiempoPulso' = tiempoPulso - 1 /\ mostrados' = mostrados + 1
    BY <2>1 DEF PortalInv, TypeOK, updatePulso, Decrement
  <2> QED
    BY <2>1, <2>2 DEF PortalInv, TypeOK
<1>7. PulsoEntero'
  BY <1>1, <1>2, <1>6 DEF PulsoEntero
<1> QED
  BY <1>5, <1>7 DEF PortalInv, ApagadoNegro

\* Every step keeps the invariant.
LEMMA PortalPasoInv == PortalInv /\ [Next]_vars => PortalInv'
<1> USE PulsoAssumption
<1> SUFFICES ASSUME PortalInv, [Next]_vars PROVE PortalInv'
  OBVIOUS
<1>1. CASE handleClient
  BY <1>1, PortalPedido
<1>2. CASE Dibujo
  <2>1. CASE state = 1 /\ SinFigura /\ pulso /\ updatePulso
    BY <1>2, <2>1, PortalPulso DEF Dibujo
  <2>2. CASE \/ state = 1 /\ dibuja("start", "rueda")
             \/ state = 1 /\ dibuja("red", "rojo")
             \/ state = 1 /\ dibuja("cold", "frio")
    BY <1>2, <2>2 DEF Dibujo, dibuja, PortalInv, TypeOK, ApagadoNegro,
                      PulsoEntero, Figuras
  <2>3. CASE UNCHANGED <<pulso, tiempoPulso, tira, mostrados, cortado>>
    BY <1>2, <2>3 DEF Dibujo, PortalInv, TypeOK, ApagadoNegro, PulsoEntero
  <2> QED
    BY <1>2, <2>1, <2>2, <2>3 DEF Dibujo
<1>3. CASE UNCHANGED vars
  BY <1>3 DEF vars, PortalInv, TypeOK, ApagadoNegro, PulsoEntero
<1> QED
  BY <1>1, <1>2, <1>3 DEF Next

\* The portal's state is always consistent.
THEOREM PortalSeguro == Spec => []PortalInv
<1> QED
  BY PortalInicio, PortalPasoInv, PTL DEF Spec

\* However it is interrupted and resumed, a pulse that was not cut off is shown
\* for TotalPulso passes, no more and no less.
THEOREM PulsoSiempreEntero == Spec => []PulsoEntero
<1>1. PortalInv => PulsoEntero
  BY DEF PortalInv
<1> QED
  BY <1>1, PortalSeguro, PTL

\* Among the other props the portal behaves as its own specification.
LEMMA PortalEntreOtros == EfectosSpec => Spec
<1>1. EfectosInit => Init
  BY DEF EfectosInit
<1>2. [EfectosNext]_todos => [Next]_vars
  BY DEF EfectosNext, PortalPaso, VeladorPaso, CuadroPaso, TruenoPaso, RfidPaso, todos
<1> QED  BY <1>1, <1>2, PTL DEF EfectosSpec, Spec, todos

-----------------------------------------------------------------------------
(* The bedside lamp *)

\* The ranges random() draws the countdown of the lamp from.
LEMMA Sorteos ==
    /\ V!random(TiempoBuzz, TiempoBuzz * 2) \subseteq 1..(TiempoBuzz * 2 - 1)
    /\ V!random(TiempoBuzz \div 2, TiempoBuzz * 2) \subseteq 1..(TiempoBuzz * 2 - 1)
    /\ V!random(TiempoBuzz \div 4, TiempoBuzz) \subseteq 1..(TiempoBuzz * 2 - 1)
BY EfectosAssumption DEF V!BuzzSuficiente, V!random

\* A pass of the lamp, or of another controller, keeps its invariant.
LEMMA VeladorPasoInv == VeladorInv /\ [EfectosNext]_todos => VeladorInv'
<1> SUFFICES ASSUME V!VeladorInv, [EfectosNext]_todos PROVE V!VeladorInv'
  BY DEF VeladorInv
<1>1. CASE V!handleClient
  <2>0. buzzCounter' \in 0..(TiempoBuzz * 2 - 1)
    <3>1. buzzCounter' = buzzCounter \/ buzzCounter' \in 1..(TiempoBuzz * 2 - 1)
      BY <1>1, Sorteos
      DEF V!handleClient, V!handleReset, V!handleBuzz, V!handleOn, V!handleOff
    <3> QED  BY <3>1 DEF V!VeladorInv, V!TypeOK
  <2>1. V!TypeOK'
    BY <1>1, <2>0
    DEF V!VeladorInv, V!TypeOK, V!handleClient, V!handleReset, V!handleBuzz,
        V!handleOn, V!handleOff
  <2>2. V!TonoAcotado' /\ V!LuzFiel'
    BY <1>1, Sorteos
    DEF V!VeladorInv, V!TypeOK, V!TonoAcotado, V!LuzFiel, V!handleClient,
        V!handleReset, V!handleBuzz, V!handleOn, V!handleOff
  <2> QED  BY <2>1, <2>2 DEF V!VeladorInv
<1>2. CASE V!Cuerpo
  <2>1. TiempoBuzz \in Nat /\ buzzCounter \in 0..(TiempoBuzz * 2 - 1)
    BY EfectosAssumption DEF V!BuzzSuficiente, V!VeladorInv, V!TypeOK
  <2>2. buzzCounter' \in 0..(TiempoBuzz * 2 - 1)
    BY <1>2, <2>1 DEF V!Cuerpo, V!updateBuzz, V!reposa
  <2>3. V!TypeOK'
    BY <1>2, <2>2
    DEF V!VeladorInv, V!TypeOK, V!Cuerpo, V!updateBuzz, V!reposa
  <2>4. V!TonoAcotado' /\ V!LuzFiel'
    BY <1>2, <2>1
    DEF V!VeladorInv, V!TonoAcotado, V!LuzFiel, V!Cuerpo, V!updateBuzz, V!reposa
  <2> QED  BY <2>3, <2>4 DEF V!VeladorInv
<1>3. CASE UNCHANGED vvars
  BY <1>3 DEF vvars, V!VeladorInv, V!TypeOK, V!TonoAcotado, V!LuzFiel
<1> QED
  BY <1>1, <1>2, <1>3
  DEF EfectosNext, PortalPaso, VeladorPaso, CuadroPaso, TruenoPaso, RfidPaso,
      todos, V!Next

\* Whatever requests restart, shorten or lengthen the countdown of the lamp, it
\* does not pass 0, the buzzer does not outlive it, and the lamp at rest shows
\* what was asked for.
THEOREM VeladorSeguro == EfectosSpec => []VeladorInv
<1>1. EfectosInit => VeladorInv
  <2>1. 0 \in 0..(TiempoBuzz * 2 - 1)
    BY EfectosAssumption DEF V!BuzzSuficiente
  <2>2. V!Init => V!TypeOK
    BY <2>1 DEF V!Init, V!TypeOK
  <2>3. V!Init => V!TonoAcotado /\ V!LuzFiel
    BY DEF V!Init, V!TonoAcotado, V!LuzFiel
  <2> QED  BY <2>2, <2>3 DEF EfectosInit, VeladorInv, V!VeladorInv
<1> QED
  BY <1>1, VeladorPasoInv, PTL DEF EfectosSpec, todos

-----------------------------------------------------------------------------
(* The picture that falls *)

\* A request or a pass of the picture keeps its invariant.
LEMMA CuadroPasoInv == CuadroInv /\ [EfectosNext]_todos => CuadroInv'
<1> SUFFICES ASSUME C!CuadroInv, [EfectosNext]_todos PROVE C!CuadroInv'
  BY DEF CuadroInv
<1>0. /\ Repeticiones \in Nat /\ Repeticiones > 0
      /\ currentRepeticiones \in 0..Repeticiones /\ golpes \in 0..Repeticiones
  BY EfectosAssumption
  DEF C!RepeticionesSuficientes, C!CuadroInv, C!TypeOK
<1>1. CASE C!handleClient
  <2>0. currentRepeticiones' \in 0..Repeticiones /\ golpes' \in 0..Repeticiones
    BY <1>0, <1>1 DEF C!handleClient, C!handleReset, C!handleManual
  <2>1. C!TypeOK'
    BY <1>1, <2>0
    DEF C!CuadroInv, C!TypeOK, C!handleClient, C!handleReset, C!handleManual
  <2>2. C!GolpesContados'
    BY <1>0, <1>1
    DEF C!CuadroInv, C!TypeOK, C!GolpesContados, C!Uno, C!handleClient,
        C!handleReset, C!handleManual
  <2>3. C!SolenoideSuelto'
    BY <1>1
    DEF C!CuadroInv, C!SolenoideSuelto, C!handleClient, C!handleReset,
        C!handleManual
  <2> QED  BY <2>1, <2>2, <2>3 DEF C!CuadroInv
<1>2. CASE C!Cuerpo
  <2>1. currentRepeticiones' \in 0..Repeticiones /\ golpes' \in 0..Repeticiones
    BY <1>0, <1>2
    DEF C!CuadroInv, C!GolpesContados, C!Uno, C!Cuerpo, C!Golpe, C!handleReset
  <2>2. C!TypeOK'
    BY <1>2, <2>1
    DEF C!CuadroInv, C!TypeOK, C!Cuerpo, C!Golpe, C!handleReset
  <2>3. C!GolpesContados'
    <3>1. CASE ~falling
      BY <1>0, <1>2, <3>1
      DEF C!CuadroInv, C!GolpesContados, C!Uno, C!Cuerpo, C!Golpe
    <3>2. CASE falling /\ adentro
      <4>1. /\ golpes + currentRepeticiones = Repeticiones + 1
            /\ currentRepeticiones > 0
        BY <1>0, <3>2 DEF C!CuadroInv, C!GolpesContados, C!Uno
      <4>2. golpes' = golpes
        BY <1>2, <3>2 DEF C!Cuerpo, C!Golpe
      <4>3. CASE currentRepeticiones - 1 = 0
        <5>1. falling' = FALSE /\ currentRepeticiones' = 0
          BY <1>2, <3>2, <4>3 DEF C!Cuerpo, C!Golpe, C!handleReset
        <5>2. ~adentro'
          BY <1>2, <3>2, <4>3 DEF C!Cuerpo, C!Golpe, C!handleReset
        <5> QED  BY <5>1, <5>2 DEF C!GolpesContados
      <4>4. CASE currentRepeticiones - 1 # 0
        <5>1. /\ falling' = falling /\ adentro' = FALSE
              /\ currentRepeticiones' = currentRepeticiones - 1
          BY <1>2, <3>2, <4>4 DEF C!Cuerpo, C!Golpe
        <5> QED
          BY <1>0, <3>2, <4>1, <4>2, <4>4, <5>1 DEF C!GolpesContados, C!Uno
      <4> QED  BY <4>3, <4>4
    <3>3. CASE falling /\ ~adentro
      <4>1. /\ golpes + currentRepeticiones = Repeticiones
            /\ currentRepeticiones > 0
        BY <1>0, <3>3 DEF C!CuadroInv, C!GolpesContados, C!Uno
      <4>2. currentRepeticiones # 0
        BY <1>0, <4>1
      <4>3. /\ golpes' = golpes + 1 /\ falling' = falling /\ adentro'
            /\ currentRepeticiones' = currentRepeticiones
        BY <1>2, <3>3, <4>2, Zenon DEF C!Cuerpo, C!Golpe
      <4> QED  BY <1>0, <3>3, <4>1, <4>3 DEF C!GolpesContados, C!Uno
    <3> QED  BY <3>1, <3>2, <3>3
  <2>4. C!SolenoideSuelto'
    BY <1>2
    DEF C!CuadroInv, C!TypeOK, C!SolenoideSuelto, C!Cuerpo, C!Golpe, C!handleReset
  <2> QED  BY <2>2, <2>3, <2>4 DEF C!CuadroInv
<1>3. CASE UNCHANGED cvars
  BY <1>3
  DEF cvars, C!CuadroInv, C!TypeOK, C!GolpesContados, C!SolenoideSuelto, C!Uno
<1> QED
  BY <1>1, <1>2, <1>3
  DEF EfectosNext, PortalPaso, VeladorPaso, CuadroPaso, TruenoPaso, RfidPaso,
      todos, C!Next

\* Wherever a request interrupts a stroke, strokes made and strokes left add up
\* to Repeticiones and a coil that is not striking carries no current.
THEOREM CuadroSeguro == EfectosSpec => []CuadroInv
<1>1. EfectosInit => CuadroInv
  <2>1. 0 \in 0..Repeticiones
    BY EfectosAssumption DEF C!RepeticionesSuficientes
  <2>2. C!Init => C!TypeOK
    BY <2>1 DEF C!Init, C!TypeOK
  <2>3. C!Init => C!GolpesContados /\ C!SolenoideSuelto
    BY DEF C!Init, C!GolpesContados, C!SolenoideSuelto
  <2> QED  BY <2>2, <2>3 DEF EfectosInit, CuadroInv, C!CuadroInv
<1> QED
  BY <1>1, CuadroPasoInv, PTL DEF EfectosSpec, todos

-----------------------------------------------------------------------------
(* The picture with the reader *)

\* A card, a request or a pass of the reader keeps its invariant.
LEMMA RfidPasoInv == RfidInv /\ [EfectosNext]_todos => RfidInv'
<1> SUFFICES ASSUME R!RfidInv, [EfectosNext]_todos PROVE R!RfidInv'
  BY DEF RfidInv
<1>1. CASE R!MueveTarjeta
  BY <1>1
  DEF R!MueveTarjeta, R!RfidInv, R!TypeOK, R!UnSoloWin, R!LaserJustificado
<1>2. CASE R!handleClient
  <2>1. R!TypeOK'
    BY <1>2
    DEF R!handleClient, R!handleReset, R!handleManual, R!RfidInv, R!TypeOK
  <2>2. R!UnSoloWin' /\ R!LaserJustificado'
    BY <1>2
    DEF R!handleClient, R!handleReset, R!handleManual, R!RfidInv, R!TypeOK,
        R!UnSoloWin, R!LaserJustificado
  <2> QED  BY <2>1, <2>2 DEF R!RfidInv
<1>3. CASE R!SinTarjeta \/ R!YaValidado
  BY <1>3
  DEF R!SinTarjeta, R!YaValidado, R!RfidInv, R!TypeOK, R!UnSoloWin,
      R!LaserJustificado
<1>4. CASE R!Acierta
  <2>1. R!TypeOK'
    BY <1>4 DEF R!Acierta, R!lee, R!RfidInv, R!TypeOK, R!UnSoloWin
  <2>2. R!UnSoloWin' /\ R!LaserJustificado'
    BY <1>4
    DEF R!Acierta, R!lee, R!RfidInv, R!TypeOK, R!UnSoloWin, R!LaserJustificado
  <2> QED  BY <2>1, <2>2 DEF R!RfidInv
<1>5. CASE R!Falla
  <2>1. R!TypeOK'
    BY <1>5 DEF R!Falla, R!lee, R!RfidInv, R!TypeOK, R!UnSoloWin
  <2>2. R!UnSoloWin' /\ R!LaserJustificado'
    BY <1>5
    DEF R!Falla, R!lee, R!RfidInv, R!TypeOK, R!UnSoloWin, R!LaserJustificado
  <2> QED  BY <2>1, <2>2 DEF R!RfidInv
<1>6. CASE UNCHANGED rvars
  BY <1>6 DEF rvars, R!RfidInv, R!TypeOK, R!UnSoloWin, R!LaserJustificado
<1> QED
  BY <1>1, <1>2, <1>3, <1>4, <1>5, <1>6
  DEF EfectosNext, PortalPaso, VeladorPaso, CuadroPaso, TruenoPaso, RfidPaso,
      todos, R!Next

\* In whatever order cards and requests come there is one WIN per game, no FAIL
\* after it, and a laser that burns because of this game.
THEOREM RfidSeguro == EfectosSpec => []RfidInv
<1>1. EfectosInit => RfidInv
  <2>1. R!Init => R!TypeOK
    BY DEF R!Init, R!TypeOK
  <2>2. R!Init => R!UnSoloWin /\ R!LaserJustificado
    BY DEF R!Init, R!UnSoloWin, R!LaserJustificado
  <2> QED  BY <2>1, <2>2 DEF EfectosInit, RfidInv, R!RfidInv
<1> QED
  BY <1>1, RfidPasoInv, PTL DEF EfectosSpec, todos

-----------------------------------------------------------------------------
(* The thunder *)

\* No countdown of the thunder is longer than Duracion, and none is empty.
LEMMA DuracionCota ==
    /\ TiempoTrueno..(TiempoTrueno * 3 - 1) \subseteq 1..T!Duracion
    /\ TiempoManual \in 1..T!Duracion
    /\ T!Duracion \in Nat
BY EfectosAssumption DEF T!TruenoSuficiente, T!Duracion

\* Every step of the thunder, those within the handler included, keeps its
\* invariant.
LEMMA TruenoPasoInv == TruenoInv /\ [EfectosNext]_todos => TruenoInv'
<1> SUFFICES ASSUME T!TruenoInv, [EfectosNext]_todos PROVE T!TruenoInv'
  BY DEF TruenoInv
<1>0. /\ truenoCounter \in 0..T!Duracion /\ T!Duracion \in Nat
      /\ Formas \subseteq Nat \ {0} /\ Destellos \subseteq Nat \ {0}
  BY EfectosAssumption, DuracionCota DEF T!TruenoSuficiente, T!TruenoInv, T!TypeOK
<1>1. CASE T!handleClient
  <2>1. truenoCounter' = truenoCounter \/ truenoCounter' \in 0..T!Duracion
    BY <1>0, <1>1, DuracionCota
    DEF T!handleClient, T!handleReset, T!handleManual, T!handleTrueno
  <2>2. T!TypeOK'
    BY <1>0, <1>1, <2>1
    DEF T!TruenoInv, T!TypeOK, T!Labels, T!handleClient, T!handleReset,
        T!handleManual, T!handleTrueno, T!lightsOff
  <2>3. T!SoloDestella'
    BY <1>1
    DEF T!TruenoInv, T!SoloDestella, T!handleClient, T!handleReset,
        T!handleManual, T!handleTrueno, T!lightsOff
  <2>4. /\ tluz' => pixeles' /\ brillo'
        /\ tpc' \notin {"brillante", "tenue"}
        /\ tpc' = "forma" => destellos' = 0
    BY <1>1
    DEF T!TruenoInv, T!SoloDestella, T!handleClient, T!handleReset, T!handleManual,
        T!handleTrueno, T!lightsOff
  <2>5. tpc' \notin {"http", "cuerpo"} => truenoCounter' > 0
    BY <1>1, DuracionCota DEF T!handleClient, T!handleTrueno
  <2> QED  BY <2>2, <2>3, <2>4, <2>5 DEF T!TruenoInv
<1>2. CASE T!newShape
  BY <1>0, <1>2 DEF T!newShape, T!TruenoInv, T!TypeOK, T!Labels, T!SoloDestella
<1>3. CASE T!Destello \/ T!Atenua
  <2>1. T!TypeOK' /\ T!SoloDestella'
    BY <1>3
    DEF T!Destello, T!Atenua, T!TruenoInv, T!TypeOK, T!Labels, T!SoloDestella
  <2>2. /\ tluz' = pixeles' /\ brillo' = TRUE /\ UNCHANGED <<truenoCounter, destellos>>
        /\ truenoCounter > 0 /\ destellos > 0 /\ tpc' \in {"brillante", "tenue"}
    BY <1>3 DEF T!Destello, T!Atenua, T!TruenoInv
  <2> QED  BY <2>1, <2>2 DEF T!TruenoInv
<1>4. CASE T!Oscuridad
  <2>1. destellos' \in Nat
    BY <1>4 DEF T!Oscuridad, T!TruenoInv, T!TypeOK
  <2>2. T!TypeOK'
    BY <1>4, <2>1 DEF T!Oscuridad, T!TruenoInv, T!TypeOK, T!Labels
  <2> QED  BY <1>4, <2>2 DEF T!Oscuridad, T!TruenoInv, T!SoloDestella
<1>5. CASE T!OtraForma
  BY <1>5 DEF T!OtraForma, T!TruenoInv, T!TypeOK, T!Labels, T!SoloDestella
<1>6. CASE T!Termina
  <2>1. T!TypeOK'
    BY <1>6 DEF T!Termina, T!lightsOff, T!TruenoInv, T!TypeOK, T!Labels
  <2>2. T!SoloDestella'
    BY <1>6
    DEF T!Termina, T!lightsOff, T!TruenoInv, T!TypeOK, T!SoloDestella
  <2> QED  BY <1>6, <2>1, <2>2 DEF T!Termina, T!lightsOff, T!TruenoInv
<1>7. CASE T!Cuerpo
  <2>1. truenoCounter' \in 0..T!Duracion
    BY <1>0, <1>7 DEF T!Cuerpo
  <2>2. T!TypeOK'
    BY <1>7, <2>1 DEF T!Cuerpo, T!lightsOff, T!TruenoInv, T!TypeOK, T!Labels
  <2>3. T!SoloDestella'
    BY <1>7 DEF T!Cuerpo, T!lightsOff, T!TruenoInv, T!SoloDestella
  <2> QED  BY <1>7, <2>2, <2>3 DEF T!Cuerpo, T!lightsOff, T!TruenoInv
<1>8. CASE UNCHANGED tvars
  BY <1>8 DEF tvars, T!TruenoInv, T!TypeOK, T!SoloDestella
<1> QED
  BY <1>1, <1>2, <1>3, <1>4, <1>5, <1>6, <1>7, <1>8
  DEF EfectosNext, PortalPaso, VeladorPaso, CuadroPaso, TruenoPaso, RfidPaso,
      todos, T!Next

\* However requests follow each other, between two passes of loop() the strip of
\* the thunder is dark and holds no shape a later show() could bring back.
THEOREM TruenoSeguro == EfectosSpec => []TruenoInv
<1>1. EfectosInit => TruenoInv
  <2>0. 0 \in 0..T!Duracion /\ 0 \in Nat
    BY DuracionCota
  <2>1. T!Init => T!TypeOK
    BY <2>0, Zenon DEF T!Init, T!TypeOK, T!Labels
  <2>2. T!Init => T!SoloDestella
    BY DEF T!Init, T!SoloDestella
  <2> QED  BY <2>1, <2>2 DEF EfectosInit, TruenoInv, T!TruenoInv, T!Init
<1> QED
  BY <1>1, TruenoPasoInv, PTL DEF EfectosSpec, todos

-----------------------------------------------------------------------------
(* The three effects implement module Efecto *)

\* The lengths a request may ask of the lamp.
LEMMA SorteosEfecto ==
    LET D == (TiempoBuzz \div 4)..(TiempoBuzz * 2 - 1)
    IN  /\ V!random(TiempoBuzz, TiempoBuzz * 2) \subseteq D
        /\ V!random(TiempoBuzz \div 2, TiempoBuzz * 2) \subseteq D
        /\ V!random(TiempoBuzz \div 4, TiempoBuzz) \subseteq D
BY EfectosAssumption DEF V!BuzzSuficiente, V!random

\* Every step of the lamp is a step of the abstract effect: a request starts the
\* countdown, a pass takes one off it and the last one is silent.
LEMMA VeladorEfecto ==
    VeladorInv /\ [EfectosNext]_todos => [V!E!Next]_(V!E!vars)
<1> SUFFICES ASSUME V!VeladorInv, [EfectosNext]_todos
             PROVE  [V!E!Next]_(V!E!vars)
  BY DEF VeladorInv
<1>0. TiempoBuzz \in Nat /\ buzzCounter \in 0..(TiempoBuzz * 2 - 1)
  BY EfectosAssumption DEF V!BuzzSuficiente, V!VeladorInv, V!TypeOK
<1>1. CASE V!handleClient
  <2>1. vpc = "http" /\ vpc' = "cuerpo"
    BY <1>1 DEF V!handleClient
  <2>2. \/ /\ buzzCounter' \in (TiempoBuzz \div 4)..(TiempoBuzz * 2 - 1)
           /\ tono' \in {tono, FALSE}
        \/ buzzCounter' = buzzCounter /\ tono' = tono
    BY <1>1, SorteosEfecto
    DEF V!handleClient, V!handleReset, V!handleBuzz, V!handleOn, V!handleOff
  <2> QED  BY <2>1, <2>2 DEF V!E!Next, V!E!Pide, V!E!SinPedido
<1>2. CASE V!Cuerpo
  <2>1. vpc = "cuerpo" /\ vpc' = "http"
    BY <1>2 DEF V!Cuerpo
  <2>2. buzzCounter = 0 => tono = FALSE
    BY DEF V!VeladorInv, V!TypeOK, V!TonoAcotado
  <2>3. \/ /\ buzzCounter > 1 /\ buzzCounter' = buzzCounter - 1
           /\ tono' \in BOOLEAN
        \/ buzzCounter = 1 /\ buzzCounter' = 0 /\ tono' = FALSE
        \/ buzzCounter = 0 /\ buzzCounter' = buzzCounter /\ tono' = FALSE
    BY <1>0, <1>2, <2>2 DEF V!Cuerpo, V!updateBuzz, V!reposa
  <2> QED  BY <1>0, <2>1, <2>3 DEF V!E!Next, V!E!Cuenta, V!E!Descansa
<1>3. CASE UNCHANGED vvars
  BY <1>3 DEF vvars, V!E!vars
<1> QED
  BY <1>1, <1>2, <1>3
  DEF EfectosNext, PortalPaso, VeladorPaso, CuadroPaso, TruenoPaso, RfidPaso,
      todos, V!Next

\* Every step of the thunder is a step of the abstract effect: its flashes come
\* within the handler, while the countdown stands, and a pass takes one off it.
LEMMA TruenoEfecto ==
    TruenoInv /\ [EfectosNext]_todos => [T!E!Next]_(T!E!vars)
<1> SUFFICES ASSUME T!TruenoInv, [EfectosNext]_todos
             PROVE  [T!E!Next]_(T!E!vars)
  BY DEF TruenoInv
<1>0. truenoCounter \in 0..T!Duracion /\ T!Duracion \in Nat
  BY DuracionCota DEF T!TruenoInv, T!TypeOK
<1>1. CASE T!handleClient
  <2>1. T!Turno = "http" /\ T!Turno' \in {"manejador", "cuerpo"}
    BY <1>1 DEF T!handleClient, T!Turno
  <2>2. CASE tpedido' \in {"manual", "trueno"}
    <3>1. /\ truenoCounter' \in TiempoTrueno..(TiempoTrueno * 3 - 1) \cup {TiempoManual}
          /\ tluz' = tluz
      BY <1>1, <2>2 DEF T!handleClient, T!handleManual, T!handleTrueno
    <3> QED  BY <2>1, <3>1 DEF T!E!Next, T!E!Pide
  <2>3. CASE tpedido' \in {"nada", "reset"}
    <3>1. T!Turno' = "cuerpo"
      BY <1>1, <2>3 DEF T!handleClient, T!Turno
    <3>2. \/ truenoCounter' = 0 /\ tluz' = FALSE
          \/ truenoCounter' = truenoCounter /\ tluz' = tluz
      BY <1>1, <2>3 DEF T!handleClient, T!handleReset, T!lightsOff
    <3> QED  BY <2>1, <3>1, <3>2 DEF T!E!Next, T!E!Corta, T!E!SinPedido
  <2> QED  BY <1>1, <2>2, <2>3 DEF T!handleClient
<1>2. CASE \/ T!newShape \/ T!Destello \/ T!Atenua \/ T!Oscuridad
           \/ T!OtraForma \/ T!Termina
  <2>1. T!Turno = "manejador" /\ T!Turno' \in {"manejador", "cuerpo"}
    BY <1>2
    DEF T!newShape, T!Destello, T!Atenua, T!Oscuridad, T!OtraForma, T!Termina,
        T!Turno
  <2>2. /\ truenoCounter' = truenoCounter /\ tluz' \in BOOLEAN
        /\ truenoCounter > 0
    BY <1>2
    DEF T!newShape, T!Destello, T!Atenua, T!Oscuridad, T!OtraForma, T!Termina,
        T!lightsOff, T!TruenoInv, T!TypeOK
  <2> QED  BY <2>1, <2>2 DEF T!E!Next, T!E!Titila
<1>3. CASE T!Cuerpo
  <2>1. tluz = FALSE
    BY <1>3 DEF T!Cuerpo, T!TruenoInv, T!TypeOK, T!SoloDestella
  <2>2. T!Turno = "cuerpo" /\ T!Turno' = "http"
    BY <1>3 DEF T!Cuerpo, T!Turno
  <2>3. \/ truenoCounter > 0 /\ truenoCounter' = truenoCounter - 1 /\ tluz' = FALSE
        \/ truenoCounter = 0 /\ truenoCounter' = truenoCounter /\ tluz' = FALSE
    BY <1>0, <1>3, <2>1 DEF T!Cuerpo, T!lightsOff
  <2> QED  BY <1>0, <2>2, <2>3 DEF T!E!Next, T!E!Cuenta, T!E!Descansa
<1>4. CASE UNCHANGED tvars
  BY <1>4 DEF tvars, T!E!vars, T!Turno
<1> QED
  BY <1>1, <1>2, <1>3, <1>4
  DEF EfectosNext, PortalPaso, VeladorPaso, CuadroPaso, TruenoPaso, RfidPaso,
      todos, T!Next

\* A series that is over has no half strokes left.
LEMMA SinGolpes ==
    ASSUME NEW n \in Nat, NEW b, n = 0, ~b
    PROVE  2 * n - C!Uno(b) = 0
<1>1. C!Uno(b) = 0
  BY Zenon DEF C!Uno
<1> QED  BY <1>1

\* Every step of the picture is a step of the abstract effect: half a stroke is
\* a count, and the half that ends the series leaves the coil free.
LEMMA CuadroEfecto ==
    CuadroInv /\ [EfectosNext]_todos => [C!E!Next]_(C!E!vars)
<1> SUFFICES ASSUME C!CuadroInv, [EfectosNext]_todos
             PROVE  [C!E!Next]_(C!E!vars)
  BY DEF CuadroInv
<1>0. /\ Repeticiones \in Nat /\ Repeticiones > 0
      /\ currentRepeticiones \in 0..Repeticiones
      /\ falling <=> currentRepeticiones > 0
      /\ adentro => falling
      /\ solenoid => falling
      /\ adentro \in BOOLEAN /\ solenoid \in BOOLEAN
  BY EfectosAssumption
  DEF C!RepeticionesSuficientes, C!CuadroInv, C!TypeOK, C!GolpesContados,
      C!SolenoideSuelto
<1>1. CASE C!handleClient
  <2>0. cpc = "http" /\ cpc' = "cuerpo"
    BY <1>1 DEF C!handleClient
  <2>1. CASE currentRepeticiones' = 0 /\ ~adentro' /\ solenoid' = FALSE
    <3>1. (2 * currentRepeticiones - C!Uno(adentro))' = 0
      BY <2>1, SinGolpes
    <3> QED  BY <2>0, <2>1, <3>1 DEF C!E!Next, C!E!Corta
  <2>2. CASE /\ currentRepeticiones' = Repeticiones /\ ~adentro'
             /\ solenoid' = FALSE
    <3>1. (2 * currentRepeticiones - C!Uno(adentro))' = 2 * Repeticiones
      BY <1>0, <2>2 DEF C!Uno
    <3> QED  BY <2>0, <2>2, <3>1 DEF C!E!Next, C!E!Pide
  <2>3. CASE /\ currentRepeticiones' = currentRepeticiones
             /\ adentro' = adentro /\ solenoid' = solenoid
    BY <2>0, <2>3 DEF C!E!Next, C!E!SinPedido, C!Uno
  <2> QED
    BY <1>1, <2>1, <2>2, <2>3 DEF C!handleClient, C!handleReset, C!handleManual
<1>2. CASE C!Cuerpo
  <2>0. cpc = "cuerpo" /\ cpc' = "http"
    BY <1>2 DEF C!Cuerpo
  <2>1. CASE ~falling
    <3>1. currentRepeticiones = 0 /\ ~adentro /\ solenoid = FALSE
      BY <1>0, <2>1
    <3>2. /\ currentRepeticiones' = currentRepeticiones /\ adentro' = adentro
          /\ solenoid' = solenoid
      BY <1>2, <2>1 DEF C!Cuerpo, C!Golpe
    <3>3. /\ 2 * currentRepeticiones - C!Uno(adentro) = 0
          /\ (2 * currentRepeticiones - C!Uno(adentro))' = 0
      BY <3>1, <3>2, SinGolpes
    <3> QED  BY <2>0, <3>1, <3>2, <3>3 DEF C!E!Next, C!E!Descansa
  <2>2. CASE falling /\ adentro /\ currentRepeticiones - 1 = 0
    <3>1. currentRepeticiones' = 0 /\ ~adentro' /\ solenoid' = FALSE
      BY <1>2, <2>2 DEF C!Cuerpo, C!Golpe, C!handleReset
    <3>2. (2 * currentRepeticiones - C!Uno(adentro))' = 0
      BY <3>1, SinGolpes
    <3>3. 2 * currentRepeticiones - C!Uno(adentro) = 1
      BY <1>0, <2>2 DEF C!Uno
    <3> QED  BY <2>0, <3>1, <3>2, <3>3 DEF C!E!Next, C!E!Cuenta
  <2>3. CASE falling /\ adentro /\ currentRepeticiones - 1 # 0
    <3>1. /\ currentRepeticiones' = currentRepeticiones - 1
          /\ ~adentro' /\ ~solenoid' /\ solenoid' \in BOOLEAN
      BY <1>2, <2>3 DEF C!Cuerpo, C!Golpe
    <3> QED  BY <1>0, <2>0, <2>3, <3>1 DEF C!E!Next, C!E!Cuenta, C!Uno
  <2>4. CASE falling /\ ~adentro
    <3>1. currentRepeticiones # 0
      BY <1>0, <2>4
    <3>2. /\ currentRepeticiones' = currentRepeticiones
          /\ adentro' /\ solenoid' \in BOOLEAN
      BY <1>2, <2>4, <3>1, Zenon DEF C!Cuerpo, C!Golpe
    <3> QED  BY <1>0, <2>0, <2>4, <3>1, <3>2 DEF C!E!Next, C!E!Cuenta, C!Uno
  <2> QED  BY <2>1, <2>2, <2>3, <2>4
<1>3. CASE UNCHANGED cvars
  BY <1>3 DEF cvars, C!E!vars, C!Uno
<1> QED
  BY <1>1, <1>2, <1>3
  DEF EfectosNext, PortalPaso, VeladorPaso, CuadroPaso, TruenoPaso, RfidPaso,
      todos, C!Next

\* Lamp, picture and thunder implement the abstract effect: whatever the order
\* of the requests, only a request sets the countdown, every pass of loop()
\* takes exactly one off it, and it ends with an output that is not active.
THEOREM EfectoSiempreImplementado == EfectosSpec => EfectoImplementado
<1>1. EfectosInit => V!E!Init /\ C!E!Init /\ T!E!Init
  <2>1. C!Init => 2 * currentRepeticiones - C!Uno(adentro) = 0
    BY SinGolpes DEF C!Init
  <2>2. C!Init => C!E!Init
    BY <2>1, Zenon DEF C!Init, C!E!Init
  <2>3. V!Init => V!E!Init
    BY Zenon DEF V!Init, V!E!Init
  <2>4. T!Init => T!E!Init
    BY DEF T!Init, T!E!Init, T!Turno
  <2> QED  BY <2>2, <2>3, <2>4 DEF EfectosInit
<1>2. EfectosSpec => V!E!Spec
  BY <1>1, VeladorSeguro, VeladorEfecto, PTL DEF EfectosSpec, todos, V!E!Spec
<1>3. EfectosSpec => C!E!Spec
  BY <1>1, CuadroSeguro, CuadroEfecto, PTL DEF EfectosSpec, todos, C!E!Spec
<1>4. EfectosSpec => T!E!Spec
  BY <1>1, TruenoSeguro, TruenoEfecto, PTL DEF EfectosSpec, todos, T!E!Spec
<1> QED
  BY <1>2, <1>3, <1>4 DEF EfectoImplementado

=============================================================================
