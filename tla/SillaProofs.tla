----------------------------- MODULE SillaProofs -----------------------------
(* Theorems about Silla, for every OffLimit and every width of int. *)
EXTENDS Silla, TLAPS

LEMMA SillaInicio == Init => SillaInv
<1> SUFFICES ASSUME Init PROVE SillaInv
  OBVIOUS
<1>1. offCounter \in (-IntMax - 1)..IntMax /\ silencio \in 0..OffLimit
  BY OffAssumption, IntAssumption DEF Init
<1>2. TypeOK
  BY <1>1 DEF Init, TypeOK
<1>3. OffPendiente /\ OnSoloLista /\ PlasmaMuestraLista /\ CuentaHonesta
  BY OffAssumption
  DEF Init, OffPendiente, OnSoloLista, PlasmaMuestraLista, CuentaHonesta
<1> QED  BY <1>2, <1>3 DEF SillaInv

\* Every step keeps SillaInv.  OffPendiente and OnSoloLista need each other: a
\* stale count is harmless after handleReset because the chair is then off.
LEMMA SillaPaso == SillaInv /\ [Next]_vars => SillaInv'
<1> SUFFICES ASSUME SillaInv, [Next]_vars PROVE SillaInv'
  OBVIOUS
<1>0. /\ TypeOK /\ OffPendiente /\ OnSoloLista /\ PlasmaMuestraLista
      /\ CuentaHonesta
      /\ OffLimit \in Nat \ {0} /\ IntMax \in Nat /\ OffLimit <= IntMax
  BY OffAssumption, IntAssumption DEF SillaInv
<1>1. CASE handleClient
  <2>1. TypeOK'
    <3>1. offCounter' \in {0, offCounter}
      BY <1>1 DEF handleClient, handleReset, handleManual, handleLista
    <3>2. offCounter' \in (-IntMax - 1)..IntMax
      BY <1>0, <3>1 DEF TypeOK
    <3> QED
      BY <1>0, <1>1, <3>2
      DEF TypeOK, handleClient, handleReset, handleManual, handleLista
  <2>2. OffPendiente' /\ CuentaHonesta'
    BY <1>0, <1>1
    DEF handleClient, handleReset, handleManual, handleLista, OffPendiente,
        CuentaHonesta, TypeOK
  <2>3. OnSoloLista' /\ PlasmaMuestraLista'
    BY <1>0, <1>1
    DEF handleClient, handleReset, handleManual, handleLista, OnSoloLista,
        PlasmaMuestraLista
  <2> QED  BY <2>1, <2>2, <2>3 DEF SillaInv
<1>2. CASE Cuerpo /\ Contacto
  <2>1. offCounter' = 0 /\ silencio' = 0 /\ sillaOnOld' = TRUE
        /\ reportado' = "ON" /\ lista' = lista /\ lista
    BY <1>0, <1>2 DEF Cuerpo, Contacto, OnSoloLista
  <2>2. plasma' = TRUE
    BY <1>0, <1>2 DEF Cuerpo, Contacto, PlasmaMuestraLista, TypeOK
  <2>3. offCounter' \in (-IntMax - 1)..IntMax /\ silencio' \in 0..OffLimit
    BY <1>0, <2>1
  <2>4. TypeOK'
    BY <1>0, <1>2, <2>1, <2>2, <2>3 DEF Cuerpo, TypeOK
  <2>5. OffPendiente' /\ CuentaHonesta'
    BY <1>0, <2>1 DEF OffPendiente, CuentaHonesta
  <2>6. OnSoloLista' /\ PlasmaMuestraLista'
    BY <2>1, <2>2 DEF OnSoloLista, PlasmaMuestraLista
  <2> QED  BY <2>4, <2>5, <2>6 DEF SillaInv
<1>3. CASE Cuerpo /\ SinContacto
  <2>1. /\ offCounter' = Increment(offCounter)
        /\ silencio' = IF silencio = OffLimit THEN OffLimit ELSE silencio + 1
        /\ reportado' = IF offCounter' = OffLimit THEN "OFF" ELSE reportado
        /\ sillaOnOld' = FALSE
        /\ UNCHANGED <<plasma, lista>>
    BY <1>3 DEF Cuerpo, SinContacto
  <2>2. offCounter' \in (-IntMax - 1)..IntMax /\ silencio' \in 0..OffLimit
    BY <1>0, <2>1 DEF Increment, TypeOK
  <2>3. TypeOK'
    BY <1>0, <1>3, <2>1, <2>2 DEF Cuerpo, TypeOK
  <2>4. OffPendiente'
    BY <1>0, <2>1 DEF Increment, OffPendiente, TypeOK
  <2>5. CuentaHonesta'
    BY <1>0, <2>1 DEF Increment, CuentaHonesta, TypeOK
  <2>6. OnSoloLista' /\ PlasmaMuestraLista'
    BY <1>0, <2>1 DEF OnSoloLista, PlasmaMuestraLista
  <2> QED  BY <2>3, <2>4, <2>5, <2>6 DEF SillaInv
<1>4. CASE MueveContacto \/ UNCHANGED vars
  <2>1. contacto' \in BOOLEAN
    BY <1>0, <1>4 DEF MueveContacto, vars, TypeOK
  <2>2. UNCHANGED <<pc, sillaOn, sillaOnOld, offCounter, lista, plasma, pedido,
                    reportado, silencio>>
    BY <1>4 DEF MueveContacto, vars
  <2>3. TypeOK'
    BY <1>0, <2>1, <2>2 DEF TypeOK
  <2>4. OffPendiente' /\ OnSoloLista' /\ PlasmaMuestraLista' /\ CuentaHonesta'
    BY <1>0, <2>2
    DEF OffPendiente, OnSoloLista, PlasmaMuestraLista, CuentaHonesta
  <2> QED  BY <2>3, <2>4 DEF SillaInv
<1> QED
  BY <1>1, <1>2, <1>3, <1>4 DEF Next, Programa, Cuerpo

\* The PC's view of the chair: armed whenever on, an OFF still to come, and the
\* plasma lit exactly while armed.
THEOREM SillaSegura == Spec => []SillaInv
BY SillaInicio, SillaPaso, PTL DEF Spec

\* The chair is only switched off in the PC's eyes by a reset or by OffLimit
\* passes in a row without contact, and only switched on by contact with an
\* armed chair.
THEOREM ReporteSoloJustificado == Spec => ReporteJustificado
<1> DEFINE Apaga == reportado = "ON" /\ reportado' = "OFF" =>
                      pedido' = "reset" \/ silencio' = OffLimit
           Prende == reportado # "ON" /\ reportado' = "ON" => contacto /\ lista
<1>1. ASSUME SillaInv, Next PROVE Apaga
  <2> SUFFICES ASSUME reportado = "ON", reportado' = "OFF", pedido' # "reset"
               PROVE  silencio' = OffLimit
    OBVIOUS
  <2>0. SillaInv'
    BY <1>1, SillaPaso
  <2>1. Cuerpo /\ SinContacto
    BY <1>1 DEF Next, Programa, handleClient, handleManual, handleLista, Cuerpo,
                Contacto, MueveContacto
  <2>2. offCounter' = OffLimit
    BY <2>1 DEF SinContacto
  <2>3. silencio' \in 0..OffLimit /\ OffLimit \in Nat
        /\ (offCounter' <= silencio' \/ silencio' = OffLimit)
    BY <2>0, OffAssumption DEF SillaInv, TypeOK, CuentaHonesta
  <2> QED  BY <2>2, <2>3
<1>2. ASSUME Next PROVE Prende
  <2> SUFFICES ASSUME reportado # "ON", reportado' = "ON" PROVE contacto /\ lista
    OBVIOUS
  <2>1. Cuerpo /\ Contacto
    BY <1>2 DEF Next, Programa, handleClient, handleReset, handleManual,
                handleLista, Cuerpo, SinContacto, MueveContacto
  <2> QED  BY <2>1 DEF Cuerpo, Contacto
<1>3. SillaInv /\ [Next]_vars => [Apaga /\ Prende]_vars
  BY <1>1, <1>2
<1> QED  BY <1>3, SillaSegura, PTL DEF Spec, ReporteJustificado

=============================================================================
