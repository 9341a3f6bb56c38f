---------------------------- MODULE MaquinaProofs ----------------------------
(* Theorems about Maquina, for every value of its constants. *)
EXTENDS Maquina, TLAPS

\* The state that handlers and plug readings share: what remains once pc, the
\* line and the countdown of wait_for_button are left out.
Juego ==
    /\ enchufada \in BOOLEAN /\ yaGano \in BOOLEAN
    /\ enchufeCounter \in 0..(EnchufeLimit - 1)
    /\ knobsWon \in BOOLEAN /\ radioWon \in BOOLEAN
    /\ simonReady \in BOOLEAN /\ simonWon \in BOOLEAN /\ sillaOn \in BOOLEAN
    /\ gamesWon \in Nat
    /\ tiempoRadio \in (-IntMax - 1)..IntMax
    /\ efectoTurbina \in BOOLEAN /\ turbinaLit \in BOOLEAN
    /\ turbinaCounter \in Nat
    /\ luzRayos \in BOOLEAN /\ tiempoRayos \in 0..TotalRayos
    /\ plasmas \in SUBSET (1..3) /\ tramos \in SUBSET (1..4)
    /\ salida \in BOOLEAN
    /\ gameRound \in 0..RoundsToWin /\ currentMove \in 0..RoundsToWin

Impreso == serial1 \in {<<>>, <<"ON">>, <<"OFF">>, <<"OFF", "OFF">>, <<"KWIN">>,
                        <<"RWIN">>, <<"SWIN">>, <<"SFAIL">>}

Linea ==
    /\ rx \in Texts /\ incomingData \in Texts
    /\ lastCharTime \in 0..(QuietLoops + 1)

\* The part of Turno that a handler can disturb.
Partida == gameRound = 0 \/ currentMove < gameRound

LEMMA TypeOKParts ==
    TypeOK <=> /\ pc \in Labels /\ plug \in BOOLEAN
               /\ entryLeft \in 0..EntryPolls
               /\ Juego /\ Impreso /\ Linea
BY DEF TypeOK, Juego, Impreso, Linea

\* One stage more: rayoAvanza keeps the lights in step with gamesWon.
LEMMA GanaInv ==
    ASSUME gana, Juego, EtapaVisible, TurbinaOscura
    PROVE  /\ gamesWon' \in Nat /\ gamesWon' = gamesWon + 1
           /\ turbinaCounter' \in Nat /\ turbinaLit' \in BOOLEAN
           /\ simonReady' \in BOOLEAN
           /\ plasmas' \in SUBSET (1..3) /\ tramos' \in SUBSET (1..4)
           /\ EtapaVisible' /\ TurbinaOscura'
           /\ salida' = salida /\ efectoTurbina' = efectoTurbina
<1>1. /\ gamesWon' \in Nat /\ gamesWon' = gamesWon + 1
      /\ turbinaCounter' \in Nat /\ turbinaLit' \in BOOLEAN
      /\ salida' = salida /\ efectoTurbina' = efectoTurbina
  BY TurbinaAssumption DEF gana, rayoAvanza, Juego
<1>2. /\ simonReady' \in BOOLEAN
      /\ simonReady' <=> (simonReady \/ gamesWon + 1 = 3)
  BY Zenon DEF gana, rayoAvanza, Juego
<1>3. simonReady' <=> gamesWon' >= 3
  BY <1>1, <1>2 DEF Juego, EtapaVisible
<1>4. tramos' = {g \in 1..4 : g <= gamesWon'}
  <2>1. gamesWon \in Nat /\ tramos = {g \in 1..4 : g <= gamesWon}
    BY DEF Juego, EtapaVisible
  <2>2. tramos' = tramos \cup ({gamesWon + 1} \cap 1..4)
    BY DEF gana, rayoAvanza
  <2>3. \A x \in 1..4 : x <= gamesWon \/ x = gamesWon + 1 <=> x <= gamesWon + 1
    BY <2>1
  <2> QED  BY <1>1, <2>1, <2>2, <2>3
<1>5. plasmas' = {i \in 1..3 : i < gamesWon'}
  <2>1. gamesWon \in Nat /\ plasmas = {i \in 1..3 : i < gamesWon}
    BY DEF Juego, EtapaVisible
  <2>2. plasmas' = plasmas \cup ({(gamesWon + 1) - 1} \cap 1..3)
    BY DEF gana, rayoAvanza
  <2>3. \A x \in 1..3 : x < gamesWon \/ x = (gamesWon + 1) - 1 <=> x < gamesWon + 1
    BY <2>1
  <2> QED  BY <1>1, <2>1, <2>2, <2>3
<1>6. TurbinaOscura'
  BY TurbinaAssumption DEF gana, rayoAvanza, Juego, EtapaVisible, TurbinaOscura
<1> QED
  BY <1>1, <1>2, <1>3, <1>4, <1>5, <1>6 DEF EtapaVisible

\* Every handler that starts with lucesOff and resetState leaves a clean game.
LEMMA ResetInv ==
    ASSUME NEW on \in BOOLEAN, NEW ganado \in BOOLEAN, on => ~ganado,
           lucesOff(ganado), resetState(on, ganado),
           enchufeCounter' \in {0, enchufeCounter},
           Juego
    PROVE  Juego' /\ Nucleo' /\ Partida' /\ simonWon' = FALSE
                  /\ currentMove' = currentMove
<1>1. Juego' /\ Partida' /\ simonWon' = FALSE /\ currentMove' = currentMove
  <2>1. enchufada' \in BOOLEAN /\ yaGano' \in BOOLEAN /\ salida' \in BOOLEAN
    BY Zenon DEF lucesOff, resetState
  <2>2. enchufeCounter' \in 0..(EnchufeLimit - 1)
    BY EnchufeAssumption DEF Juego
  <2>3. tiempoRayos' \in 0..TotalRayos /\ gameRound' \in 0..RoundsToWin
    BY RayosAssumption, SimonAssumption DEF resetState
  <2> QED
    BY <2>1, <2>2, <2>3 DEF lucesOff, resetState, Juego, Partida
<1>2. EtapaVisible'
  <2>1. gamesWon' = 0 /\ tramos' = {} /\ plasmas' = {} /\ simonReady' = FALSE
    BY DEF lucesOff, resetState
  <2>2. {g \in 1..4 : g <= 0} = {} /\ {i \in 1..3 : i < 0} = {}
    OBVIOUS
  <2> QED  BY <2>1, <2>2 DEF EtapaVisible
<1>3. PuertaGanada' /\ SillaLista' /\ RayosAcotados' /\ TurbinaOscura'
  BY DEF lucesOff, resetState, PuertaGanada, SillaLista, RayosAcotados,
         TurbinaOscura, Juego
<1>4. Contabilidad'
  BY DEF lucesOff, resetState, Contabilidad, Resueltos, Uno
<1> QED
  BY <1>1, <1>2, <1>3, <1>4 DEF Nucleo

Estado == <<enchufe, premios, sillaOn, tiempoRadio, turbina, rayos, luces,
            gameRound, currentMove>>

\* A step that leaves the game alone.
LEMMA IgualInv ==
    ASSUME UNCHANGED Estado, Juego, Nucleo
    PROVE  Juego' /\ Nucleo' /\ (Partida => Partida')
<1> USE DEF Estado, enchufe, premios, turbina, rayos, luces
<1>1. Juego' /\ (Partida => Partida')
  BY DEF Juego, Partida
<1>2. Nucleo'
  BY DEF Nucleo, EtapaVisible, PuertaGanada, Contabilidad, Resueltos, Uno,
         SillaLista, RayosAcotados, TurbinaOscura
<1> QED  BY <1>1, <1>2

\* Whatever text is dispatched, the game stays consistent, a game of Simon
\* under way keeps its move, and no command wins Simon.
LEMMA DispatchInv ==
    ASSUME NEW text, dispatch(text), Juego, Nucleo
    PROVE  /\ Juego' /\ Nucleo' /\ (Partida => Partida') /\ Impreso'
           /\ currentMove' = currentMove
           /\ simonWon' => simonWon
<1>1. CASE handleReset /\ serial1' = <<"OFF">>
  BY <1>1, ResetInv DEF handleReset, Impreso
<1>2. CASE handleOn
  BY <1>2, ResetInv DEF handleOn, Impreso
<1>3. CASE handleOff
  BY <1>3, ResetInv DEF handleOff, Impreso
<1>4. ASSUME handleWin
      PROVE  /\ Juego' /\ Nucleo' /\ (Partida => Partida') /\ Impreso'
             /\ currentMove' = currentMove
             /\ simonWon' => simonWon
  BY <1>4, ResetInv DEF handleWin, Impreso
<1>5. CASE handleSillaOn
  <2> USE DEF enchufe, premios, turbina, rayos, luces
  <2>1. CASE ~sillaOn /\ gamesWon > 3
    <3>1. /\ sillaOn' = TRUE /\ efectoTurbina' = TRUE
          /\ turbinaFlash(SillaLoops)
          /\ UNCHANGED <<enchufe, premios, tiempoRadio, rayos, luces, gameRound,
                         currentMove>>
          /\ serial1' = <<>>
      BY <1>5, <2>1 DEF handleSillaOn
    <3>2. Juego' /\ (Partida => Partida') /\ Impreso'
      BY <3>1, TurbinaAssumption DEF turbinaFlash, Juego, Partida, Impreso
    <3>3. EtapaVisible' /\ PuertaGanada' /\ Contabilidad' /\ RayosAcotados'
      BY <3>1 DEF Nucleo, EtapaVisible, PuertaGanada, Contabilidad, Resueltos,
                  Uno, RayosAcotados
    <3>4. SillaLista' /\ TurbinaOscura'
      BY <2>1, <3>1, TurbinaAssumption
      DEF SillaLista, TurbinaOscura, turbinaFlash, Juego
    <3> QED  BY <3>1, <3>2, <3>3, <3>4 DEF Nucleo
  <2>2. CASE ~(~sillaOn /\ gamesWon > 3)
    <3>1. UNCHANGED Estado /\ serial1' = <<>>
      BY <1>5, <2>2 DEF handleSillaOn, Estado
    <3> QED  BY <3>1, IgualInv DEF Estado, Impreso
  <2> QED  BY <2>1, <2>2
<1>6. CASE handleSillaOff
  <2> USE DEF enchufe, premios, turbina, rayos, luces
  <2>1. Juego' /\ (Partida => Partida') /\ Impreso'
    BY <1>6 DEF handleSillaOff, Juego, Partida, Impreso
  <2>2. Nucleo'
    BY <1>6 DEF handleSillaOff, Nucleo, EtapaVisible, PuertaGanada,
                Contabilidad, Resueltos, Uno, SillaLista, RayosAcotados,
                TurbinaOscura
  <2> QED  BY <1>6, <2>1, <2>2 DEF handleSillaOff
<1>7. CASE handleTrueno
  <2> USE DEF enchufe, premios, turbina, rayos, luces
  <2>1. Juego' /\ (Partida => Partida') /\ Impreso'
    BY <1>7, RayosAssumption DEF handleTrueno, Juego, Partida, Impreso
  <2>2. Nucleo'
    BY <1>7, RayosAssumption
    DEF handleTrueno, Nucleo, EtapaVisible, PuertaGanada, Contabilidad,
        Resueltos, Uno, SillaLista, RayosAcotados, TurbinaOscura
  <2> QED  BY <1>7, <2>1, <2>2 DEF handleTrueno
<1>8. CASE handleManual
  <2>1. CASE gamesWon > 3 /\ handleWin
    BY <1>4, <2>1
  <2>2. CASE /\ gamesWon <= 3
             /\ gana
             /\ UNCHANGED <<enchufe, knobsWon, radioWon, simonWon, sillaOn,
                            tiempoRadio, rayos, gameRound, currentMove>>
             /\ serial1' = <<>>
    <3> USE DEF enchufe, rayos
    <3>1. /\ gamesWon' \in Nat /\ gamesWon' = gamesWon + 1
          /\ turbinaCounter' \in Nat /\ turbinaLit' \in BOOLEAN
          /\ simonReady' \in BOOLEAN
          /\ plasmas' \in SUBSET (1..3) /\ tramos' \in SUBSET (1..4)
          /\ EtapaVisible' /\ TurbinaOscura'
          /\ salida' = salida /\ efectoTurbina' = efectoTurbina
      BY <2>2, GanaInv DEF Nucleo
    <3>2. Juego' /\ (Partida => Partida') /\ Impreso'
      BY <2>2, <3>1 DEF Juego, Partida, Impreso
    <3>3. PuertaGanada' /\ SillaLista' /\ RayosAcotados'
      BY <2>2, <3>1 DEF Juego, Nucleo, PuertaGanada, SillaLista, RayosAcotados
    <3>4. Contabilidad'
      BY <2>2, <3>1 DEF Juego, Nucleo, Contabilidad, Resueltos, Uno
    <3> QED  BY <2>2, <3>1, <3>2, <3>3, <3>4 DEF Nucleo
  <2> QED  BY <1>8, <2>1, <2>2 DEF handleManual
<1>9. CASE UNCHANGED Estado /\ serial1' = <<>>
  BY <1>9, IgualInv DEF Estado, premios, Impreso
<1> QED
  BY <1>1, <1>2, <1>3, <1>4, <1>5, <1>6, <1>7, <1>8, <1>9 DEF dispatch, Estado

\* Reading the plug keeps the game consistent, accepted changes included.
LEMMA LeeInv ==
    ASSUME leeEnchufe, plug \in BOOLEAN, ~yaGano, Juego, Nucleo
    PROVE  /\ Juego' /\ Nucleo' /\ (Partida => Partida') /\ Impreso'
           /\ currentMove' = currentMove
<1>1. CASE /\ enchufeCounter' \in 0..(EnchufeLimit - 1)
           /\ UNCHANGED <<enchufada, yaGano, premios, sillaOn, tiempoRadio,
                          turbina, rayos, luces, gameRound, currentMove>>
           /\ serial1' = <<>>
  <2> USE DEF enchufe, premios, turbina, rayos, luces
  <2>1. Juego' /\ (Partida => Partida') /\ Impreso'
    BY <1>1 DEF Juego, Partida, Impreso
  <2>2. Nucleo'
    BY <1>1 DEF Nucleo, EtapaVisible, PuertaGanada, Contabilidad, Resueltos,
                Uno, SillaLista, RayosAcotados, TurbinaOscura
  <2> QED  BY <1>1, <2>1, <2>2
<1>2. CASE /\ plug /\ ~enchufada
           /\ enchufeCounter + 1 = EnchufeLimit
           /\ enchufada' = TRUE /\ enchufeCounter' = 0
           /\ gana
           /\ UNCHANGED <<yaGano, knobsWon, radioWon, simonWon, sillaOn,
                          tiempoRadio, rayos, gameRound, currentMove>>
           /\ serial1' = <<"ON">>
  <2> USE DEF rayos
  <2>1. /\ gamesWon' \in Nat /\ gamesWon' = gamesWon + 1
        /\ turbinaCounter' \in Nat /\ turbinaLit' \in BOOLEAN
        /\ simonReady' \in BOOLEAN
        /\ plasmas' \in SUBSET (1..3) /\ tramos' \in SUBSET (1..4)
        /\ EtapaVisible' /\ TurbinaOscura'
        /\ salida' = salida /\ efectoTurbina' = efectoTurbina
    BY <1>2, GanaInv DEF Nucleo
  <2>2. Juego' /\ (Partida => Partida') /\ Impreso'
    BY <1>2, <2>1, EnchufeAssumption DEF Juego, Partida, Impreso
  <2>3. PuertaGanada' /\ SillaLista' /\ RayosAcotados'
    BY <1>2, <2>1 DEF Juego, Nucleo, PuertaGanada, SillaLista, RayosAcotados
  <2>4. Contabilidad'
    BY <1>2, <2>1 DEF Juego, Nucleo, Contabilidad, Resueltos, Uno
  <2> QED  BY <1>2, <2>1, <2>2, <2>3, <2>4 DEF Nucleo
<1>3. CASE handleReset /\ serial1' = <<"OFF", "OFF">>
  BY <1>3, ResetInv DEF handleReset, Impreso
<1> QED
  <2>1. CASE plug = enchufada /\ enchufeCounter' = 0
    BY <1>1, <2>1, EnchufeAssumption DEF leeEnchufe, sinCambio, cuentaCambio, aceptaOn, aceptaOff
  <2>2. CASE /\ enchufeCounter + 1 # EnchufeLimit
             /\ enchufeCounter' = enchufeCounter + 1
    <3>1. enchufeCounter' \in 0..(EnchufeLimit - 1)
      BY <2>2, EnchufeAssumption DEF Juego
    <3> QED  BY <1>1, <2>2, <3>1 DEF leeEnchufe, sinCambio, cuentaCambio, aceptaOn, aceptaOff
  <2> QED  BY <1>2, <1>3, <2>1, <2>2 DEF leeEnchufe, sinCambio, cuentaCambio, aceptaOn, aceptaOff

\* The line: checkIncoming keeps its texts and its counter in range.
LEMMA LineaInv ==
    ASSUME checkIncoming, Linea
    PROVE  Linea' /\ \E text : dispatch(text)
<1>1. \A a, b \in Texts : Concat(a, b) \in Texts
  BY DEF Concat, Texts
<1>2. rx' \in Texts /\ incomingData' \in Texts
  BY <1>1 DEF checkIncoming, Linea, Texts
<1>3. lastCharTime' \in 0..(QuietLoops + 1)
  <2>1. lastCharTime' = IF rx # Vacio THEN 1
                        ELSE IF lastCharTime > QuietLoops THEN lastCharTime
                        ELSE lastCharTime + 1
    BY Zenon DEF checkIncoming, quietPolls
  <2> QED  BY <2>1, QuietAssumption DEF Linea
<1> QED
  BY <1>2, <1>3 DEF Linea, checkIncoming

-----------------------------------------------------------------------------

LEMMA InitInv == Init => IndInv
<1> SUFFICES ASSUME Init PROVE IndInv
  OBVIOUS
<1>1. TypeOK
  <2>1. pc \in Labels /\ plug \in BOOLEAN /\ entryLeft \in 0..EntryPolls
    BY SimonAssumption DEF Init, Labels
  <2>2. Juego
    <3>1. tiempoRadio \in (-IntMax - 1)..IntMax
      BY RadioAssumption DEF Init
    <3>2. enchufeCounter \in 0..(EnchufeLimit - 1)
      BY EnchufeAssumption DEF Init
    <3>3. /\ tiempoRayos \in 0..TotalRayos /\ gameRound \in 0..RoundsToWin
          /\ currentMove \in 0..RoundsToWin
      BY RayosAssumption, SimonAssumption DEF Init
    <3> QED  BY <3>1, <3>2, <3>3 DEF Init, Juego
  <2>3. Impreso
    BY DEF Init, Impreso
  <2>4. Linea
    BY QuietAssumption DEF Init, Linea, Texts, Vacio
  <2> QED  BY <2>1, <2>2, <2>3, <2>4, TypeOKParts
<1>2. Nucleo
  <2>1. gamesWon = 0 /\ tramos = {} /\ plasmas = {} /\ simonReady = FALSE
    BY DEF Init
  <2>2. {g \in 1..4 : g <= 0} = {} /\ {i \in 1..3 : i < 0} = {}
    OBVIOUS
  <2>3. EtapaVisible
    BY <2>1, <2>2 DEF EtapaVisible
  <2>4. PuertaGanada /\ SillaLista /\ RayosAcotados /\ TurbinaOscura
    BY DEF Init, PuertaGanada, SillaLista, RayosAcotados, TurbinaOscura
  <2>5. Resueltos = 0
    BY DEF Init, Resueltos, Uno
  <2>6. Contabilidad
    BY <2>1, <2>5 DEF Contabilidad
  <2> QED  BY <2>3, <2>4, <2>6 DEF Nucleo
<1>3. Turno
  BY DEF Init, Turno, SimonSinAtajo
<1> QED  BY <1>1, <1>2, <1>3 DEF IndInv

\* Outside a game of Simon there is nothing to show of Turno.
LEMMA FueraDeSimon ==
    ASSUME pc' \notin {"addmove", "wait", "button"}
    PROVE  Turno'
BY DEF Turno, SimonSinAtajo

LEMMA Partes ==
    /\ IndInv <=> /\ pc \in Labels /\ plug \in BOOLEAN
                  /\ entryLeft \in 0..EntryPolls
                  /\ Juego /\ Impreso /\ Linea /\ Nucleo /\ Turno
    /\ IndInv' <=> /\ pc' \in Labels /\ plug' \in BOOLEAN
                   /\ entryLeft' \in 0..EntryPolls
                   /\ Juego' /\ Impreso' /\ Linea' /\ Nucleo' /\ Turno'
BY DEF IndInv, TypeOK, Juego, Impreso, Linea

\* A puzzle solved by the players: knobs, radio or Simon.
LEMMA PremioInv ==
    ASSUME gana, Juego, Nucleo,
           UNCHANGED <<enchufe, sillaOn, rayos, gameRound>>,
           tiempoRadio' \in (-IntMax - 1)..IntMax,
           currentMove' \in 0..RoundsToWin,
           \/ ~knobsWon /\ knobsWon' = TRUE /\ UNCHANGED <<radioWon, simonWon>>
           \/ ~radioWon /\ radioWon' = TRUE /\ UNCHANGED <<knobsWon, simonWon>>
           \/ ~simonWon /\ simonWon' = TRUE /\ UNCHANGED <<knobsWon, radioWon>>
    PROVE  Juego' /\ Nucleo'
<1> USE DEF enchufe, rayos
<1>1. /\ gamesWon' \in Nat /\ gamesWon' = gamesWon + 1
      /\ turbinaCounter' \in Nat /\ turbinaLit' \in BOOLEAN
      /\ simonReady' \in BOOLEAN
      /\ plasmas' \in SUBSET (1..3) /\ tramos' \in SUBSET (1..4)
      /\ EtapaVisible' /\ TurbinaOscura'
      /\ salida' = salida /\ efectoTurbina' = efectoTurbina
  BY GanaInv DEF Nucleo
<1>2. Juego'
  BY <1>1 DEF Juego
<1>3. PuertaGanada' /\ SillaLista' /\ RayosAcotados'
  BY <1>1 DEF Juego, Nucleo, PuertaGanada, SillaLista, RayosAcotados
<1>4. Contabilidad'
  BY <1>1 DEF Juego, Nucleo, Contabilidad, Resueltos, Uno
<1> QED  BY <1>1, <1>2, <1>3, <1>4 DEF Nucleo

\* Every step keeps the inductive invariant, action by action.
LEMMA StepInv == IndInv /\ [Next]_vars => IndInv'
<1> SUFFICES ASSUME IndInv, [Next]_vars PROVE IndInv'
  OBVIOUS
<1>0. /\ pc \in Labels /\ plug \in BOOLEAN /\ entryLeft \in 0..EntryPolls
      /\ Juego /\ Impreso /\ Linea /\ Nucleo /\ Turno
  BY Partes
<1> USE <1>0 DEF enchufe, premios, turbina, rayos, luces, simon, entrada, resto
<1>1. CASE Enchufe
  <2>1. /\ pc' \in {"turbina", "knobs"} /\ plug' = plug
        /\ entryLeft' = entryLeft /\ UNCHANGED entrada
    BY <1>1 DEF Enchufe
  <2>2. Juego' /\ Nucleo' /\ Impreso'
    <3>1. CASE yaGano
      BY <1>1, <3>1, IgualInv DEF Enchufe, Estado, Impreso
    <3>2. CASE ~yaGano
      BY <1>1, <3>2, LeeInv DEF Enchufe
    <3> QED  BY <3>1, <3>2
  <2>3. Linea' /\ pc' \in Labels
    BY <2>1 DEF Linea, Labels
  <2>4. Turno'
    BY <2>1, FueraDeSimon
  <2> QED  BY <2>1, <2>2, <2>3, <2>4, Partes
<1>2. CASE Enchufe2
  <2>1. /\ pc' = "incoming" /\ plug' = plug
        /\ entryLeft' = entryLeft /\ UNCHANGED entrada
    BY <1>2 DEF Enchufe2
  <2>2. Juego' /\ Nucleo' /\ Impreso'
    <3>1. CASE yaGano
      <4>1. enchufada = FALSE /\ enchufada' = FALSE
        BY <1>2, <3>1 DEF Enchufe2, Nucleo, PuertaGanada, Juego
      <4> QED  BY <1>2, <3>1, <4>1, IgualInv DEF Enchufe2, Estado, Impreso
    <3>2. CASE ~yaGano
      BY <1>2, <3>2, LeeInv DEF Enchufe2
    <3> QED  BY <3>1, <3>2
  <2>3. Linea' /\ pc' \in Labels
    BY <2>1 DEF Linea, Labels
  <2>4. Turno'
    BY <2>1, FueraDeSimon
  <2> QED  BY <2>1, <2>2, <2>3, <2>4, Partes
<1>3. CASE Knobs
  <2>1. /\ pc' = "radio" /\ plug' = plug
        /\ entryLeft' = entryLeft /\ UNCHANGED entrada
    BY <1>3 DEF Knobs
  <2>2. Juego' /\ Nucleo' /\ Impreso'
    <3>1. CASE ~knobsWon /\ knobsWon' = TRUE /\ gana
               /\ UNCHANGED <<radioWon, simonWon>> /\ serial1' = <<"KWIN">>
      BY <1>3, <3>1, PremioInv DEF Knobs, Juego, Impreso
    <3>2. CASE UNCHANGED <<premios, luces, turbina>> /\ serial1' = <<>>
      BY <1>3, <3>2, IgualInv DEF Knobs, Estado, Impreso
    <3> QED  BY <1>3, <3>1, <3>2 DEF Knobs
  <2>3. Linea' /\ pc' \in Labels
    BY <2>1 DEF Linea, Labels
  <2>4. Turno'
    BY <2>1, FueraDeSimon
  <2> QED  BY <2>1, <2>2, <2>3, <2>4, Partes
<1>4. CASE Radio
  <2>1. /\ pc' = "simon" /\ plug' = plug
        /\ entryLeft' = entryLeft /\ UNCHANGED entrada
    BY <1>4 DEF Radio
  <2>2. tiempoRadio' \in (-IntMax - 1)..IntMax
    BY <1>4, RadioAssumption DEF Radio, Decrement, Juego
  <2>3. Juego' /\ Nucleo' /\ Impreso'
    <3>1. CASE ~radioWon /\ radioWon' = TRUE /\ gana
               /\ UNCHANGED <<knobsWon, simonWon>> /\ serial1' = <<"RWIN">>
      BY <1>4, <2>2, <3>1, PremioInv DEF Radio, Juego, Impreso
    <3>2. CASE UNCHANGED <<premios, luces, turbina>> /\ serial1' = <<>>
      <4>1. Juego' /\ Impreso'
        BY <1>4, <2>2, <3>2 DEF Radio, Juego, Impreso
      <4>2. Nucleo'
        BY <1>4, <3>2 DEF Radio, Nucleo, EtapaVisible, PuertaGanada,
             Contabilidad, Resueltos, Uno, SillaLista, RayosAcotados,
             TurbinaOscura
      <4> QED  BY <4>1, <4>2
    <3> QED  BY <1>4, <3>1, <3>2 DEF Radio
  <2>4. Linea' /\ pc' \in Labels
    BY <2>1 DEF Linea, Labels
  <2>5. Turno'
    BY <2>1, FueraDeSimon
  <2> QED  BY <2>1, <2>3, <2>4, <2>5, Partes
<1>5. CASE Simon
  <2>1. /\ pc' \in {"addmove", "rayos"} /\ plug' = plug
        /\ entryLeft' = entryLeft /\ UNCHANGED entrada
        /\ gameRound' \in {0, gameRound} /\ UNCHANGED currentMove
        /\ serial1' = <<>>
    BY <1>5 DEF Simon
  <2>2. Juego' /\ Impreso'
    BY <1>5, <2>1, SimonAssumption DEF Simon, Juego, Impreso
  <2>3. Nucleo'
    BY <1>5 DEF Simon, Nucleo, EtapaVisible, PuertaGanada, Contabilidad,
                Resueltos, Uno, SillaLista, RayosAcotados, TurbinaOscura
  <2>4. Linea' /\ pc' \in Labels
    BY <2>1 DEF Linea, Labels
  <2>5. Turno'
    <3>1. CASE simonReady /\ turbinaCounter = 0 /\ ~simonWon
      BY <1>5, <3>1 DEF Simon, Turno, SimonSinAtajo
    <3>2. CASE ~(simonReady /\ turbinaCounter = 0 /\ ~simonWon)
      <4>1. pc' = "rayos"
        BY <1>5, <3>2 DEF Simon
      <4> QED  BY <4>1, FueraDeSimon
    <3> QED  BY <3>1, <3>2
  <2> QED  BY <2>1, <2>2, <2>3, <2>4, <2>5, Partes
<1>6. CASE AddMove
  <2>1. Juego' /\ Impreso'
    BY <1>6, SimonAssumption DEF AddMove, Juego, Impreso
  <2>2. Nucleo'
    BY <1>6 DEF AddMove, Nucleo, EtapaVisible, PuertaGanada, Contabilidad,
                Resueltos, Uno, SillaLista, RayosAcotados, TurbinaOscura
  <2>3. /\ Linea' /\ pc' \in Labels /\ plug' \in BOOLEAN
        /\ entryLeft' \in 0..EntryPolls
    BY <1>6, SimonAssumption DEF AddMove, Linea, Labels
  <2>4. Turno'
    BY <1>6, SimonAssumption DEF AddMove, Turno, SimonSinAtajo, Juego
  <2> QED  BY <2>1, <2>2, <2>3, <2>4, Partes
<1>7. CASE play_winner
  <2>1. ~simonWon
    BY <1>7 DEF play_winner, Turno
  <2>2. Juego' /\ Nucleo'
    BY <1>7, <2>1, PremioInv DEF play_winner, Juego
  <2>3. /\ Linea' /\ pc' \in Labels /\ plug' \in BOOLEAN
        /\ entryLeft' \in 0..EntryPolls /\ Impreso'
    BY <1>7 DEF play_winner, Linea, Labels, Impreso
  <2>4. Turno'
    BY <1>7, FueraDeSimon DEF play_winner
  <2> QED  BY <2>2, <2>3, <2>4, Partes
<1>8. CASE WrongButton \/ Timeout
  <2>1. play_loser
    BY <1>8 DEF WrongButton, Timeout
  <2>2. Juego' /\ Nucleo'
    BY <2>1, IgualInv DEF play_loser, Estado
  <2>3. /\ Linea' /\ pc' \in Labels /\ plug' \in BOOLEAN
        /\ entryLeft' \in 0..EntryPolls /\ Impreso'
    BY <2>1 DEF play_loser, Linea, Labels, Impreso
  <2>4. Turno'
    BY <2>1, FueraDeSimon DEF play_loser
  <2> QED  BY <2>2, <2>3, <2>4, Partes
<1>9. CASE WaitPoll
  <2>1. Linea' /\ \E text : dispatch(text)
    BY <1>9, LineaInv DEF WaitPoll
  <2>2. /\ Juego' /\ Nucleo' /\ (Partida => Partida') /\ Impreso'
        /\ currentMove' = currentMove /\ (simonWon' => simonWon)
    BY <2>1, DispatchInv
  <2>3. pc' \in Labels /\ plug' \in BOOLEAN /\ entryLeft' \in 0..EntryPolls
    BY <1>9 DEF WaitPoll, Labels
  <2>4. Turno'
    BY <1>9, <2>2 DEF WaitPoll, Turno, SimonSinAtajo, Partida
  <2> QED  BY <2>1, <2>2, <2>3, <2>4, Partes
<1>10. CASE NoButton
  <2>1. Juego' /\ Nucleo'
    BY <1>10, IgualInv DEF NoButton, Estado
  <2>2. /\ Linea' /\ pc' \in Labels /\ plug' \in BOOLEAN
        /\ entryLeft' \in 0..EntryPolls /\ Impreso'
    BY <1>10, SimonAssumption DEF NoButton, Linea, Labels, Impreso
  <2>3. Turno'
    BY <1>10 DEF NoButton, Turno, SimonSinAtajo
  <2> QED  BY <2>1, <2>2, <2>3, Partes
<1>11. CASE RightButton
  <2>1. currentMove < RoundsToWin /\ ~simonWon
        /\ (gameRound = 0 \/ currentMove < gameRound)
    BY <1>11 DEF RightButton, Turno, SimonSinAtajo
  <2>2. Juego' /\ Impreso'
    BY <1>11, <2>1, SimonAssumption DEF RightButton, Juego, Impreso
  <2>3. Nucleo'
    BY <1>11 DEF RightButton, Nucleo, EtapaVisible, PuertaGanada, Contabilidad,
                 Resueltos, Uno, SillaLista, RayosAcotados, TurbinaOscura
  <2>4. /\ Linea' /\ pc' \in Labels /\ plug' \in BOOLEAN
        /\ entryLeft' \in 0..EntryPolls
    BY <1>11, SimonAssumption DEF RightButton, Linea, Labels
  <2>5. Turno'
    BY <1>11, <2>1, SimonAssumption DEF RightButton, Turno, SimonSinAtajo, Juego
  <2> QED  BY <2>2, <2>3, <2>4, <2>5, Partes
<1>12. CASE Rayos
  <2>1. /\ pc' = "turbina" /\ plug' = plug /\ Linea' /\ Impreso'
        /\ entryLeft' = entryLeft
    BY <1>12 DEF Rayos, Linea, Impreso
  <2>2. CASE luzRayos /\ ~sillaOn
    <3>1. tiempoRayos' = tiempoRayos - 1 /\ tiempoRayos > 0
      BY <1>12, <2>2 DEF Rayos, Nucleo, RayosAcotados
    <3>2. luzRayos' \in BOOLEAN /\ (luzRayos' <=> tiempoRayos - 1 >= 1)
      <4>1. luzRayos' = IF tiempoRayos - 1 < 1 THEN FALSE ELSE luzRayos
        BY <1>12, <2>2 DEF Rayos
      <4>2. CASE tiempoRayos - 1 < 1
        <5>1. luzRayos' = FALSE  BY <4>1, <4>2
        <5>2. tiempoRayos \in Nat  BY RayosAssumption DEF Juego
        <5>3. ~(tiempoRayos - 1 >= 1)  BY <4>2, <5>2
        <5> QED  BY <5>1, <5>3, Zenon
      <4>3. CASE ~(tiempoRayos - 1 < 1)
        <5>1. luzRayos' = luzRayos  BY <4>1, <4>3
        <5>2. luzRayos' \in BOOLEAN /\ luzRayos'
          BY <2>2, <5>1 DEF Juego
        <5> QED  BY <4>3, <5>2 DEF Juego
      <4> QED  BY <4>2, <4>3
    <3>3. Juego'
      <4>1. tiempoRayos' \in 0..TotalRayos
        BY <3>1, RayosAssumption DEF Juego
      <4> QED  BY <1>12, <3>2, <4>1 DEF Rayos, Juego
    <3>4. RayosAcotados'
      BY <3>1, <3>2 DEF Juego, RayosAcotados
    <3>5. EtapaVisible' /\ PuertaGanada' /\ Contabilidad' /\ SillaLista'
          /\ TurbinaOscura'
      BY <1>12 DEF Rayos, Nucleo, EtapaVisible, PuertaGanada, Contabilidad,
                   Resueltos, Uno, SillaLista, TurbinaOscura
    <3> QED  BY <2>1, <3>3, <3>4, <3>5, FueraDeSimon, Partes DEF Nucleo, Labels
  <2>3. CASE ~(luzRayos /\ ~sillaOn)
    <3>1. Juego' /\ Nucleo'
      BY <1>12, <2>3, IgualInv DEF Rayos, Estado
    <3> QED  BY <2>1, <3>1, FueraDeSimon, Partes DEF Labels
  <2> QED  BY <2>2, <2>3
<1>13. CASE Turbina
  <2>1. /\ pc' = "enchufe2" /\ plug' = plug /\ Linea' /\ Impreso'
        /\ entryLeft' = entryLeft
    BY <1>13 DEF Turbina, Linea, Impreso
  <2>2. Juego' /\ TurbinaOscura'
    <3>1. /\ turbinaCounter' \in Nat /\ turbinaLit' \in BOOLEAN
          /\ turbinaCounter' = 0 /\ ~efectoTurbina => ~turbinaLit'
      <4>1. CASE turbinaCounter > 1 /\ turbinaFlash(turbinaCounter)
        BY <4>1, TurbinaAssumption DEF turbinaFlash, Juego
      <4>2. CASE turbinaCounter = 1 /\ turbinaLit' = FALSE /\ turbinaCounter' = 0
        BY <4>2
      <4>3. CASE /\ turbinaCounter < 1 /\ efectoTurbina
                 /\ turbinaLit' \in IF sillaOn THEN BOOLEAN ELSE {FALSE}
                 /\ UNCHANGED turbinaCounter
        BY <4>3 DEF Juego
      <4>4. CASE /\ turbinaCounter < 1 /\ ~efectoTurbina
                 /\ UNCHANGED <<turbinaLit, turbinaCounter>>
        BY <4>4 DEF Juego, Nucleo, TurbinaOscura
      <4> QED  BY <1>13, <4>1, <4>2, <4>3, <4>4 DEF Turbina, updateTurbina
    <3> QED  BY <1>13, <3>1 DEF Turbina, Juego, TurbinaOscura
  <2>3. EtapaVisible' /\ PuertaGanada' /\ Contabilidad' /\ SillaLista'
        /\ RayosAcotados'
    BY <1>13 DEF Turbina, Nucleo, EtapaVisible, PuertaGanada, Contabilidad,
                 Resueltos, Uno, SillaLista, RayosAcotados
  <2> QED  BY <2>1, <2>2, <2>3, FueraDeSimon, Partes DEF Nucleo, Labels
<1>14. CASE Incoming
  <2>1. Linea' /\ \E text : dispatch(text)
    BY <1>14, LineaInv DEF Incoming
  <2>2. Juego' /\ Nucleo' /\ Impreso'
    BY <2>1, DispatchInv
  <2>3. pc' \in Labels /\ plug' \in BOOLEAN /\ entryLeft' \in 0..EntryPolls
    BY <1>14 DEF Incoming, Labels
  <2>4. Turno'
    BY <1>14, FueraDeSimon DEF Incoming
  <2> QED  BY <2>1, <2>2, <2>3, <2>4, Partes
<1>15. CASE MueveEnchufe \/ Llega
  <2>1. Juego' /\ Nucleo' /\ Impreso'
    BY <1>15, IgualInv DEF MueveEnchufe, Llega, Arrive, Estado, Impreso
  <2>2. /\ pc' \in Labels /\ plug' \in BOOLEAN /\ entryLeft' \in 0..EntryPolls
        /\ incomingData' = incomingData /\ lastCharTime' = lastCharTime
    BY <1>15 DEF MueveEnchufe, Llega, Arrive
  <2>3. rx' \in Texts
    BY <1>15, SentAssumption
    DEF MueveEnchufe, Llega, Arrive, Concat, Linea, Texts
  <2>4. Turno'
    BY <1>15 DEF MueveEnchufe, Llega, Arrive, Turno, SimonSinAtajo
  <2> QED  BY <2>1, <2>2, <2>3, <2>4, Partes DEF Linea
<1>16. CASE UNCHANGED vars
  BY <1>16, IgualInv, Partes
  DEF vars, Estado, Impreso, Linea, Turno, SimonSinAtajo
<1> QED
  BY <1>1, <1>2, <1>3, <1>4, <1>5, <1>6, <1>7, <1>8, <1>9, <1>10, <1>11,
     <1>12, <1>13, <1>14, <1>15, <1>16
  DEF Next, Programa

-----------------------------------------------------------------------------

\* The inductive invariant holds of every reachable state, for every set of
\* texts the helper may send and every value of the limits in the sketch.
THEOREM Invariante == Spec => []IndInv
BY InitInv, StepInv, PTL DEF Spec

\* Type correctness, with the ranges of every counter of the sketch: among
\* others gameBoard is never indexed past ROUNDS_TO_WIN.
THEOREM TipoCorrecto == Spec => []TypeOK
BY Invariante, PTL DEF IndInv

\* Lights, exit, stage count, chair and countdowns agree in every state, also
\* when orders are served in the middle of a game of Simon.
THEOREM NucleoSiempre == Spec => []Nucleo
<1>1. IndInv => Nucleo
  BY DEF IndInv
<1> QED  BY <1>1, Invariante, PTL

\* What the players see is always the stage the program is in.
THEOREM EtapaSiempreVisible == Spec => []EtapaVisible
<1>1. IndInv => EtapaVisible
  BY DEF IndInv, Nucleo
<1> QED  BY <1>1, Invariante, PTL

\* The exit is open exactly while the room is won, and a won machine is off.
THEOREM PuertaSoloGanada == Spec => []PuertaGanada
<1>1. IndInv => PuertaGanada
  BY DEF IndInv, Nucleo
<1> QED  BY <1>1, Invariante, PTL

\* The count of stages and the puzzles solved never drift further apart.
THEOREM CuentaAcotada == Spec => []Contabilidad
<1>1. IndInv => Contabilidad
  BY DEF IndInv, Nucleo
<1> QED  BY <1>1, Invariante, PTL

\* No sequence of resets during a game of Simon shortens it.
THEOREM SimonEntero == Spec => []SimonSinAtajo
<1>1. IndInv => SimonSinAtajo
  BY DEF IndInv, Turno
<1> QED  BY <1>1, Invariante, PTL

\* Once open, the exit is closed by a reset, on or off order and by nothing
\* else: not by the plug, a puzzle or a second win.
THEOREM PuertaPorOrden == Spec => PuertaCierraPorOrden
<1>1. IndInv /\ [Next]_vars =>
        [salida /\ ~salida' =>
           Concat(incomingData, rx) \in {"reset", "on", "off"}]_vars
  <2> SUFFICES ASSUME IndInv, Next, salida, ~salida'
               PROVE  Concat(incomingData, rx) \in {"reset", "on", "off"}
    OBVIOUS
  <2> USE DEF enchufe, premios, turbina, rayos, luces, simon, entrada, resto
  <2>1. yaGano
    BY DEF IndInv, Nucleo, PuertaGanada
  <2>2. ~gana
    BY DEF gana, rayoAvanza
  <2>3. ~handleWin
    BY DEF handleWin, lucesOff
  <2>4. checkIncoming
    <3>1. CASE Enchufe \/ Enchufe2
      BY <2>1, <3>1 DEF Enchufe, Enchufe2
    <3>2. CASE Knobs \/ Radio \/ play_winner
      BY <2>2, <3>2 DEF Knobs, Radio, play_winner
    <3>3. CASE Simon \/ AddMove \/ NoButton \/ RightButton
      BY <3>3 DEF Simon, AddMove, NoButton, RightButton
    <3>4. CASE WrongButton \/ Timeout
      BY <3>4 DEF WrongButton, Timeout, play_loser
    <3>5. CASE Rayos \/ Turbina
      BY <3>5 DEF Rayos, Turbina
    <3>6. CASE MueveEnchufe \/ Llega
      BY <3>6 DEF MueveEnchufe, Llega, Arrive
    <3> QED
      BY <3>1, <3>2, <3>3, <3>4, <3>5, <3>6
      DEF Next, Programa, WaitPoll, Incoming
  <2>5. \A text : dispatch(text) => text \in {"reset", "on", "off"}
    BY <2>2, <2>3 DEF dispatch, handleSillaOn, handleSillaOff, handleTrueno,
                      handleManual
  <2>6. PICK text \in {Concat(incomingData, rx), Vacio} : dispatch(text)
    BY <2>4 DEF checkIncoming
  <2> QED  BY <2>5, <2>6 DEF Vacio
<1> QED
  BY <1>1, Invariante, PTL DEF Spec, PuertaCierraPorOrden

-----------------------------------------------------------------------------
(* A helper that gives no orders. *)

\* Concatenation makes no order out of texts that are none.
LEMMA ConcatSinOrdenes ==
    ASSUME NEW a, NEW b, a \notin Ordenes, b \notin Ordenes
    PROVE  Concat(a, b) \notin Ordenes
BY DEF Concat, Ordenes

\* The part of SinOrdenes that speaks of the game.
EnOrden ==
    /\ ~yaGano
    /\ gamesWon = Resueltos
    /\ knobsWon \/ radioWon => enchufada
    /\ simonWon => knobsWon /\ radioWon

LEMMA EnOrdenIgual ==
    ASSUME EnOrden,
           UNCHANGED <<enchufada, yaGano, knobsWon, radioWon, simonWon, gamesWon>>
    PROVE  EnOrden'
BY DEF EnOrden, Resueltos, Uno

\* A dispatched text that is no order.
LEMMA DispatchEnOrden ==
    ASSUME NEW text, text \notin Ordenes, dispatch(text), EnOrden
    PROVE  EnOrden' /\ UNCHANGED <<enchufada, simonReady>>
BY EnOrdenIgual
DEF dispatch, Ordenes, handleSillaOn, handleSillaOff, handleTrueno, enchufe,
    premios, turbina, rayos, luces, Commands

LEMMA LineaSinOrdenes ==
    ASSUME checkIncoming, rx \notin Ordenes, incomingData \notin Ordenes
    PROVE  /\ rx' \notin Ordenes /\ incomingData' \notin Ordenes
           /\ \E text : text \notin Ordenes /\ dispatch(text)
<1>1. Concat(incomingData, rx) \notin Ordenes /\ Vacio \notin Ordenes
  BY ConcatSinOrdenes DEF Vacio, Ordenes
<1> QED  BY <1>1 DEF checkIncoming

LEMMA LeeEnOrden ==
    ASSUME leeEnchufe, EnOrden, Juego, plug \in BOOLEAN
    PROVE  EnOrden'
<1>1. CASE UNCHANGED <<enchufada, yaGano, premios>>
  BY <1>1, EnOrdenIgual DEF premios
<1>2. CASE /\ ~enchufada /\ enchufada' = TRUE /\ gana
           /\ UNCHANGED <<yaGano, knobsWon, radioWon, simonWon>>
  BY <1>2 DEF EnOrden, gana, Resueltos, Uno, Juego
<1>3. CASE handleReset
  BY <1>3 DEF handleReset, resetState, EnOrden, Resueltos, Uno
<1> QED  BY <1>1, <1>2, <1>3 DEF leeEnchufe, sinCambio, cuentaCambio, aceptaOn, aceptaOff

\* Without orders the puzzles are solved in order and counted once each.
LEMMA SinOrdenesPaso ==
    ASSUME Sent \cap Ordenes = {}
    PROVE  IndInv /\ SinOrdenes /\ [Next]_vars => SinOrdenes'
<1> SUFFICES ASSUME IndInv, SinOrdenes, [Next]_vars PROVE SinOrdenes'
  OBVIOUS
<1>0. /\ plug \in BOOLEAN /\ Juego /\ EtapaVisible /\ EnOrden
      /\ pc \in {"addmove", "wait", "button"} => ~simonWon
  BY Partes DEF Nucleo, Turno, SinOrdenes, EnOrden
<1>a. ASSUME rx' \notin Ordenes, incomingData' \notin Ordenes, EnOrden',
             pc' \in {"knobs", "radio", "simon", "addmove", "wait", "button"}
               => enchufada',
             pc' \in {"addmove", "wait", "button"} => simonReady'
      PROVE  SinOrdenes'
  BY <1>a DEF SinOrdenes, EnOrden
<1> USE DEF enchufe, premios, turbina, rayos, luces, simon, entrada, resto
<1>1. CASE Enchufe
  <2>1. /\ leeEnchufe /\ UNCHANGED entrada
        /\ pc' = IF enchufada' THEN "knobs" ELSE "turbina"
    BY <1>0, <1>1 DEF Enchufe, EnOrden
  <2> QED  BY <1>0, <1>a, <2>1, LeeEnOrden DEF SinOrdenes
<1>2. CASE Enchufe2
  <2>1. leeEnchufe /\ UNCHANGED entrada /\ pc' = "incoming"
    BY <1>0, <1>2 DEF Enchufe2, EnOrden
  <2> QED  BY <1>0, <1>a, <2>1, LeeEnOrden DEF SinOrdenes
<1>3. CASE Knobs \/ Radio \/ play_winner
  <2>1. /\ UNCHANGED entrada /\ UNCHANGED <<enchufada, yaGano>>
        /\ pc' \in {"radio", "simon", "rayos"} /\ enchufada
    <3>1. CASE Knobs   BY <3>1 DEF Knobs, SinOrdenes
    <3>2. CASE Radio   BY <3>2 DEF Radio, SinOrdenes
    <3>3. CASE play_winner   BY <3>3 DEF play_winner, SinOrdenes
    <3> QED  BY <1>3, <3>1, <3>2, <3>3
  <2>2. EnOrden'
    <3>1. CASE UNCHANGED premios
      BY <1>0, <2>1, <3>1, EnOrdenIgual
    <3>2. CASE ~knobsWon /\ knobsWon' = TRUE /\ gana
               /\ UNCHANGED <<radioWon, simonWon>>
      BY <1>0, <2>1, <3>2 DEF EnOrden, gana, Resueltos, Uno, Juego
    <3>3. CASE ~radioWon /\ radioWon' = TRUE /\ gana
               /\ UNCHANGED <<knobsWon, simonWon>>
      BY <1>0, <2>1, <3>3 DEF EnOrden, gana, Resueltos, Uno, Juego
    <3>4. CASE play_winner
      <4>1. /\ ~simonWon /\ simonReady /\ simonWon' = TRUE /\ gana
            /\ UNCHANGED <<knobsWon, radioWon>>
        BY <1>0, <3>4 DEF play_winner, SinOrdenes
      <4>2. gamesWon >= 3 /\ gamesWon = Resueltos
        BY <1>0, <4>1 DEF EtapaVisible, EnOrden
      <4>3. knobsWon /\ radioWon
        BY <1>0, <4>1, <4>2 DEF Resueltos, Uno, Juego
      <4> QED
        BY <1>0, <2>1, <4>1, <4>2, <4>3 DEF EnOrden, gana, Resueltos, Uno, Juego
    <3> QED  BY <1>3, <3>1, <3>2, <3>3, <3>4 DEF Knobs, Radio
  <2> QED  BY <1>a, <2>1, <2>2 DEF SinOrdenes
<1>4. CASE Simon \/ AddMove \/ NoButton \/ RightButton
  <2>1. UNCHANGED <<entrada, enchufada, yaGano, premios>>
    BY <1>4 DEF Simon, AddMove, NoButton, RightButton
  <2>2. /\ pc \in {"simon", "addmove", "button"}
        /\ pc' \in {"addmove", "wait", "button"} => simonReady
    BY <1>4 DEF Simon, AddMove, NoButton, RightButton, SinOrdenes
  <2> QED  BY <1>0, <1>a, <2>1, <2>2, EnOrdenIgual DEF SinOrdenes
<1>5. CASE WrongButton \/ Timeout \/ Rayos \/ Turbina
  <2>1. /\ UNCHANGED <<entrada, enchufada, yaGano, premios>>
        /\ pc' \in {"rayos", "turbina", "enchufe2"}
    BY <1>5 DEF WrongButton, Timeout, play_loser, Rayos, Turbina
  <2> QED  BY <1>0, <1>a, <2>1, EnOrdenIgual DEF SinOrdenes
<1>6. CASE WaitPoll \/ Incoming
  <2>1. /\ checkIncoming
        /\ pc' = "enchufe" \/ (pc' = "button" /\ pc = "wait")
    BY <1>6 DEF WaitPoll, Incoming
  <2>2. /\ rx' \notin Ordenes /\ incomingData' \notin Ordenes
        /\ EnOrden' /\ UNCHANGED <<enchufada, simonReady>>
    BY <1>0, <2>1, LineaSinOrdenes, DispatchEnOrden DEF SinOrdenes
  <2> QED  BY <1>a, <2>1, <2>2 DEF SinOrdenes
<1>7. CASE MueveEnchufe \/ Llega
  <2>1. UNCHANGED <<pc, incomingData, enchufada, yaGano, premios>>
    BY <1>7 DEF MueveEnchufe, Llega, Arrive
  <2>2. rx' \notin Ordenes
    BY <1>7, ConcatSinOrdenes DEF MueveEnchufe, Llega, Arrive, SinOrdenes
  <2> QED  BY <1>0, <1>a, <2>1, <2>2, EnOrdenIgual DEF SinOrdenes
<1>8. CASE UNCHANGED vars
  BY <1>0, <1>8, <1>a, EnOrdenIgual DEF vars, SinOrdenes
<1> QED
  BY <1>1, <1>2, <1>3, <1>4, <1>5, <1>6, <1>7, <1>8 DEF Next, Programa

\* As long as the helper gives no order, every value of gamesWon means what
\* the comments of rayoAvanza say, and players who solved plug, knobs and
\* radio find Simon open.
THEOREM EtapasSinOrdenes ==
    ASSUME Sent \cap Ordenes = {}
    PROVE  Spec => [](EtapasComentadas /\ NoSeTraba)
<1>1. Init => SinOrdenes
  BY DEF Init, SinOrdenes, Resueltos, Uno, Ordenes, Vacio
<1>2. IndInv /\ SinOrdenes => EtapasComentadas /\ NoSeTraba
  <2> SUFFICES ASSUME IndInv, SinOrdenes PROVE EtapasComentadas /\ NoSeTraba
    OBVIOUS
  <2>1. Juego /\ EtapaVisible
    BY Partes DEF Nucleo
  <2>2. EtapasComentadas
    BY <2>1 DEF SinOrdenes, Resueltos, Uno, Juego, EtapasComentadas
  <2>3. NoSeTraba
    BY <2>1 DEF SinOrdenes, Resueltos, Uno, Juego, EtapaVisible, NoSeTraba
  <2> QED  BY <2>2, <2>3
<1>3. IndInv /\ SinOrdenes /\ [Next]_vars => SinOrdenes'
  BY SinOrdenesPaso
<1> QED
  BY <1>1, <1>2, <1>3, Invariante, PTL DEF Spec

\* Players who solved plug, knobs and radio find Simon open: gamesWon cannot lag
\* behind the puzzles, as long as the helper gives no order.
THEOREM SimonSeAbre ==
    ASSUME Sent \cap Ordenes = {}
    PROVE  Spec => []NoSeTraba
<1>1. EtapasComentadas /\ NoSeTraba => NoSeTraba
  OBVIOUS
<1> QED  BY <1>1, EtapasSinOrdenes, PTL

=============================================================================
