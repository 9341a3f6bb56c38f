---------------------------- MODULE EnchufeProofs ----------------------------
(***************************************************************************)
(* The debounce counter of the plug and its history, for every set of      *)
(* orders and every limit.                                                 *)
(***************************************************************************)
EXTENDS MaquinaEnchufe, MaquinaProofs

\* A machine with a history is a machine.
LEMMA HistoriaEsMaquina == HSpec => Spec
<1>1. HInit => Init
  BY DEF HInit
<1>2. [HNext]_<<vars, historia>> => [Next]_vars
  BY DEF HNext, HPrograma, Next
<1> QED  BY <1>1, <1>2, PTL DEF HSpec, Spec

\* A text that is served leaves plug and count alone, clears the count, or
\* counts the machine as unplugged and leaves the count standing.
LEMMA TextoYCuenta ==
    ASSUME NEW text, dispatch(text)
    PROVE  \/ UNCHANGED <<enchufada, enchufeCounter>>
           \/ enchufeCounter' = 0
           \/ enchufeCounter' = enchufeCounter /\ enchufada' = FALSE
<1>1. CASE handleReset \/ handleOn
  BY <1>1 DEF handleReset, handleOn
<1>2. ASSUME handleOff \/ handleWin
      PROVE  enchufeCounter' = enchufeCounter /\ enchufada' = FALSE
  BY <1>2 DEF handleOff, handleWin, resetState
<1>3. CASE handleSillaOn \/ handleSillaOff \/ handleTrueno
  BY <1>3 DEF handleSillaOn, handleSillaOff, handleTrueno, enchufe
<1>4. CASE handleManual
  BY <1>2, <1>4 DEF handleManual, enchufe
<1>5. CASE UNCHANGED enchufe
  BY <1>5 DEF enchufe
<1> QED  BY <1>1, <1>2, <1>3, <1>4, <1>5 DEF dispatch

\* So does every call that does not read the plug.
LEMMA SinLeer ==
    ASSUME Programa, ~Lee
    PROVE  \/ UNCHANGED <<enchufada, enchufeCounter>>
           \/ enchufeCounter' = 0
           \/ enchufeCounter' = enchufeCounter /\ enchufada' = FALSE
<1>1. CASE Enchufe
  BY <1>1 DEF Enchufe, Lee, enchufe
<1>2. CASE Enchufe2
  BY <1>2 DEF Enchufe2, Lee
<1>3. CASE Knobs \/ Radio
  BY <1>3 DEF Knobs, Radio, enchufe
<1>4. CASE Simon \/ AddMove \/ NoButton \/ RightButton
  BY <1>4 DEF Simon, AddMove, NoButton, RightButton, resto, enchufe
<1>5. CASE WrongButton \/ Timeout \/ play_winner
  BY <1>5 DEF WrongButton, Timeout, play_loser, play_winner, resto, enchufe
<1>6. CASE Rayos \/ Turbina
  BY <1>6 DEF Rayos, Turbina, enchufe
<1>7. CASE WaitPoll \/ Incoming
  <2>1. PICK text : dispatch(text)
    BY <1>7 DEF WaitPoll, Incoming, checkIncoming
  <2> QED  BY <2>1, TextoYCuenta
<1> QED
  BY <1>1, <1>2, <1>3, <1>4, <1>5, <1>6, <1>7 DEF Programa

\* A reading clears the count, or disagrees with enchufada and is counted.
LEMMA Leyendo ==
    ASSUME Programa, Lee
    PROVE  \/ enchufeCounter' = 0
           \/ /\ plug # enchufada /\ enchufada' = enchufada
              /\ enchufeCounter' = enchufeCounter + 1
<1>1. leeEnchufe
  BY DEF Lee, Programa, Enchufe, Enchufe2, Knobs, Radio, Simon, AddMove, WaitPoll,
         NoButton, RightButton, WrongButton, Timeout, play_winner, Rayos, Turbina,
         Incoming
<1> QED
  BY <1>1
  DEF leeEnchufe, sinCambio, cuentaCambio, aceptaOn, aceptaOff, handleReset

\* The history has its type.
HTipo == ultima \in BOOLEAN /\ seguidas \in 0..EnchufeLimit

\* Every step keeps the history typed and the count honest.
LEMMA CuentaPaso ==
    ASSUME TypeOK, TypeOK', HTipo, CuentaEnchufe, [HNext]_<<vars, historia>>
    PROVE  HTipo' /\ CuentaEnchufe'
<1>0. /\ EnchufeLimit \in Nat \ {0}
      /\ enchufeCounter \in 0..(EnchufeLimit - 1)
      /\ enchufeCounter' \in 0..(EnchufeLimit - 1)
      /\ plug \in BOOLEAN /\ enchufada \in BOOLEAN
      /\ ultima \in BOOLEAN /\ seguidas \in 0..EnchufeLimit
  BY EnchufeAssumption DEF TypeOK, HTipo
<1>1. CASE HPrograma /\ Lee
  <2>1. /\ ultima' = plug
        /\ seguidas' = IF plug # ultima THEN 1
                       ELSE IF seguidas < EnchufeLimit THEN seguidas + 1
                       ELSE seguidas
    BY <1>1 DEF HPrograma
  <2>2. heredado' <=> (/\ enchufeCounter' > 0
                       /\ heredado \/ enchufada' # enchufada)
    BY <1>1, Zenon DEF HPrograma
  <2>3. HTipo'
    BY <1>0, <2>1 DEF HTipo
  <2>4. CASE enchufeCounter' = 0
    BY <1>0, <2>2, <2>3, <2>4 DEF CuentaEnchufe
  <2>5. CASE /\ plug # enchufada /\ enchufada' = enchufada
             /\ enchufeCounter' = enchufeCounter + 1
    <3>1. heredado' => heredado /\ enchufada' = enchufada
      BY <2>2, <2>5
    <3>2. ASSUME ~heredado'
          PROVE  ultima' # enchufada' /\ enchufeCounter' <= seguidas'
      <4>1. ~heredado
        BY <1>0, <2>2, <2>5, <3>2
      <4>2. CASE enchufeCounter = 0
        BY <1>0, <2>1, <2>5, <4>2
      <4>3. CASE enchufeCounter > 0
        <5>1. ultima # enchufada /\ enchufeCounter <= seguidas
          BY <4>1, <4>3 DEF CuentaEnchufe
        <5>2. plug = ultima
          BY <1>0, <2>5, <5>1
        <5> QED  BY <1>0, <2>1, <2>5, <5>1, <5>2
      <4> QED  BY <1>0, <4>2, <4>3
    <3> QED  BY <2>3, <3>1, <3>2 DEF CuentaEnchufe
  <2> QED  BY <1>1, <2>4, <2>5, Leyendo DEF HPrograma
<1>2. CASE HPrograma /\ ~Lee
  <2>1. ultima' = ultima /\ seguidas' = seguidas
    BY <1>2 DEF HPrograma
  <2>2. heredado' <=> (/\ enchufeCounter' > 0
                       /\ heredado \/ enchufada' # enchufada)
    BY <1>2, Zenon DEF HPrograma
  <2>3. HTipo'
    BY <1>0, <2>1 DEF HTipo
  <2>4. CASE enchufeCounter' = 0
    BY <1>0, <2>2, <2>3, <2>4 DEF CuentaEnchufe
  <2>5. CASE enchufeCounter' = enchufeCounter /\ enchufada' \in {enchufada, FALSE}
    <3>1. heredado' => ~enchufada'
      BY <1>0, <2>2, <2>5 DEF CuentaEnchufe
    <3>2. enchufeCounter' > 0 /\ ~heredado' => ~heredado /\ enchufada' = enchufada
      BY <2>2
    <3> QED  BY <2>1, <2>3, <2>5, <3>1, <3>2 DEF CuentaEnchufe
  <2> QED  BY <1>2, <2>4, <2>5, SinLeer DEF HPrograma
<1>3. CASE (MueveEnchufe \/ Llega) /\ UNCHANGED historia
  BY <1>3 DEF MueveEnchufe, Llega, Arrive, enchufe, historia, HTipo, CuentaEnchufe
<1>4. CASE UNCHANGED <<vars, historia>>
  BY <1>4 DEF vars, enchufe, historia, HTipo, CuentaEnchufe
<1> QED  BY <1>1, <1>2, <1>3, <1>4 DEF HNext

\* Whatever orders the game master gives, the count of readings that contradict
\* the state of the plug is made of readings in a row, unless an order turned
\* the plug over; and that never helps to unplug the machine.
THEOREM CuentaSiempreHonesta == HSpec => []CuentaEnchufe
<1>1. HInit => HTipo /\ CuentaEnchufe
  <2>1. 0 \in 0..EnchufeLimit
    BY EnchufeAssumption
  <2>2. HInit => HTipo
    BY <2>1, Zenon DEF HInit, HTipo
  <2>3. HInit => enchufeCounter = 0 /\ ~heredado
    BY DEF HInit, Init
  <2> QED  BY <2>2, <2>3 DEF CuentaEnchufe
<1>2. TypeOK /\ TypeOK' /\ HTipo /\ CuentaEnchufe /\ [HNext]_<<vars, historia>>
        => HTipo' /\ CuentaEnchufe'
  BY CuentaPaso
<1> QED
  BY <1>1, <1>2, HistoriaEsMaquina, TipoCorrecto, PTL DEF HSpec

=============================================================================
