--------------------------- MODULE TelefonoProofs ----------------------------
(***************************************************************************)
(* What is proved of Telefono, for every number, every base and all        *)
(* limits that satisfy the assumptions.                                    *)
(***************************************************************************)
EXTENDS Telefono, SequenceTheorems, TLAPS

USE BaseAssumption, ObjetivoAssumption, TiemposAssumption, PasadasAssumption

-----------------------------------------------------------------------------
(* Helpers of a pass *)

\* Adding the time of a pass keeps a time in range and never makes it smaller.
LEMMA SumaCrece ==
    ASSUME NEW t \in 0..Tarde, NEW p \in Pasadas
    PROVE  Suma(t, p) \in 0..Tarde /\ Suma(t, p) >= t
BY DEF Suma, Tarde

\* The time since the last change stays in range.
LEMMA EsperaTipo ==
    ASSUME TypeOK, NEW p \in Pasadas
    PROVE  espera(p) \in 0..Tarde
<1>1. Suma(desde, p) \in 0..Tarde
  BY SumaCrece DEF TypeOK
<1> QED
  BY <1>1 DEF espera, Tarde

\* TypeOK without its sequences.
TypeEscalar ==
    /\ pc \in {"http", "cuerpo"}
    /\ linea \in Lecturas /\ lastState \in Lecturas /\ trueState \in Lecturas
    /\ tuboUp \in BOOLEAN /\ needToPrint \in BOOLEAN /\ done \in BOOLEAN
    /\ count \in 0..Base
    /\ encendido \in (HangTime + 1)..Tarde
    /\ desde \in 0..Tarde
    /\ pedido \in {"nada", "reset", "manual"}
    /\ anterior \in Lecturas

\* A number of digits that has at most one too many.
Corto(num) == num \in Seq(Digitos) /\ Len(num) <= Len(Objetivo) + 1

\* The empty number is one.
LEMMA CortoVacio == Corto(<<>>)
<1>1. Len(Objetivo) \in Nat
  BY Zenon, LenProperties
<1> QED
  BY <1>1 DEF Corto

\* So is the number to be dialled.
LEMMA CortoObjetivo == Corto(Objetivo)
<1>1. Len(Objetivo) \in Nat
  BY Zenon, LenProperties
<1> QED
  BY <1>1 DEF Corto, Digitos

\* A digit more keeps it one, since Agrega stops at the limit.
LEMMA CortoAgrega ==
    ASSUME NEW num, Corto(num), NEW d \in Digitos
    PROVE  Corto(Agrega(num, d))
<1>1. CASE Len(num) > Len(Objetivo)
  BY <1>1 DEF Agrega
<1>2. CASE ~(Len(num) > Len(Objetivo))
  <2>1. Agrega(num, d) = Append(num, d)
    BY <1>2 DEF Agrega
  <2>2. /\ Append(num, d) \in Seq(Digitos)
        /\ Len(Append(num, d)) = Len(num) + 1
    BY AppendProperties DEF Corto
  <2>3. Len(num) \in Nat /\ Len(Objetivo) \in Nat
    BY LenProperties DEF Corto
  <2>4. Len(num) + 1 <= Len(Objetivo) + 1
    BY <1>2, <2>3
  <2> QED
    BY <2>1, <2>2, <2>4 DEF Corto
<1> QED
  BY <1>1, <1>2

\* The number stays a number throughout a pass.
LEMMA NumeroTipo ==
    ASSUME TypeOK, NEW p \in Pasadas
    PROVE  Corto(marcado(p)) /\ Corto(numero(p))
<1>1. count % Base \in Digitos
  BY DEF TypeOK, Digitos
<1>2. Corto(fullnum)
  BY DEF TypeOK, Corto
<1>3. Corto(Agrega(fullnum, count % Base))
  BY <1>1, <1>2, CortoAgrega
<1>4. Corto(marcado(p))
  BY <1>2, <1>3, CortoVacio, Zenon DEF marcado
<1> QED
  BY <1>4, CortoVacio, Zenon DEF numero

\* The tests that send a packet exclude each other.
LEMMA Excluyentes ==
    ASSUME TypeOK, NEW p \in Pasadas
    PROVE  /\ ~(cuelga(p) /\ descuelga(p))
           /\ (cuelga(p) \/ descuelga(p)) => ~vence(p)
           /\ (cuelga(p) \/ descuelga(p) \/ vence(p)) => numero(p) = <<>>
           /\ numero(p) = <<>> => ~acierta(p) /\ ~falla(p)
           /\ ~(acierta(p) /\ falla(p))
<1>1. ~(cuelga(p) /\ descuelga(p))
  BY DEF cuelga, descuelga, HIGH, PASIVO
<1>2. (cuelga(p) \/ descuelga(p)) => marcado(p) = <<>>
  BY DEF marcado
<1>3. (cuelga(p) \/ descuelga(p)) => ~vence(p)
  BY <1>2 DEF vence
<1>4. (cuelga(p) \/ descuelga(p) \/ vence(p)) => numero(p) = <<>>
  BY <1>2 DEF numero
<1>5. numero(p) = <<>> => ~acierta(p) /\ ~falla(p)
  <2>1. Objetivo # <<>> /\ Len(<<>>) = 0
    OBVIOUS
  <2> QED
    BY <2>1 DEF acierta, falla
<1>6. ~(acierta(p) /\ falla(p))
  BY DEF falla
<1> QED
  BY <1>1, <1>3, <1>4, <1>5, <1>6

\* One packet, or none, is a sequence of packets.
LEMMA EnviadoTipo ==
    ASSUME NEW e \in {<<>>, <<"UP">>, <<"DOWN">>, <<"WIN">>, <<"FAIL">>}
    PROVE  e \in Seq({"UP", "DOWN", "WIN", "FAIL"})
<1>1. CASE e = <<>>
  BY <1>1
<1>2. CASE e = <<"UP">>
  BY <1>2
<1>3. CASE e = <<"DOWN">>
  BY <1>3
<1>4. CASE e = <<"WIN">>
  BY <1>4
<1>5. CASE e = <<"FAIL">>
  BY <1>5
<1> QED
  BY <1>1, <1>2, <1>3, <1>4, <1>5

\* What a pass sends.
LEMMA Envia ==
    ASSUME TypeOK, NEW p \in Pasadas, lectura(p)
    PROVE  /\ enviado' \in {<<>>, <<"UP">>, <<"DOWN">>, <<"WIN">>, <<"FAIL">>}
           /\ cuelga(p) \/ descuelga(p) \/ vence(p) \/ acierta(p) \/ falla(p)
                => enviado' # <<>>
<1>0. enviado' = Si(cuelga(p), "DOWN") \o Si(descuelga(p), "UP")
                   \o Si(vence(p), "FAIL") \o Si(acierta(p), "WIN")
                   \o Si(falla(p), "FAIL")
  BY DEF lectura
<1>1. CASE cuelga(p)
  <2>1. ~descuelga(p) /\ ~vence(p) /\ ~acierta(p) /\ ~falla(p)
    BY <1>1, Excluyentes
  <2> QED
    BY <1>0, <1>1, <2>1 DEF Si
<1>2. CASE descuelga(p)
  <2>1. ~cuelga(p) /\ ~vence(p) /\ ~acierta(p) /\ ~falla(p)
    BY <1>2, Excluyentes
  <2> QED
    BY <1>0, <1>2, <2>1 DEF Si
<1>3. CASE vence(p)
  <2>1. ~cuelga(p) /\ ~descuelga(p) /\ ~acierta(p) /\ ~falla(p)
    BY <1>3, Excluyentes
  <2> QED
    BY <1>0, <1>3, <2>1 DEF Si
<1>4. CASE ~cuelga(p) /\ ~descuelga(p) /\ ~vence(p)
  <2>1. CASE acierta(p)
    <3>1. ~falla(p)
      BY <2>1, Excluyentes
    <3> QED
      BY <1>0, <1>4, <2>1, <3>1 DEF Si
  <2>2. CASE ~acierta(p) /\ falla(p)
    BY <1>0, <1>4, <2>2 DEF Si
  <2>3. CASE ~acierta(p) /\ ~falla(p)
    BY <1>0, <1>4, <2>3 DEF Si
  <2> QED
    BY <2>1, <2>2, <2>3
<1> QED
  BY <1>1, <1>2, <1>3, <1>4

-----------------------------------------------------------------------------
(* The invariant *)

\* setup() establishes the invariant.
LEMMA InicioInv == Init => TelefonoInv
<1> SUFFICES ASSUME Init PROVE TelefonoInv
  OBVIOUS
<1>1. fullnum \in Seq(Digitos) /\ Len(fullnum) <= Len(Objetivo) + 1
  BY CortoVacio DEF Init, Corto
<1>2. Len(fullnum) < Len(Objetivo)
  <2>1. Len(Objetivo) \in Nat
    BY LenProperties
  <2> QED
    BY <2>1 DEF Init
<1>3. enviado \in Seq({"UP", "DOWN", "WIN", "FAIL"})
  BY EnviadoTipo DEF Init
<1>4. TypeEscalar
  <2>1. /\ count \in 0..Base /\ encendido \in (HangTime + 1)..Tarde
        /\ desde \in 0..Tarde
    BY DEF Init, Tarde
  <2>2. /\ linea \in Lecturas /\ lastState \in Lecturas
        /\ trueState \in Lecturas /\ anterior \in Lecturas
    BY DEF Init, Lecturas
  <2>3. tuboUp \in BOOLEAN /\ needToPrint \in BOOLEAN /\ done \in BOOLEAN
    BY DEF Init
  <2>4. pc \in {"http", "cuerpo"} /\ pedido \in {"nada", "reset", "manual"}
    BY DEF Init
  <2> QED
    BY <2>1, <2>2, <2>3, <2>4 DEF TypeEscalar
<1>5. TypeOK
  BY <1>1, <1>3, <1>4 DEF TypeEscalar, TypeOK
<1> QED
  BY <1>2, <1>5 DEF Init, TelefonoInv, PulsosPendientes, NumeroDecidido,
                    MemoriaLectura

\* A request disturbs at most the number and the debouncing state.
LEMMA PedidoInv == TelefonoInv /\ handleClient => TelefonoInv'
<1> SUFFICES ASSUME TelefonoInv, handleClient PROVE TelefonoInv'
  OBVIOUS
<1> USE DEF TelefonoInv
<1>1. Len(Objetivo) \in Nat
  BY LenProperties
<1>2. CASE pedido' = "reset" /\ handleReset(LOW, encendido)
  <2>1. Corto(fullnum')
    BY <1>2, CortoVacio DEF handleReset
  <2>2. TypeOK'
    <3>1. enviado' \in Seq({"UP", "DOWN", "WIN", "FAIL"})
      BY EnviadoTipo DEF handleClient
    <3>2. encendido \in 0..Tarde
      BY DEF TypeOK, Tarde
    <3>3. TypeEscalar'
      <4>1. /\ count' \in 0..Base /\ encendido' \in (HangTime + 1)..Tarde
            /\ desde' \in 0..Tarde
        BY <1>2, <3>2 DEF handleClient, handleReset, TypeOK, Tarde
      <4>2. /\ linea' \in Lecturas /\ lastState' \in Lecturas
            /\ trueState' \in Lecturas /\ anterior' \in Lecturas
        BY <1>2, <3>2 DEF handleClient, handleReset, TypeOK, Lecturas
      <4>3. tuboUp' \in BOOLEAN /\ needToPrint' \in BOOLEAN /\ done' \in BOOLEAN
        BY <1>2, <3>2 DEF handleClient, handleReset, TypeOK
      <4>4. pc' \in {"http", "cuerpo"} /\ pedido' \in {"nada", "reset", "manual"}
        BY <1>2, <3>2 DEF handleClient, handleReset, TypeOK
      <4> QED
        BY <4>1, <4>2, <4>3, <4>4 DEF TypeEscalar
    <3> QED
      BY <2>1, <3>1, <3>3 DEF TypeOK, TypeEscalar, Corto
  <2>3. Len(fullnum') < Len(Objetivo)
    BY <1>1, <1>2 DEF handleReset
  <2> QED
    BY <1>2, <2>2, <2>3 DEF handleClient, handleReset, PulsosPendientes,
                            NumeroDecidido, MemoriaLectura
<1>3. CASE pedido' = "manual" /\ handleManual
  <2>1. Corto(fullnum')
    BY <1>3, CortoObjetivo DEF handleManual
  <2>2. TypeOK'
    BY <1>3, <2>1 DEF handleClient, handleManual, TypeOK, Corto
  <2> QED
    BY <1>3, <2>2 DEF handleClient, handleManual, PulsosPendientes,
                      NumeroDecidido, MemoriaLectura
<1>4. CASE /\ pedido' = "nada"
           /\ UNCHANGED <<needToPrint, count, lastState, trueState, desde,
                          fullnum, done>>
  <2>1. TypeOK'
    BY <1>4 DEF handleClient, TypeOK
  <2> QED
    BY <1>4, <2>1 DEF handleClient, PulsosPendientes, NumeroDecidido,
                      MemoriaLectura
<1> QED
  BY <1>2, <1>3, <1>4 DEF handleClient

\* The variables every pass sets keep their types.
LEMMA LecturaTipo ==
    ASSUME TypeOK, NEW p \in Pasadas, lectura(p)
    PROVE  /\ encendido' \in (HangTime + 1)..Tarde
           /\ tuboUp' \in BOOLEAN
           /\ enviado' \in Seq({"UP", "DOWN", "WIN", "FAIL"})
           /\ anterior' = linea
<1>1. encendido' \in (HangTime + 1)..Tarde
  <2>1. encendido \in 0..Tarde
    BY DEF TypeOK, Tarde
  <2>2. Suma(encendido, p) \in 0..Tarde /\ Suma(encendido, p) >= encendido
    BY <2>1, SumaCrece
  <2> QED
    BY <2>2 DEF TypeOK, lectura, Tarde
<1>2. tuboUp' \in BOOLEAN
  BY Zenon DEF lectura
<1>3. enviado' \in Seq({"UP", "DOWN", "WIN", "FAIL"})
  BY Envia, EnviadoTipo
<1> QED
  BY <1>1, <1>2, <1>3 DEF lectura

\* A pass that goes on with the number.
LEMMA SigueInv ==
    ASSUME TelefonoInv, NEW p \in Pasadas, pc = "cuerpo", lectura(p), sigue(p),
           pc' = "http", UNCHANGED <<linea, pedido>>
    PROVE  TelefonoInv'
<1> DEFINE pulso == estable(p) /\ linea = HIGH
<1>0. TypeOK
  BY DEF TelefonoInv
<1>1. needToPrint' <=> pulso \/ (needToPrint /\ ~termina(p))
  BY Zenon DEF sigue
<1>2. done' <=> done \/ acierta(p)
  BY Zenon DEF sigue
<1>3. needToPrint' \in BOOLEAN /\ done' \in BOOLEAN
  BY Zenon DEF sigue
<1>4. count' \in 0..Base /\ (count' > 0 <=> needToPrint')
  <2> DEFINE c == IF termina(p) THEN 0 ELSE count
  <2>1. c \in 0..Base /\ (c > 0 <=> needToPrint /\ ~termina(p))
    <3>1. count \in 0..Base /\ (needToPrint <=> count > 0)
      BY DEF TelefonoInv, TypeOK, PulsosPendientes
    <3>2. CASE termina(p)
      BY <3>2
    <3>3. CASE ~termina(p)
      BY <3>1, <3>3
    <3> QED
      BY <3>2, <3>3
  <2>2. count' = IF pulso THEN Pulso(c) ELSE c
    BY DEF sigue
  <2>3. Pulso(c) \in 1..Base
    BY <2>1 DEF Pulso
  <2> HIDE DEF c, pulso
  <2>4. CASE pulso
    BY <1>1, <2>2, <2>3, <2>4
  <2>5. CASE ~pulso
    BY <1>1, <2>1, <2>2, <2>5
  <2> QED
    BY <2>4, <2>5
<1>5. Corto(fullnum')
  BY <1>0, NumeroTipo DEF sigue
<1>6. espera(p) \in 0..Tarde
  BY <1>0, EsperaTipo
<1>7. TypeOK'
  BY <1>0, <1>3, <1>4, <1>5, <1>6, LecturaTipo DEF TypeOK, sigue, Corto
<1>8. ~done' => Len(fullnum') < Len(Objetivo)
  <2>1. Len(Objetivo) \in Nat /\ Len(fullnum') \in Nat
    BY <1>5, LenProperties DEF Corto
  <2>2. ~done' => ~(Len(fullnum') + 1 > Len(Objetivo))
    BY <1>2 DEF sigue, falla
  <2> QED
    BY <2>1, <2>2
<1> QED
  BY <1>4, <1>7, <1>8 DEF TelefonoInv, PulsosPendientes, NumeroDecidido,
                          MemoriaLectura, sigue, lectura

\* A pass that finds the number wrong.
LEMMA EquivocadoInv ==
    ASSUME TelefonoInv, NEW p \in Pasadas, pc = "cuerpo", lectura(p),
           equivocado(p), pc' = "http", UNCHANGED <<linea, pedido>>
    PROVE  TelefonoInv'
<1>0. TypeOK
  BY DEF TelefonoInv
<1>1. Corto(fullnum')
  BY CortoVacio DEF equivocado, handleReset
<1>2. Suma(encendido, p) \in 0..Tarde
  <2>1. encendido \in 0..Tarde
    BY <1>0 DEF TypeOK, Tarde
  <2> QED
    BY <2>1, SumaCrece
<1>3. TypeOK'
  <2>1. TypeEscalar'
    <3>1. /\ count' \in 0..Base /\ encendido' \in (HangTime + 1)..Tarde
          /\ desde' \in 0..Tarde
      BY <1>0, <1>2, LecturaTipo DEF TypeOK, equivocado, handleReset, Tarde
    <3>2. /\ linea' \in Lecturas /\ lastState' \in Lecturas
          /\ trueState' \in Lecturas /\ anterior' \in Lecturas
      BY <1>0, <1>2, LecturaTipo DEF TypeOK, equivocado, handleReset, Lecturas
    <3>3. tuboUp' \in BOOLEAN /\ needToPrint' \in BOOLEAN /\ done' \in BOOLEAN
      BY <1>0, <1>2, LecturaTipo DEF TypeOK, equivocado, handleReset
    <3>4. pc' \in {"http", "cuerpo"} /\ pedido' \in {"nada", "reset", "manual"}
      BY <1>0, <1>2, LecturaTipo DEF TypeOK, equivocado, handleReset
    <3> QED
      BY <3>1, <3>2, <3>3, <3>4 DEF TypeEscalar
  <2>2. enviado' \in Seq({"UP", "DOWN", "WIN", "FAIL"})
    BY <1>0, LecturaTipo
  <2> QED
    BY <1>1, <2>1, <2>2 DEF TypeOK, TypeEscalar, Corto
<1>4. Len(fullnum') < Len(Objetivo)
  <2>1. Len(Objetivo) \in Nat
    BY LenProperties
  <2> QED
    BY <2>1 DEF equivocado, handleReset
<1> QED
  BY <1>3, <1>4 DEF TelefonoInv, PulsosPendientes, NumeroDecidido,
                    MemoriaLectura, equivocado, handleReset, lectura

\* Every step keeps it.
LEMMA PasoInv == TelefonoInv /\ [Next]_vars => TelefonoInv'
<1> SUFFICES ASSUME TelefonoInv, [Next]_vars PROVE TelefonoInv'
  OBVIOUS
<1>1. CASE handleClient
  BY <1>1, PedidoInv
<1>2. CASE Cuerpo
  BY <1>2, SigueInv, EquivocadoInv DEF Cuerpo
<1>3. CASE MueveLinea
  BY <1>3 DEF MueveLinea, TelefonoInv, TypeOK, PulsosPendientes,
              NumeroDecidido, MemoriaLectura
<1>4. CASE UNCHANGED vars
  BY <1>4 DEF vars, TelefonoInv, TypeOK, PulsosPendientes, NumeroDecidido,
              MemoriaLectura
<1> QED
  BY <1>1, <1>2, <1>3, <1>4 DEF Next, Programa

\* The telephone's state is always consistent: every counter in range, a digit
\* waiting exactly when pulses were counted, no complete number undecided.
THEOREM TelefonoSeguro == Spec => []TelefonoInv
<1> QED
  BY InicioInv, PasoInv, PTL DEF Spec

\* No pass sends two packets, although three independent tests may send one.
THEOREM UnSoloPaquete == Spec => []UnPaquete
<1>1. Init => UnPaquete
  BY DEF Init, UnPaquete
<1>2. TelefonoInv /\ UnPaquete /\ [Next]_vars => UnPaquete'
  <2> SUFFICES ASSUME TelefonoInv, UnPaquete, [Next]_vars PROVE UnPaquete'
    OBVIOUS
  <2>1. CASE Cuerpo
    <3>1. PICK p \in Pasadas : lectura(p)
      BY <2>1 DEF Cuerpo
    <3>2. enviado' \in {<<>>, <<"UP">>, <<"DOWN">>, <<"WIN">>, <<"FAIL">>}
      BY <3>1, Envia DEF TelefonoInv
    <3>3. ASSUME NEW e \in {<<>>, <<"UP">>, <<"DOWN">>, <<"WIN">>, <<"FAIL">>}
          PROVE  Len(e) <= 1
      <4>1. CASE e = <<>>
        BY <4>1
      <4>2. CASE e = <<"UP">>
        BY <4>2
      <4>3. CASE e = <<"DOWN">>
        BY <4>3
      <4>4. CASE e = <<"WIN">>
        BY <4>4
      <4>5. CASE e = <<"FAIL">>
        BY <4>5
      <4> QED
        BY <3>3, <4>1, <4>2, <4>3, <4>4, <4>5
    <3> QED
      BY <3>2, <3>3 DEF UnPaquete
  <2>2. CASE handleClient
    BY <2>2 DEF handleClient, UnPaquete
  <2>3. CASE MueveLinea \/ UNCHANGED vars
    BY <2>3 DEF MueveLinea, vars, UnPaquete
  <2> QED
    BY <2>1, <2>2, <2>3 DEF Next, Programa
<1> QED
  BY <1>1, <1>2, TelefonoSeguro, PTL DEF Spec

\* A pulse is counted only after two equal readings, whatever reset the
\* debouncing state in between.
THEOREM PulsoSiempreConfirmado == Spec => PulsoConfirmado
<1>1. TelefonoInv /\ [Next]_vars =>
        [trueState' = HIGH /\ trueState # HIGH =>
           linea = HIGH /\ anterior = HIGH]_vars
  <2> SUFFICES ASSUME TelefonoInv, Next, trueState' = HIGH, trueState # HIGH
               PROVE  linea = HIGH /\ anterior = HIGH
    OBVIOUS
  <2>1. CASE handleClient
    BY <2>1 DEF handleClient, handleReset, handleManual, LOW, HIGH
  <2>2. CASE MueveLinea
    BY <2>2 DEF MueveLinea
  <2>3. CASE Cuerpo
    <3>1. PICK p \in Pasadas : sigue(p) \/ equivocado(p)
      BY <2>3 DEF Cuerpo
    <3>2. ~equivocado(p)
      BY DEF equivocado, handleReset, LOW, HIGH
    <3>3. estable(p) /\ linea = HIGH
      BY <3>1, <3>2 DEF sigue
    <3>4. linea = lastState
      BY <3>3 DEF estable, espera
    <3> QED
      BY <3>3, <3>4 DEF TelefonoInv, MemoriaLectura, LOW, HIGH
  <2> QED
    BY <2>1, <2>2, <2>3 DEF Next, Programa
<1> QED
  BY <1>1, TelefonoSeguro, PTL DEF Spec, PulsoConfirmado

\* After the win only the receiver is reported, until a reset.
THEOREM CalladoSiempre == Spec => CalladoTrasGanar
<1>1. TelefonoInv /\ [Next]_vars =>
        [Pasada /\ done =>
           done' /\ enviado' \in {<<>>, <<"UP">>, <<"DOWN">>}]_vars
  <2> SUFFICES ASSUME TelefonoInv, Next, Pasada, done
               PROVE  done' /\ enviado' \in {<<>>, <<"UP">>, <<"DOWN">>}
    OBVIOUS
  <2>1. Cuerpo
    BY DEF Next, Programa, Pasada, handleClient, MueveLinea
  <2>2. PICK p \in Pasadas : lectura(p) /\ (sigue(p) \/ equivocado(p))
    BY <2>1 DEF Cuerpo
  <2>3. ~vence(p) /\ ~acierta(p) /\ ~falla(p)
    BY DEF vence, acierta, falla
  <2>4. done'
    BY <2>2, <2>3, Zenon DEF sigue, equivocado
  <2>5. enviado' \in {<<>>, <<"UP">>, <<"DOWN">>}
    <3>1. enviado' = Si(cuelga(p), "DOWN") \o Si(descuelga(p), "UP")
                       \o <<>> \o <<>> \o <<>>
      BY <2>2, <2>3 DEF lectura, Si
    <3>2. CASE cuelga(p)
      <4>1. ~descuelga(p)
        BY <3>2, Excluyentes DEF TelefonoInv
      <4> QED
        BY <3>1, <3>2, <4>1 DEF Si
    <3>3. CASE descuelga(p) /\ ~cuelga(p)
      BY <3>1, <3>3 DEF Si
    <3>4. CASE ~cuelga(p) /\ ~descuelga(p)
      BY <3>1, <3>4 DEF Si
    <3> QED
      BY <3>2, <3>3, <3>4
  <2> QED
    BY <2>4, <2>5
<1> QED
  BY <1>1, TelefonoSeguro, PTL DEF Spec, CalladoTrasGanar

\* The pass that serves /manual before the win sends a packet: if neither the
\* receiver nor the long silence empties the number, it is the right one, or the
\* right one with the digit that was waiting, one too long.
THEOREM ManualSiempreResponde == Spec => ManualResponde
<1>1. TelefonoInv /\ [Next]_vars =>
        [Pasada /\ pedido = "manual" /\ ~done => enviado' # <<>>]_vars
  <2> SUFFICES ASSUME TelefonoInv, Next, Pasada, pedido = "manual", ~done
               PROVE  enviado' # <<>>
    OBVIOUS
  <2>0. TypeOK /\ fullnum = Objetivo
    BY DEF TelefonoInv, NumeroDecidido, Pasada
  <2>1. Cuerpo
    BY DEF Next, Programa, Pasada, handleClient, MueveLinea
  <2>2. PICK p \in Pasadas : lectura(p)
    BY <2>1 DEF Cuerpo
  <2>3. ASSUME ~cuelga(p), ~descuelga(p), ~vence(p), ~acierta(p)
        PROVE  falla(p)
    <3>1. numero(p) = marcado(p) /\ numero(p) # Objetivo
      BY <2>3 DEF numero, acierta
    <3>2. numero(p) = Agrega(Objetivo, count % Base)
      BY <2>0, <2>3, <3>1 DEF marcado
    <3>3. Len(Objetivo) \in Nat
      BY LenProperties
    <3>4. numero(p) = Append(Objetivo, count % Base)
      BY <3>2, <3>3 DEF Agrega
    <3>5. count % Base \in Digitos
      BY <2>0 DEF TypeOK, Digitos
    <3>6. Len(numero(p)) = Len(Objetivo) + 1
      BY <3>4, <3>5, AppendProperties
    <3> QED
      BY <2>3, <3>3, <3>6 DEF falla
  <2> QED
    BY <2>0, <2>2, <2>3, Envia
<1> QED
  BY <1>1, TelefonoSeguro, PTL DEF Spec, ManualResponde

=============================================================================
