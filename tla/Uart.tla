-------------------------------- MODULE Uart ---------------------------------
(***************************************************************************)
(* The receiving half of Serial on the ESP8266: the interrupt moves bytes  *)
(* from the hardware FIFO to a ring buffer while the sketch, without any   *)
(* lock, runs while (Serial.available()) Serial.read().                    *)
(*                                                                         *)
(* Source: libs/Arduino-master/cores/esp8266/{uart.c,HardwareSerial.cpp}.  *)
(*                                                                         *)
(* The interrupt runs to its end before the sketch goes on; the sketch may *)
(* be interrupted between any two of its reads.  Bytes are numbered in the *)
(* order of their arrival.                                                 *)
(***************************************************************************)
EXTENDS Integers, Sequences, SequencesExt

CONSTANTS
    Size,           \* rx_buffer->size (256)
    FifoCap,        \* bytes the hardware FIFO holds (128)
    MaxBytes        \* bound: bytes in a behaviour

UartSuficiente ==
    /\ Size \in Nat \ {0, 1} /\ FifoCap \in Nat \ {0, 1} /\ MaxBytes \in Nat

VARIABLES
    fifo,           \* the bytes in the hardware FIFO
    buffer, wpos, rpos,
    pc,             \* "afuera", "avail2", "leer", "peek2", "saca" or "avanza"
    visto,          \* wpos as the comparison in uart_rx_available() saw it
    data,           \* what uart_peek_char() returns
    llegados,       \* history: bytes that reached the chip
    leidos          \* history: what read() returned

vars == <<fifo, buffer, wpos, rpos, pc, visto, data, llegados, leidos>>

Nada == -1

\* uart_init()
Init ==
    /\ fifo = <<>>
    /\ buffer = [i \in 0..(Size - 1) |-> Nada]
    /\ wpos = 0 /\ rpos = 0
    /\ pc = "afuera" /\ visto = 0 /\ data = Nada
    /\ llegados = 0 /\ leidos = <<>>

-----------------------------------------------------------------------------

\* A byte comes down the line; a full FIFO loses it.
Llega ==
    /\ llegados < MaxBytes
    /\ llegados' = llegados + 1
    /\ fifo' = IF Len(fifo) < FifoCap THEN Append(fifo, llegados + 1) ELSE fifo
    /\ UNCHANGED <<buffer, wpos, rpos, pc, visto, data, leidos>>

\* Mutant: the slot that must stay free is filled too.
libres_Todas == ((rpos - wpos - 1) % Size) + 1

\* Bytes that fit before nextPos would meet rpos.
libres == (rpos - wpos - 1) % Size

\* The interrupt empties the FIFO.  The count is masked with 0x7F, so that a
\* FIFO of exactly 128 bytes looks empty and is left alone.
uart_isr ==
    LET caben == SubSeq(fifo, 1, IF Len(fifo) < libres THEN Len(fifo) ELSE libres)
    IN  /\ Len(fifo) % FifoCap # 0
        /\ fifo' = <<>>
        /\ buffer' = [i \in 0..(Size - 1) |->
                        LET k == ((i - wpos) % Size) + 1
                        IN  IF k <= Len(caben) THEN caben[k] ELSE buffer[i]]
        /\ wpos' = (wpos + Len(caben)) % Size
        /\ UNCHANGED <<rpos, pc, visto, data, llegados, leidos>>

\* uart_rx_available() compares wpos with rpos and then computes with wpos; the
\* compiler may keep the value it has or read it again.
mira(next) ==
    /\ visto' = wpos
    /\ pc' = next
    /\ UNCHANGED <<fifo, buffer, wpos, rpos, data, llegados, leidos>>

\* Mutant: an empty buffer counts as a full one.
available_MenorIgual(w) == IF visto <= rpos THEN w + Size - rpos ELSE w - rpos

available(w) == IF visto < rpos THEN w + Size - rpos ELSE w - rpos

\* Serial.available() is called ...
Available1 == pc = "afuera" /\ mira("avail2")

\* Mutant: the loop leaves the last byte for the next pass.
Available2_Resta ==
    /\ pc = "avail2"
    /\ \E w \in {visto, wpos} :
         pc' = IF available(w) \in {0, 1} THEN "afuera" ELSE "leer"
    /\ UNCHANGED <<fifo, buffer, wpos, rpos, visto, data, llegados, leidos>>

\* ... and returns: the body of the loop reads, or the loop ends.
Available2 ==
    /\ pc = "avail2"
    /\ \E w \in {visto, wpos} :
         pc' = IF available(w) = 0 THEN "afuera" ELSE "leer"
    /\ UNCHANGED <<fifo, buffer, wpos, rpos, visto, data, llegados, leidos>>

\* Serial.read() asks again ...
Read1 == pc = "leer" /\ mira("peek2")

\* ... peeks, or returns -1 if it finds nothing,
Read2 ==
    /\ pc = "peek2"
    /\ \E w \in {visto, wpos} :
         IF available(w) = 0 THEN data' = Nada /\ pc' = "avanza"
                             ELSE data' = buffer[rpos] /\ pc' = "saca"
    /\ UNCHANGED <<fifo, buffer, wpos, rpos, visto, llegados, leidos>>

\* and frees the slot.
Read3 ==
    /\ pc = "saca"
    /\ rpos' = (rpos + 1) % Size
    /\ leidos' = Append(leidos, data)
    /\ pc' = "avanza"
    /\ UNCHANGED <<fifo, buffer, wpos, visto, data, llegados>>

\* The sketch appends the character and calls Serial.available() again.
Sigue ==
    /\ pc = "avanza"
    /\ pc' = "afuera"
    /\ UNCHANGED <<fifo, buffer, wpos, rpos, visto, data, llegados, leidos>>

Lector == Available1 \/ Available2 \/ Read1 \/ Read2 \/ Read3 \/ Sigue

Next == Llega \/ uart_isr \/ Lector

Spec == Init /\ [][Next]_vars

\* The sketch polls Serial and a pending interrupt is served.
FairSpec == Spec /\ WF_vars(Lector) /\ WF_vars(uart_isr)

-----------------------------------------------------------------------------

\* The bytes between rpos and wpos.
cola == [i \in 1..((wpos - rpos) % Size) |-> buffer[(rpos + i - 1) % Size]]

\* Ranges.
TypeOK ==
    /\ pc \in {"afuera", "avail2", "leer", "peek2", "saca", "avanza"}
    /\ fifo \in Seq(1..llegados) /\ Len(fifo) <= FifoCap
    /\ buffer \in [0..(Size - 1) -> 0..llegados \cup {Nada}]
    /\ wpos \in 0..(Size - 1) /\ rpos \in 0..(Size - 1)
    /\ visto \in 0..(Size - 1)
    /\ data \in 1..llegados \cup {Nada}
    /\ llegados \in 0..MaxBytes
    /\ leidos \in Seq(1..llegados)

\* available() may be computed from two different values of wpos, and yet what
\* it says can be relied on: read() then finds a byte, never the -1 that a
\* sketch would append to its text, and it is the oldest one.
LecturaSegura ==
    /\ pc \in {"leer", "peek2", "saca"} => cola # <<>>
    /\ pc = "saca" => data = cola[1]
    /\ pc = "avanza" => data # Nada

\* The wpos that a comparison saw may be old: it lies within the queue, and
\* before a read it is not its beginning.
VistoValido ==
    /\ pc \in {"avail2", "peek2"} => (visto - rpos) % Size <= Len(cola)
    /\ pc = "peek2" => visto # rpos

\* What was read, what is queued and what is still in the hardware.
Recibidos == leidos \o cola \o fifo

\* Nothing is read twice or out of order, nor ever will be.
EnOrden ==
    \A i, j \in 1..Len(Recibidos) : i < j => Recibidos[i] < Recibidos[j]

\* What holds in every state.
UartInv ==
    /\ TypeOK /\ cola \in Seq(1..llegados)
    /\ LecturaSegura /\ VistoValido /\ EnOrden

\* The ring buffer is a queue of Size - 1 bytes behind the hardware FIFO.
F == INSTANCE Fifo WITH Capacidad <- Size - 1, entrada <- fifo

\* Every byte leaves the FIFO and the buffer, as long as the FIFO is never
\* caught at exactly FifoCap bytes, which the interrupt does not see.
BytesTomados ==
    [](Len(fifo) < FifoCap) => <>[](fifo = <<>> /\ wpos = rpos)

=============================================================================
