----------------------------- MODULE UartProofs -----------------------------
(* Proofs of the safety properties of Uart, for any message, any input and any *)
(* size of the device's queues.                                               *)
EXTENDS Uart, SequenceTheorems, TLAPS

-----------------------------------------------------------------------------
(* Queues.                                                                   *)

\* Concatenation of sequences of numbers is associative.
LEMMA Reassociate ==
  ASSUME NEW s \in Seq(Nat), NEW t \in Seq(Nat), NEW u \in Seq(Nat)
  PROVE  (s \o t) \o u = s \o (t \o u)
BY ConcatAssociative

\* What enters a queue comes out behind what is in it.
LEMMA QueueAppend ==
  ASSUME NEW s \in Seq(Nat), NEW q \in Seq(Nat), NEW c \in Nat
  PROVE  s \o Append(q, c) = Append(s \o q, c)
<1>1. Append(q, c) = q \o <<c>> /\ <<c>> \in Seq(Nat) /\ s \o q \in Seq(Nat)
  BY AppendIsConcat, ConcatProperties
<1>2. Append(s \o q, c) = (s \o q) \o <<c>>
  BY <1>1, AppendIsConcat
<1> QED
  BY <1>1, <1>2, Reassociate

\* Taking the head of a queue to the end of what came out before changes no order.
LEMMA QueueMove ==
  ASSUME NEW s \in Seq(Nat), NEW q \in Seq(Nat), q # << >>
  PROVE  Append(s, Head(q)) \o Tail(q) = s \o q
<1>1. Head(q) \in Nat /\ Tail(q) \in Seq(Nat) /\ <<Head(q)>> \in Seq(Nat)
  BY HeadTailProperties
<1>2. Append(s, Head(q)) = s \o <<Head(q)>>
  BY <1>1, AppendIsConcat
<1>3. <<Head(q)>> \o Tail(q) = q
  <2>1. /\ <<Head(q)>> \o Tail(q) \in Seq(Nat)
        /\ Len(<<Head(q)>> \o Tail(q)) = Len(q)
        /\ \A k \in 1 .. Len(q) : (<<Head(q)>> \o Tail(q))[k] = q[k]
    BY <1>1, LenProperties, HeadTailProperties, ConcatProperties
  <2> QED
    BY <2>1, SeqEqual
<1>4. (s \o <<Head(q)>>) \o Tail(q) = s \o (<<Head(q)>> \o Tail(q))
  BY <1>1, Reassociate, Zenon
<1> QED
  BY <1>2, <1>3, <1>4, Zenon

-----------------------------------------------------------------------------
(* The invariant.                                                            *)

\* The first n writes of uart_initialize have reached their registers: nothing of
\* the kernel's is queued, the divisor latch is open when the divisor is written
\* and, unless the firmware left it open, closed when the interrupt register is.
Initializing ==
  pc = "initialize" =>
    /\ fifo = << >> /\ wire = << >> /\ got = << >>
    /\ n \in 0 .. 1 /\ ~latchOpen => lcr < 128
    /\ n \in 2 .. 4 => lcr = 128
    /\ n \in 5 .. 6 => lcr = 3
    /\ n >= 1 => ier = 0 \/ latchOpen
    /\ n >= 3 => dll = 3
    /\ n >= 4 => dlm = 0

\* After uart_initialize the registers stay as it has set them.
Configured == pc # "initialize" => lcr = 3 /\ (ier = 0 \/ latchOpen) /\ dll = 3 /\ dlm = 0

\* What has been received is what was read and what can be read.
Kept == got \o rx = kept

\* Before the reader starts it has read nothing.
NotRead == pc # "main" => got = << >>

Sent == [k \in DOMAIN wire |-> wire[k].char]

\* The invariant the proofs carry through the kernel's and the device's steps.
IInv == TypeOK /\ Initializing /\ Configured /\ Kept /\ NotRead /\ WireTellsMessage /\ SentAsConfigured

\* The seven writes, one by one.
LEMMA WritesAre ==
  /\ Len(Writes) = 7
  /\ Writes[1] = <<1, 0>> /\ Writes[2] = <<3, 128>> /\ Writes[3] = <<0, 3>>
  /\ Writes[4] = <<1, 0>> /\ Writes[5] = <<3, 3>> /\ Writes[6] = <<2, 199>>
  /\ Writes[7] = <<4, 11>>
BY DEF Writes

\* Only the third of them is to port 0.
LEMMA WritesInRange ==
  ASSUME NEW m \in 1 .. 7
  PROVE  /\ Writes[m][1] \in Nat /\ Writes[m][2] \in Nat
         /\ Writes[m][1] = 0 => m = 3
<1>1. m = 1 \/ m = 2 \/ m = 3 \/ m = 4 \/ m = 5 \/ m = 6 \/ m = 7
  OBVIOUS
<1> QED
  BY <1>1, WritesAre

\* TypeOK in three parts, each for the steps that touch it.
Numbers ==
  /\ pc \in {"initialize", "puts", "main"}
  /\ n \in Nat /\ (pc = "initialize" => n < Len(Writes)) /\ (pc # "initialize" => n <= Len(Message))
  /\ ier \in Nat /\ lcr \in Nat /\ dll \in Nat /\ dlm \in Nat /\ mcr \in Nat /\ latchOpen \in BOOLEAN
  /\ arrived \in 0 .. MaxInput
Queues ==
  /\ old \in Nat /\ fifo \in Seq(Nat) /\ old + Len(fifo) <= FifoSize
  /\ rx \in Seq(Nat) /\ Len(rx) <= FifoSize
  /\ kept \in Seq(Nat) /\ got \in Seq(Nat)
OnWire == [char: Nat, divisor: Nat \X Nat, frame: Nat]

LEMMA TypeParts == TypeOK <=> Numbers /\ Queues /\ wire \in Seq(OnWire)
BY DEF TypeOK, Numbers, Queues, OnWire

\* What the device sends next has its type.
LEMMA NextOnWire ==
  ASSUME Numbers, Queues, fifo # << >>
  PROVE  [char |-> Head(fifo), divisor |-> <<dll, dlm>>, frame |-> lcr] \in OnWire
BY HeadTailProperties DEF Numbers, Queues, OnWire

\* One more character on the wire is one more at the end of what is sent.
LEMMA SentAppend ==
  ASSUME NEW w \in Seq(OnWire), NEW x \in OnWire
  PROVE  /\ [k \in DOMAIN w |-> w[k].char] \in Seq(Nat)
         /\ [k \in DOMAIN Append(w, x) |-> Append(w, x)[k].char]
              = Append([k \in DOMAIN w |-> w[k].char], x.char)
<1> DEFINE s == [k \in DOMAIN w |-> w[k].char]
           t == [k \in DOMAIN Append(w, x) |-> Append(w, x)[k].char]
<1>1. Len(w) \in Nat /\ DOMAIN w = 1 .. Len(w) /\ \A k \in 1 .. Len(w) : w[k].char \in Nat
  <2>1. Len(w) \in Nat /\ DOMAIN w = 1 .. Len(w)
    BY LenProperties
  <2>2. \A k \in 1 .. Len(w) : w[k] \in OnWire
    BY ElementOfSeq
  <2> QED
    BY <2>1, <2>2 DEF OnWire
<1>2. s \in [1 .. Len(w) -> Nat]
  BY <1>1
<1>3. s \in Seq(Nat) /\ Len(s) = Len(w)
  BY <1>1, <1>2, SeqDef
<1>4. /\ DOMAIN Append(w, x) = 1 .. Len(w) + 1
      /\ \A k \in 1 .. Len(w) : Append(w, x)[k] = w[k]
      /\ Append(w, x)[Len(w) + 1] = x
  BY <1>1, AppendProperties, LenProperties
<1>5. x.char \in Nat /\ \A k \in 1 .. Len(w) + 1 : k \in 1 .. Len(w) \/ k = Len(w) + 1
  BY <1>1 DEF OnWire
<1>6. /\ DOMAIN t = 1 .. Len(w) + 1
      /\ \A k \in 1 .. Len(w) : t[k] = s[k]
      /\ t[Len(w) + 1] = x.char
  BY <1>1, <1>4
<1>7. t \in Seq(Nat) /\ Len(t) = Len(w) + 1
  <2>1. \A k \in 1 .. Len(w) + 1 : t[k] \in Nat
    BY <1>2, <1>5, <1>6
  <2>2. t = [k \in 1 .. Len(w) + 1 |-> t[k]]
    BY <1>6
  <2> HIDE DEF t
  <2> DEFINE m == Len(w) + 1
  <2>3. m \in Nat /\ t \in [1 .. m -> Nat]
    BY <1>1, <2>1, <2>2
  <2> HIDE DEF m
  <2>4. t \in Seq(Nat) /\ DOMAIN t = 1 .. m
    BY <2>3, SeqDef
  <2>5. Len(t) = m
    BY <2>3, <2>4, LenProperties
  <2> QED
    BY <2>4, <2>5 DEF m
<1> HIDE DEF s, t
<1>8. /\ Append(s, x.char) \in Seq(Nat) /\ Len(Append(s, x.char)) = Len(w) + 1
      /\ \A k \in 1 .. Len(w) : Append(s, x.char)[k] = s[k]
      /\ Append(s, x.char)[Len(w) + 1] = x.char
  BY <1>3, <1>5, AppendProperties
<1>9. \A k \in 1 .. Len(w) + 1 : t[k] = Append(s, x.char)[k]
  BY <1>5, <1>6, <1>8
<1>10. t = Append(s, x.char)
  BY <1>7, <1>8, <1>9, SeqEqual
<1> QED
  BY <1>3, <1>10 DEF s, t

\* The invariant holds of the initial states.
LEMMA InitIInv == Init => IInv
<1> SUFFICES ASSUME Init PROVE IInv
  OBVIOUS
<1>1. TypeOK
  <2>1. latchOpen \in BOOLEAN
    BY Zenon DEF Init
  <2>2. /\ pc = "initialize" /\ n = 0 /\ ier \in Nat /\ lcr \in Nat /\ dll \in Nat /\ dlm \in Nat
        /\ mcr \in Nat
    BY DEF Init
  <2>3. /\ old \in Nat /\ old <= FifoSize /\ fifo = << >> /\ wire = << >> /\ rx = << >>
        /\ kept = << >> /\ got = << >> /\ arrived = 0
    BY UartAssumption DEF Init
  <2> QED
    BY <2>1, <2>2, <2>3, UartAssumption, WritesAre DEF TypeOK
<1>2. Initializing
  <2>1. lcr \in {0, 3, 131} /\ (latchOpen <=> lcr >= 128) /\ n = 0 /\ pc = "initialize"
    BY DEF Init
  <2> QED
    BY <2>1 DEF Init, Initializing
<1>4. Configured /\ Kept /\ NotRead /\ SentAsConfigured
  BY DEF Init, Configured, Kept, NotRead, SentAsConfigured
<1>3. WireTellsMessage
  BY DEF Init, WireTellsMessage
<1> QED
  BY <1>1, <1>2, <1>3, <1>4 DEF IInv

\* Every step keeps the variables in their types.
LEMMA TypeStep ==
  ASSUME IInv, [Next]_vars
  PROVE  TypeOK'
<1>0. Numbers /\ Queues /\ wire \in Seq(OnWire) /\ Len(Message) \in Nat /\ FifoSize \in Nat
      /\ FifoSize > 0 /\ Len(fifo) \in Nat
  BY TypeParts, UartAssumption, LenProperties DEF IInv, Queues
<1> SUFFICES Numbers' /\ Queues' /\ wire' \in Seq(OnWire)
  BY DEF TypeOK, Numbers, Queues, OnWire
<1> USE DEF vars, regVars, txVars, rxVars
<1>1. CASE uart_initialize
  <2>1. n + 1 \in 1 .. 7
    BY <1>0, <1>1, WritesAre DEF uart_initialize, Numbers
  <2>2. Writes[n + 1][1] \in Nat /\ Writes[n + 1][2] \in Nat
    BY <2>1, WritesInRange
  <2>3. Numbers'
    <3>1. /\ pc' \in {"initialize", "puts"} /\ n' \in Nat
          /\ (pc' = "initialize" => n' < 7) /\ (pc' # "initialize" => n' = 0)
      BY <1>0, <1>1, <2>1, WritesAre DEF uart_initialize, Numbers
    <3>2. /\ ier' \in Nat /\ lcr' \in Nat /\ dll' \in Nat /\ dlm' \in Nat /\ mcr' \in Nat
          /\ arrived' \in 0 .. MaxInput
      BY <1>0, <1>1, <2>2 DEF uart_initialize, outb, Numbers
    <3>4. latchOpen' \in BOOLEAN
      BY <1>0, <1>1, Zenon DEF uart_initialize, outb, Numbers
    <3>3. (pc' = "initialize" => n' < Len(Writes)) /\ (pc' # "initialize" => n' <= Len(Message))
      BY <1>0, <3>1, WritesAre
    <3> QED
      BY <3>1, <3>2, <3>3, <3>4 DEF Numbers
  <2>4. fifo' \in Seq(Nat) /\ old' \in Nat /\ old' + Len(fifo') <= FifoSize
    <3>1. CASE Writes[n + 1][1] = 0 /\ ~DLAB /\ Room
      <4>1. fifo' = Append(fifo, Writes[n + 1][2]) /\ old' = old
        BY <1>1, <3>1 DEF uart_initialize, outb
      <4>2. Len(fifo') = Len(fifo) + 1 /\ fifo' \in Seq(Nat)
        BY <1>0, <2>2, <4>1, AppendProperties DEF Queues
      <4> QED
        BY <1>0, <3>1, <4>1, <4>2 DEF Room, Queues
    <3>2. CASE ~(Writes[n + 1][1] = 0 /\ ~DLAB /\ Room)
      <4>1. fifo' = << >> \/ fifo' = fifo
        BY <1>1, <3>2 DEF uart_initialize, outb
      <4>2. old' = 0 \/ old' = old
        BY <1>1 DEF uart_initialize, outb
      <4>3. fifo' \in Seq(Nat) /\ Len(fifo') <= Len(fifo) /\ Len(fifo') \in Nat
        <5>1. CASE fifo' = << >>
          BY <1>0, <5>1
        <5>2. CASE fifo' = fifo
          BY <1>0, <5>2 DEF Queues
        <5> QED
          BY <4>1, <5>1, <5>2
      <4> QED
        BY <1>0, <4>2, <4>3 DEF Queues
    <3> QED
      BY <3>1, <3>2
  <2>5. (rx' = << >> \/ rx' = rx) /\ (kept' = << >> \/ kept' = kept) /\ UNCHANGED <<got, wire>>
    BY <1>1 DEF uart_initialize, outb
  <2>6. rx' \in Seq(Nat) /\ Len(rx') <= FifoSize
    <3>1. CASE rx' = << >>
      BY <1>0, <3>1, EmptySeq
    <3>2. CASE rx' = rx
      BY <1>0, <3>2, Zenon DEF Queues
    <3> QED
      BY <2>5, <3>1, <3>2
  <2>7. kept' \in Seq(Nat) /\ got' \in Seq(Nat)
    BY <1>0, <2>5, EmptySeq DEF Queues
  <2> QED
    BY <1>0, <2>3, <2>4, <2>5, <2>6, <2>7 DEF Queues
<1>2. CASE uart_putchar
  <2>1. Message[n + 1] \in Nat
    BY <1>0, <1>2, UartAssumption, ElementOfSeq DEF uart_putchar, Numbers
  <2>2. fifo = << >> /\ old = 0 /\ lcr = 3 /\ pc = "puts" /\ n < Len(Message)
    BY <1>2 DEF uart_putchar, uart_is_transmit_buffer_empty, Configured, IInv
  <2>3. UNCHANGED <<pc, regVars, old, wire, rxVars>> /\ n' = n + 1
    BY <1>2, <2>2 DEF uart_putchar, outb, DLAB
  <2>4. Room /\ ~DLAB
    BY <1>0, <2>2 DEF Room, DLAB
  <2>5. fifo' = Append(fifo, Message[n + 1])
    BY <1>2, <2>4 DEF uart_putchar, outb
  <2>6. fifo' \in Seq(Nat) /\ Len(fifo') = 1
    BY <1>0, <2>1, <2>2, <2>5, AppendProperties DEF Queues
  <2> QED
    BY <1>0, <2>2, <2>3, <2>6 DEF Numbers, Queues
<1>3. CASE PutsDone
  BY <1>0, <1>3 DEF PutsDone, Numbers, Queues
<1>4. CASE uart_getchar
  <2>1. rx # << >> /\ rx' = Tail(rx) /\ got' = Append(got, Head(rx))
        /\ UNCHANGED <<pc, n, regVars, txVars, kept, arrived>>
    BY <1>4 DEF uart_getchar, uart_is_receive_buffer_empty
  <2>2. Head(rx) \in Nat /\ rx' \in Seq(Nat) /\ Len(rx') = Len(rx) - 1 /\ Len(rx) \in Nat
    BY <1>0, <2>1, HeadTailProperties, LenProperties DEF Queues
  <2>3. got' \in Seq(Nat)
    BY <1>0, <2>1, <2>2, AppendProperties DEF Queues
  <2>4. Numbers'
    BY <1>0, <2>1, Zenon DEF Numbers
  <2>5. Len(rx') <= FifoSize
    BY <1>0, <2>2 DEF Queues
  <2> QED
    BY <1>0, <2>1, <2>2, <2>3, <2>4, <2>5, Zenon DEF Queues
<1>5. CASE Transmit
  <2>1. CASE old > 0
    <3>1. old # 0 /\ old \in Nat
      BY <1>0, <2>1 DEF Queues
    <3>2. old' = old - 1 /\ UNCHANGED <<pc, n, regVars, rxVars, fifo, wire>>
      BY <1>5, <3>1, Zenon DEF Transmit
    <3>3. Numbers'
      BY <1>0, <3>2, Zenon DEF Numbers
    <3>4. old' \in Nat /\ old' + Len(fifo') <= FifoSize
      BY <1>0, <2>1, <3>1, <3>2 DEF Queues
    <3> QED
      BY <1>0, <3>2, <3>3, <3>4, Zenon DEF Queues
  <2>2. CASE ~(old > 0)
    <3>1. fifo # << >> /\ fifo' = Tail(fifo) /\ UNCHANGED <<pc, n, regVars, rxVars, old>>
          /\ wire' = Append(wire, [char |-> Head(fifo), divisor |-> <<dll, dlm>>, frame |-> lcr])
      BY <1>5, <2>2 DEF Transmit
    <3>2. fifo' \in Seq(Nat) /\ Len(fifo') = Len(fifo) - 1
      BY <1>0, <3>1, HeadTailProperties DEF Queues
    <3>3. wire' \in Seq(OnWire)
      BY <1>0, <3>1, NextOnWire, AppendProperties
    <3>4. Numbers'
      <4>1. UNCHANGED <<pc, n, regVars, arrived>>
        BY <3>1
      <4> QED
        BY <1>0, <4>1, Zenon DEF Numbers
    <3>5. old' + Len(fifo') <= FifoSize
      <4>1. old \in Nat /\ old' = old /\ old + Len(fifo) <= FifoSize
        BY <1>0, <3>1 DEF Queues
      <4> QED
        BY <1>0, <3>2, <4>1
    <3> QED
      BY <1>0, <3>1, <3>2, <3>3, <3>4, <3>5, Zenon DEF Queues
  <2> QED
    BY <2>1, <2>2
<1>6. CASE Receive
  <2>1. PICK c \in Input :
          /\ rx' = IF Len(rx) < FifoSize THEN Append(rx, c) ELSE rx
          /\ kept' = IF Len(rx) < FifoSize THEN Append(kept, c) ELSE kept
    BY <1>6 DEF Receive
  <2>2. c \in Nat
    BY UartAssumption
  <2>3. rx' \in Seq(Nat) /\ kept' \in Seq(Nat) /\ Len(rx') <= FifoSize
    BY <1>0, <2>1, <2>2, AppendProperties, LenProperties DEF Queues
  <2>4. arrived' \in 0 .. MaxInput /\ UNCHANGED <<pc, n, regVars, txVars, got>>
    BY <1>0, <1>6, UartAssumption DEF Receive, Numbers
  <2> QED
    BY <1>0, <2>3, <2>4 DEF Numbers, Queues
<1>7. CASE UNCHANGED vars
  BY <1>0, <1>7 DEF Numbers, Queues
<1> QED
  BY <1>1, <1>2, <1>3, <1>4, <1>5, <1>6, <1>7 DEF Next, kernel_main

\* The registers are written in the order that reaches them, and then left alone.
LEMMA RegisterStep ==
  ASSUME IInv, [Next]_vars
  PROVE  Initializing' /\ Configured' /\ NotRead'
<1> USE DEF IInv, TypeOK, Initializing, Configured, NotRead, vars, regVars, txVars, rxVars
<1>1. CASE uart_initialize
  <2>1. n \in 0 .. 6
    BY <1>1, WritesAre DEF uart_initialize
  <2>9. UNCHANGED latchOpen
    BY <1>1, Zenon DEF uart_initialize, outb
  <2> USE DEF outb, DLAB, uart_initialize
  <2>2. CASE n = 0
    <3>1. DLAB => latchOpen
      BY <1>1, <2>2
    <3>2. /\ n' = 1 /\ UNCHANGED <<pc, lcr, fifo, wire, got>>
          /\ ier' = IF DLAB THEN ier ELSE 0
      BY <1>1, <2>2, WritesAre
    <3>3. ier' = 0 \/ latchOpen
      BY <3>1, <3>2, Zenon
    <3> QED
      BY <1>1, <2>2, <2>9, <3>2, <3>3
  <2>3. CASE n = 1
    BY <1>1, <2>3, WritesAre
  <2>4. CASE n = 2
    BY <1>1, <2>4, WritesAre
  <2>5. CASE n = 3
    BY <1>1, <2>5, WritesAre
  <2>6. CASE n = 4
    BY <1>1, <2>6, WritesAre
  <2>7. CASE n = 5
    BY <1>1, <2>7, WritesAre
  <2>8. CASE n = 6
    BY <1>1, <2>8, WritesAre
  <2> QED
    BY <2>1, <2>2, <2>3, <2>4, <2>5, <2>6, <2>7, <2>8
<1>2. CASE uart_putchar
  BY <1>2 DEF uart_putchar, outb, DLAB
<1>3. CASE PutsDone \/ uart_getchar
  BY <1>3 DEF PutsDone, uart_getchar
<1>4. CASE Transmit
  BY <1>4 DEF Transmit
<1>5. CASE Receive
  BY <1>5 DEF Receive
<1>6. CASE UNCHANGED vars
  BY <1>6
<1> QED
  BY <1>1, <1>2, <1>3, <1>4, <1>5, <1>6 DEF Next, kernel_main

\* What is received is lost only to a full queue, and read once.
LEMMA KeptStep ==
  ASSUME IInv, [Next]_vars
  PROVE  Kept'
<1>0. rx \in Seq(Nat) /\ got \in Seq(Nat) /\ kept \in Seq(Nat) /\ got \o rx = kept
  BY DEF IInv, TypeOK, Kept
<1> USE DEF Kept, vars, regVars, txVars, rxVars
<1>1. CASE uart_initialize
  <2>1. got = << >> /\ got' = got
    BY <1>1 DEF IInv, uart_initialize, outb, Initializing
  <2>2. UNCHANGED <<rx, kept>> \/ (rx' = << >> /\ kept' = << >>)
    BY <1>1, Zenon DEF uart_initialize, outb
  <2>3. CASE rx' = << >> /\ kept' = << >>
    BY <2>1, <2>3, EmptySeq, ConcatEmptySeq
  <2>4. CASE UNCHANGED <<rx, kept>>
    BY <1>0, <2>1, <2>4
  <2> QED
    BY <2>2, <2>3, <2>4
<1>2. CASE uart_putchar
  <2>1. UNCHANGED <<got, rx, kept>>
    BY <1>2 DEF uart_putchar, outb
  <2> QED
    BY <1>0, <2>1
<1>3. CASE PutsDone \/ Transmit
  BY <1>0, <1>3 DEF PutsDone, Transmit
<1>4. CASE uart_getchar
  BY <1>0, <1>4, QueueMove DEF uart_getchar, uart_is_receive_buffer_empty
<1>5. CASE Receive
  <2>1. PICK c \in Input :
          /\ rx' = IF Len(rx) < FifoSize THEN Append(rx, c) ELSE rx
          /\ kept' = IF Len(rx) < FifoSize THEN Append(kept, c) ELSE kept
    BY <1>5 DEF Receive
  <2>2. c \in Nat /\ got' = got
    BY <1>5, UartAssumption DEF Receive
  <2>3. got \o Append(rx, c) = Append(kept, c)
    BY <1>0, <2>2, QueueAppend
  <2> QED
    BY <1>0, <2>1, <2>2, <2>3
<1>6. CASE UNCHANGED vars
  BY <1>0, <1>6
<1> QED
  BY <1>1, <1>2, <1>3, <1>4, <1>5, <1>6 DEF Next, kernel_main

\* The message goes from the program to the queue and from there to the wire.
LEMMA MessageStep ==
  ASSUME IInv, [Next]_vars
  PROVE  WireTellsMessage'
<1> USE DEF IInv, vars, regVars, txVars, rxVars
<1>0. /\ Numbers /\ Queues /\ wire \in Seq(OnWire)
      /\ Sent \in Seq(Nat)
      /\ (WireTellsMessage <=> Sent \o fifo = IF pc = "initialize" THEN << >> ELSE SubSeq(Message, 1, n))
  <2>1. Numbers /\ Queues /\ wire \in Seq(OnWire)
    BY TypeParts DEF IInv
  <2>2. [char |-> 0, divisor |-> <<0, 0>>, frame |-> 0] \in OnWire
    BY DEF OnWire
  <2>3. Sent \in Seq(Nat)
    BY <2>1, <2>2, SentAppend DEF Sent
  <2> QED
    BY <2>1, <2>3 DEF Sent, WireTellsMessage
<1>1. CASE uart_initialize
  <2>1. Initializing'
    BY RegisterStep
  <2>2. wire = << >> /\ fifo = << >> /\ wire' = wire
    BY <1>1 DEF uart_initialize, outb, Initializing
  <2>3. fifo' = << >>
    <3>1. n + 1 \in 1 .. 7
      BY <1>0, <1>1, WritesAre DEF uart_initialize, Numbers
    <3>2. Writes[n + 1][1] = 0 => n = 2
      <4>1. Writes[n + 1][1] = 0 => n + 1 = 3
        BY <3>1, WritesInRange
      <4> QED
        BY <1>0, <4>1 DEF Numbers
    <3>3. n = 2 => DLAB
      BY <1>1 DEF uart_initialize, Initializing, DLAB
    <3> QED
      BY <1>1, <2>2, <3>2, <3>3 DEF uart_initialize, outb
  <2>4. pc' # "initialize" => n' = 0
    BY <1>1 DEF uart_initialize
  <2>5. SubSeq(Message, 1, 0) = << >>
    BY SubSeqEmpty
  <2>6. Sent' = << >>
    BY <2>2 DEF Sent
  <2> QED
    BY <2>3, <2>4, <2>5, <2>6, <1>0 DEF WireTellsMessage, Sent
<1>2. CASE uart_putchar
  <2>1. fifo = << >> /\ old = 0 /\ lcr = 3 /\ pc = "puts" /\ pc' = "puts" /\ n' = n + 1
        /\ n < Len(Message)
    BY <1>2 DEF uart_putchar, uart_is_transmit_buffer_empty, Configured
  <2>2. fifo' = <<Message[n + 1]>> /\ wire' = wire
    BY <1>2, <2>1, UartAssumption, EmptySeq DEF uart_putchar, outb, DLAB, Room
  <2>3. SubSeq(Message, 1, n + 1) = SubSeq(Message, 1, n) \o <<Message[n + 1]>>
    <3>1. n \in Nat /\ Len(Message) \in Nat /\ n + 1 \in 1 .. Len(Message) /\ (n + 1) - 1 = n
      BY <1>0, <2>1, UartAssumption, LenProperties DEF Numbers
    <3> QED
      BY <3>1, UartAssumption, SubSeqRecursiveSecond
  <2>4. Sent = SubSeq(Message, 1, n)
    BY <1>0, <2>1, ConcatEmptySeq
  <2>5. Sent' = Sent
    BY <2>2 DEF Sent
  <2> QED
    BY <2>1, <2>2, <2>3, <2>4, <2>5 DEF WireTellsMessage, Sent
<1>3. CASE PutsDone \/ uart_getchar
  BY <1>3 DEF PutsDone, uart_getchar, WireTellsMessage
<1>4. CASE Transmit
  <2>1. CASE old > 0
    <3>1. old # 0
      BY <1>0, <2>1 DEF Queues
    <3>2. UNCHANGED <<pc, n, fifo, wire>>
      BY <1>4, <3>1, Zenon DEF Transmit
    <3> QED
      BY <3>2, Zenon DEF WireTellsMessage
  <2>2. CASE ~(old > 0)
    <3> DEFINE x == [char |-> Head(fifo), divisor |-> <<dll, dlm>>, frame |-> lcr]
    <3>1. fifo # << >> /\ fifo' = Tail(fifo) /\ UNCHANGED <<pc, n>> /\ wire' = Append(wire, x)
      BY <1>4, <2>2 DEF Transmit
    <3>2. x \in OnWire /\ x.char = Head(fifo)
      BY <1>0, <3>1, NextOnWire
    <3> HIDE DEF x
    <3>3. Sent' = Append(Sent, Head(fifo))
      BY <1>0, <3>1, <3>2, SentAppend DEF Sent
    <3>4. Sent' \o fifo' = Sent \o fifo
      BY <1>0, <3>1, <3>3, QueueMove DEF Queues
    <3> QED
      BY <1>0, <3>1, <3>4 DEF WireTellsMessage, Sent
  <2> QED
    BY <2>1, <2>2
<1>5. CASE Receive
  BY <1>5 DEF Receive, WireTellsMessage
<1>6. CASE UNCHANGED vars
  BY <1>6 DEF WireTellsMessage
<1> QED
  BY <1>1, <1>2, <1>3, <1>4, <1>5, <1>6 DEF Next, kernel_main

\* No character is sent before the device is set up.
LEMMA ConfiguredStep ==
  ASSUME IInv, [Next]_vars
  PROVE  SentAsConfigured'
<1>0. Numbers /\ Queues /\ wire \in Seq(OnWire)
  BY TypeParts DEF IInv
<1> USE DEF IInv, vars, regVars, txVars, rxVars
<1>1. CASE Transmit
  <2>1. CASE old > 0
    BY <1>0, <1>1, <2>1 DEF Transmit, SentAsConfigured, Queues
  <2>2. CASE ~(old > 0)
    <3> DEFINE x == [char |-> Head(fifo), divisor |-> <<dll, dlm>>, frame |-> lcr]
    <3>1. fifo # << >> /\ UNCHANGED <<pc, regVars>> /\ wire' = Append(wire, x)
      BY <1>1, <2>2 DEF Transmit
    <3>2. pc # "initialize" /\ lcr = 3 /\ dll = 3 /\ dlm = 0
      BY <3>1 DEF Initializing, Configured
    <3>3. x.divisor = <<3, 0>> /\ x.frame = 3 /\ x \in OnWire
      BY <1>0, <3>1, <3>2, NextOnWire
    <3> HIDE DEF x
    <3>4. /\ DOMAIN wire' = 1 .. Len(wire) + 1 /\ DOMAIN wire = 1 .. Len(wire) /\ Len(wire) \in Nat
          /\ \A k \in 1 .. Len(wire) : wire'[k] = wire[k]
          /\ wire'[Len(wire) + 1] = x
      BY <1>0, <3>1, <3>3, AppendProperties, LenProperties
    <3>5. \A k \in DOMAIN wire' : k \in DOMAIN wire \/ k = Len(wire) + 1
      BY <3>4
    <3> QED
      BY <3>1, <3>3, <3>4, <3>5 DEF SentAsConfigured
  <2> QED
    BY <2>1, <2>2
<1>2. CASE uart_initialize \/ uart_putchar \/ PutsDone \/ uart_getchar \/ Receive
  <2>1. wire' = wire
    BY <1>2 DEF uart_initialize, uart_putchar, outb, PutsDone, uart_getchar, Receive
  <2> QED
    BY <2>1, RegisterStep DEF SentAsConfigured, Configured
<1>3. CASE UNCHANGED vars
  BY <1>3 DEF SentAsConfigured
<1> QED
  BY <1>1, <1>2, <1>3 DEF Next, kernel_main

-----------------------------------------------------------------------------
(* The theorems.                                                             *)

\* The invariant holds in every reachable state of the serial port.
THEOREM Invariance == Spec => []IInv
<1>1. IInv /\ [Next]_vars => IInv'
  BY TypeStep, RegisterStep, KeptStep, MessageStep, ConfiguredStep DEF IInv
<1> QED
  BY <1>1, InitIInv, PTL DEF Spec

\* TypeOK is an invariant: neither queue ever holds more than it can.
THEOREM TypeCorrect == Spec => []TypeOK
BY Invariance, PTL DEF IInv

\* The wire and the queue tell the message as far as uart_puts has come, for any
\* message: nothing lost, doubled or out of order.
THEOREM MessageInOrder == Spec => []WireTellsMessage
BY Invariance, PTL DEF IInv

\* Every character leaves at the speed and in the frame of uart_initialize, and once
\* it has run the device's interrupts are off, unless the firmware had left the divisor
\* latch open.
THEOREM SentRight == Spec => []SentAsConfigured
BY Invariance, PTL DEF IInv

\* uart_getchar returns what the device has kept, each character once and in order.
THEOREM ReadInOrder == Spec => []GetcharInOrder
<1>1. IInv => GetcharInOrder
  BY DEF IInv, Kept, GetcharInOrder
<1> QED
  BY <1>1, Invariance, PTL

=============================================================================
