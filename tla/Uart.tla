-------------------------------- MODULE Uart --------------------------------
(* The kernel's serial port: uart.c, one port access at a time, against a      *)
(* 16550 that sends from its queue and receives while the kernel runs.         *)
(* kernel_main calls uart_initialize and uart_puts; nothing calls uart_getchar *)
(* yet, so a reader that calls it over and over follows them here.             *)
EXTENDS Integers, Sequences

CONSTANTS
  Message,   \* the string that uart_puts sends
  FifoSize,  \* places in each of the device's two queues
  Input,     \* the characters that may arrive
  MaxInput   \* bound: how many of them do

ASSUME UartAssumption ==
  /\ Message \in Seq(Nat) /\ Input \subseteq Nat
  /\ FifoSize \in Nat \ {0} /\ MaxInput \in Nat

VARIABLES
  pc,
  n,                  \* port writes made, of uart_initialize; i of uart_puts
  ier, lcr, dll, dlm, mcr,  \* the device's registers
  latchOpen,          \* history: whether the firmware left the divisor latch open
  old,                \* characters of the firmware's that are still queued
  fifo, wire,         \* the kernel's characters, queued and sent
  rx,                 \* characters received and not yet read
  kept, got,          \* history: characters that entered rx, that uart_getchar returned
  arrived             \* history: how many came

regVars == <<ier, lcr, dll, dlm, mcr, latchOpen>>
txVars  == <<old, fifo, wire>>
rxVars  == <<rx, kept, got, arrived>>
vars == <<pc, n, regVars, txVars, rxVars>>

\* How the firmware leaves the device: never used, or set to some other speed and
\* frame, with characters still to send, and its divisor latch closed or not.
Init ==
  /\ pc = "initialize" /\ n = 0
  /\ ier \in {0, 1} /\ lcr \in {0, 3, 131} /\ dll \in {1, 3} /\ dlm \in {0, 1} /\ mcr \in {0, 3}
  /\ latchOpen \in BOOLEAN /\ (latchOpen <=> lcr >= 128)
  /\ old \in 0 .. FifoSize /\ fifo = << >> /\ wire = << >>
  /\ rx = << >> /\ kept = << >> /\ got = << >> /\ arrived = 0

-----------------------------------------------------------------------------
(* The device.                                                               *)

\* Divisor latch access: ports 0 and 1 reach the divisor.
DLAB == lcr >= 128

Room == old + Len(fifo) < FifoSize

outb(port, value) ==
  /\ lcr' = IF port = 3 THEN value ELSE lcr
  /\ mcr' = IF port = 4 THEN value ELSE mcr
  /\ dll' = IF port = 0 /\ DLAB THEN value ELSE dll
  /\ dlm' = IF port = 1 /\ DLAB THEN value ELSE dlm
  /\ ier' = IF port = 1 /\ ~DLAB THEN value ELSE ier
  \* Port 2 with bits 1 and 2 set clears both queues.
  /\ old' = IF port = 2 THEN 0 ELSE old
  /\ fifo' = CASE port = 2 -> << >>
               [] port = 0 /\ ~DLAB /\ Room -> Append(fifo, value)
               [] OTHER -> fifo
  /\ rx' = IF port = 2 THEN << >> ELSE rx
  /\ kept' = IF port = 2 THEN << >> ELSE kept
  /\ UNCHANGED <<latchOpen, wire, got, arrived>>

\* The next character leaves at the speed and in the frame that are set.
Transmit ==
  /\ \/ old > 0 /\ old' = old - 1 /\ UNCHANGED <<fifo, wire>>
     \/ /\ old = 0 /\ fifo # << >> /\ fifo' = Tail(fifo)
        /\ wire' = Append(wire, [char |-> Head(fifo), divisor |-> <<dll, dlm>>, frame |-> lcr])
        /\ UNCHANGED old
  /\ UNCHANGED <<pc, n, regVars, rxVars>>

\* A character arrives, and is lost when the queue is full.
Receive ==
  /\ arrived < MaxInput /\ arrived' = arrived + 1
  /\ \E c \in Input :
       /\ rx' = IF Len(rx) < FifoSize THEN Append(rx, c) ELSE rx
       /\ kept' = IF Len(rx) < FifoSize THEN Append(kept, c) ELSE kept
  /\ UNCHANGED <<pc, n, regVars, txVars, got>>

-----------------------------------------------------------------------------
(* uart_initialize                                                           *)

\* Mutant: the divisor's high byte is left as it was.
WritesNoHighByte ==
  << <<1, 0>>, <<3, 128>>, <<0, 3>>, <<3, 3>>, <<2, 199>>, <<4, 11>> >>

\* Ports, relative to COM1, and values.
Writes ==
  << <<1, 0>>, <<3, 128>>, <<0, 3>>, <<1, 0>>, <<3, 3>>, <<2, 199>>, <<4, 11>> >>

uart_initialize ==
  /\ pc = "initialize"
  /\ outb(Writes[n + 1][1], Writes[n + 1][2])
  /\ IF n + 1 < Len(Writes) THEN n' = n + 1 /\ UNCHANGED pc
                            ELSE n' = 0 /\ pc' = "puts"

-----------------------------------------------------------------------------
(* uart_puts, uart_putchar, uart_getchar                                     *)

uart_is_transmit_buffer_empty == old = 0 /\ fifo = << >>

\* Mutant: the character is written without waiting for the one before.
PutcharBlind ==
  /\ pc = "puts" /\ n < Len(Message)
  /\ outb(0, Message[n + 1])
  /\ n' = n + 1 /\ UNCHANGED pc

\* Mutant: the wait is for a full buffer.
PutcharInverted ==
  /\ pc = "puts" /\ n < Len(Message)
  /\ ~uart_is_transmit_buffer_empty
  /\ outb(0, Message[n + 1])
  /\ n' = n + 1 /\ UNCHANGED pc

\* Mutant: the loop of uart_puts goes on to the string's end mark.
PutcharNul ==
  /\ pc = "puts" /\ n <= Len(Message)
  /\ uart_is_transmit_buffer_empty
  /\ outb(0, IF n < Len(Message) THEN Message[n + 1] ELSE 0)
  /\ n' = n + 1 /\ UNCHANGED pc

\* The polling loop of uart_putchar ends when the transmit buffer is empty.
uart_putchar ==
  /\ pc = "puts" /\ n < Len(Message)
  /\ uart_is_transmit_buffer_empty
  /\ outb(0, Message[n + 1])
  /\ n' = n + 1 /\ UNCHANGED pc

PutsDone ==
  /\ pc = "puts" /\ n >= Len(Message)
  /\ pc' = "main"
  /\ UNCHANGED <<n, regVars, txVars, rxVars>>

\* The status bit is set when there is a character, whatever the function's name says.
uart_is_receive_buffer_empty == rx # << >>

\* Mutant: the loop waits for what the name says.
GetcharByName ==
  /\ pc = "main" /\ rx = << >>
  /\ got' = Append(got, 0)
  /\ UNCHANGED <<pc, n, regVars, txVars, rx, kept, arrived>>

uart_getchar ==
  /\ pc = "main" /\ uart_is_receive_buffer_empty
  /\ got' = Append(got, Head(rx)) /\ rx' = Tail(rx)
  /\ UNCHANGED <<pc, n, regVars, txVars, kept, arrived>>

-----------------------------------------------------------------------------

kernel_main == uart_initialize \/ uart_putchar \/ PutsDone \/ uart_getchar

Next == kernel_main \/ Transmit \/ Receive

\* The kernel runs on, and the device sends what it has; nothing need arrive.
Spec == Init /\ [][Next]_vars
FairSpec == Spec /\ WF_vars(kernel_main) /\ WF_vars(Transmit)

-----------------------------------------------------------------------------
(* What the serial port promises.                                            *)

\* The variables have their types; the queues hold no more than they can.
TypeOK ==
  /\ pc \in {"initialize", "puts", "main"}
  /\ n \in Nat /\ (pc = "initialize" => n < Len(Writes)) /\ (pc # "initialize" => n <= Len(Message))
  /\ ier \in Nat /\ lcr \in Nat /\ dll \in Nat /\ dlm \in Nat /\ mcr \in Nat /\ latchOpen \in BOOLEAN
  /\ old \in Nat /\ fifo \in Seq(Nat) /\ old + Len(fifo) <= FifoSize
  /\ wire \in Seq([char: Nat, divisor: Nat \X Nat, frame: Nat])
  /\ rx \in Seq(Nat) /\ Len(rx) <= FifoSize
  /\ kept \in Seq(Nat) /\ got \in Seq(Nat) /\ arrived \in 0 .. MaxInput

\* What the kernel has put on the wire and what is still queued are the message
\* as far as uart_puts has come: no character lost to a full queue, none twice,
\* and none of the values uart_initialize writes to the same port.
WireTellsMessage ==
  [k \in DOMAIN wire |-> wire[k].char] \o fifo
    = IF pc = "initialize" THEN << >> ELSE SubSeq(Message, 1, n)

\* However the firmware had set the device, every character of the kernel's leaves
\* at 38400 baud with eight bits and no parity.  From uart_initialize on the
\* device's interrupts are off, for which the kernel has no handler, unless the
\* firmware had left the divisor latch open: then uart.c:25 writes to the divisor
\* what it means for the interrupt register, which no other write reaches.
SentAsConfigured ==
  /\ \A k \in DOMAIN wire : wire[k].divisor = <<3, 0>> /\ wire[k].frame = 3
  /\ pc # "initialize" => ier = 0 \/ latchOpen

\* uart_getchar returns the characters the device has kept, each once and in order.
GetcharInOrder == pc = "main" => got \o rx = kept

\* The whole message is sent in the end.
MessageSent == <>(pc = "main" /\ Len(wire) = Len(Message))

=============================================================================
