------------------------------- MODULE Console ------------------------------
(* How the bootloader speaks: debug_print_line (debug.c), the serial port it   *)
(* prefers (serial.c), the shared error-message buffer and                     *)
(* check_for_fatal_error (error.c), and the prompt for a key (main.c).         *)
(*                                                                             *)
(* debug_print_line and print_to_serial_out call each other, so their frames   *)
(* are a stack.  A line is its kind and the status it reports; what reaches an *)
(* output is the line and the status that its text really shows.               *)
EXTENDS Integers, Sequences

CONSTANTS
  Errors,       \* the statuses firmware calls fail with
  MaxDepth      \* nested calls of debug_print_line that the machine's stack has room for

None == "none"
NOT_FOUND == "NOT_FOUND"
DEVICE_ERROR == "DEVICE_ERROR"

\* efi_main knows the missing serial port by NOT_FOUND, and print_to_serial_out
\* returns DEVICE_ERROR when a part of the line was sent.
ASSUME ErrorsAssumption ==
  {NOT_FOUND, DEVICE_ERROR} \subseteq Errors /\ None \notin Errors /\ MaxDepth \in Nat \ {0}

VARIABLES
  protocol,    \* whether serial_service.protocol is set
  stack,       \* frames of debug_print_line, the innermost first
  error_message_buffer,
  serialOut, conOut,  \* what the serial port and the console have shown
  pc, status,  \* of efi_main: where it goes on when the stack is empty
  failures,    \* Writes that have failed since the program last asked for a line
  issued       \* history: the lines the program has asked to print

vars == <<protocol, stack, error_message_buffer, serialOut, conOut, pc, status,
          failures, issued>>

Kinds == {"locating", "configuring", "initialising", "fatal", "press any key",
          "write error", "short write", "serial error"}
Line == [kind: Kinds, status: Errors \cup {None}]
Shown == [line: Line, text: Errors \cup {None}]
Frame == {f \in [line: Line, text: Errors \cup {None}, result: Errors \cup {None},
                 pc: {"debug_print_line", "Write", "failed", "overflow"}] :
            f.pc = "failed" <=> f.result # None}

L(kind, s) == [kind |-> kind, status |-> s]

\* What a line's text shows: the error_message_buffer it is formatted from.
Formatted(line) == IF line.status = None THEN None ELSE error_message_buffer

Call(line) == <<[line |-> line, text |-> None, pc |-> "debug_print_line", result |-> None]>>

Init ==
  /\ protocol = FALSE
  /\ stack = << >> /\ error_message_buffer = None
  /\ serialOut = {} /\ conOut = {}
  /\ pc = "LocateProtocol" /\ status = None
  /\ failures = 0 /\ issued = {}

-----------------------------------------------------------------------------
(* debug_print_line and print_to_serial_out.                                 *)

top == Head(stack)

\* Mutant: the line is left for Write to format.
FormatLate ==
  /\ stack # << >> /\ top.pc = "debug_print_line" /\ protocol
  /\ stack' = <<[top EXCEPT !.pc = "Write"]>> \o Tail(stack)
  /\ UNCHANGED <<protocol, error_message_buffer, serialOut, conOut, pc, status,
                 failures, issued>>

\* VSPrint formats the line into the frame before it is sent.
Format ==
  /\ stack # << >> /\ top.pc = "debug_print_line" /\ protocol
  /\ stack' = <<[top EXCEPT !.pc = "Write", !.text = Formatted(top.line)]>> \o Tail(stack)
  /\ UNCHANGED <<protocol, error_message_buffer, serialOut, conOut, pc, status,
                 failures, issued>>

VPrint ==
  /\ stack # << >> /\ top.pc = "debug_print_line" /\ ~protocol
  /\ conOut' = conOut \cup {[line |-> top.line, text |-> Formatted(top.line)]}
  /\ stack' = Tail(stack)
  /\ UNCHANGED <<protocol, error_message_buffer, serialOut, pc, status, failures, issued>>

Write ==
  /\ stack # << >> /\ top.pc = "Write"
  /\ serialOut' = serialOut \cup {[line |-> top.line, text |-> top.text]}
  /\ stack' = Tail(stack)
  /\ UNCHANGED <<protocol, error_message_buffer, conOut, pc, status, failures, issued>>

\* Mutant: a short write is reported and then returned as a success.
ShortWriteSucceeds ==
  /\ stack # << >> /\ top.pc = "Write" /\ Len(stack) < MaxDepth
  /\ failures' = failures + 1
  /\ stack' = Call(L("short write", None)) \o <<[top EXCEPT !.pc = "failed"]>> \o Tail(stack)
  /\ UNCHANGED <<protocol, error_message_buffer, serialOut, conOut, pc, status, issued>>

\* Mutant: the return after a failed Write is lost, so that the number of bytes
\* sent is reported as well.
WriteErrorFallsThrough ==
  /\ stack # << >> /\ top.pc = "Write" /\ Len(stack) < MaxDepth
  /\ failures' = failures + 1
  /\ \E s \in Errors :
       /\ error_message_buffer' = s
       /\ stack' = Call(L("write error", s)) \o Call(L("short write", None))
                     \o <<[top EXCEPT !.pc = "failed", !.result = s]>> \o Tail(stack)
  /\ UNCHANGED <<protocol, serialOut, conOut, pc, status, issued>>

\* Write fails, or sends a part of the line: debug_print_line is called to say
\* so, before the failure is returned.  That call's Write can fail in turn.
Write_fails ==
  /\ stack # << >> /\ top.pc = "Write" /\ Len(stack) < MaxDepth
  /\ failures' = failures + 1
  /\ \/ \E s \in Errors :
          /\ error_message_buffer' = s
          /\ stack' = Call(L("write error", s))
                        \o <<[top EXCEPT !.pc = "failed", !.result = s]>> \o Tail(stack)
     \/ /\ stack' = Call(L("short write", None))
                      \o <<[top EXCEPT !.pc = "failed", !.result = DEVICE_ERROR]>> \o Tail(stack)
        /\ UNCHANGED error_message_buffer
  /\ UNCHANGED <<protocol, serialOut, conOut, pc, status, issued>>

\* A Write fails too deep in reports of failed Writes: no frame fits on the stack
\* for one more, and the program is lost.
StackOverflows ==
  /\ stack # << >> /\ top.pc = "Write" /\ Len(stack) >= MaxDepth
  /\ failures' = failures + 1
  /\ stack' = <<[top EXCEPT !.pc = "overflow"]>> \o Tail(stack)
  /\ UNCHANGED <<protocol, error_message_buffer, serialOut, conOut, pc, status, issued>>

\* Mutant: the error that print_to_serial_out returns is not looked at.
PrintForgotten ==
  /\ stack # << >> /\ top.pc = "failed"
  /\ stack' = Tail(stack)
  /\ UNCHANGED <<protocol, error_message_buffer, serialOut, conOut, pc, status,
                 failures, issued>>

\* debug_print_line reports on the console that print_to_serial_out failed.
PrintError ==
  /\ stack # << >> /\ top.pc = "failed"
  /\ error_message_buffer' = top.result
  /\ conOut' = conOut \cup {[line |-> L("serial error", top.result), text |-> top.result]}
  /\ stack' = Tail(stack)
  /\ UNCHANGED <<protocol, serialOut, pc, status, failures, issued>>

-----------------------------------------------------------------------------
(* efi_main, init_serial_service and check_for_fatal_error.                  *)

\* The program asks for a line that reports s and goes on at `to`.
SaysAndGoes(line, s, to) ==
  /\ stack' = Call(line)
  /\ issued' = issued \cup {line}
  /\ error_message_buffer' = IF line.status = None THEN error_message_buffer ELSE line.status
  /\ pc' = to /\ status' = s /\ failures' = 0
  /\ UNCHANGED <<serialOut, conOut>>

Silently(to) ==
  /\ pc' = to
  /\ UNCHANGED <<stack, error_message_buffer, serialOut, conOut, status, failures, issued>>

LocateProtocol ==
  /\ stack = << >> /\ pc = "LocateProtocol"
  /\ \/ protocol' = TRUE /\ Silently("SetAttributes")
     \/ /\ UNCHANGED protocol
        /\ \E s \in Errors : SaysAndGoes(L("locating", s), s, "init_failed")

configure_serial_protocol ==
  /\ stack = << >> /\ pc = "SetAttributes"
  /\ \/ Silently("boot")
     \/ \E s \in Errors : SaysAndGoes(L("configuring", s), s, "init_failed")
  /\ UNCHANGED protocol

\* Mutant: the prompt is left out when the serial service fails.
InitFailedNoPrompt ==
  /\ stack = << >> /\ pc = "init_failed"
  /\ IF status = NOT_FOUND THEN Silently("boot")
     ELSE SaysAndGoes(L("initialising", None), status, "returned")
  /\ UNCHANGED protocol

\* efi_main takes NOT_FOUND for a missing serial port, whichever call it comes
\* from, and goes on; any other failure is fatal.
InitFailed ==
  /\ stack = << >> /\ pc = "init_failed"
  /\ IF status = NOT_FOUND THEN Silently("boot")
     ELSE SaysAndGoes(L("initialising", None), status, "prompt")
  /\ UNCHANGED protocol

\* Some later firmware call fails.
check_for_fatal_error ==
  /\ stack = << >> /\ pc = "boot"
  /\ \E s \in Errors : SaysAndGoes(L("fatal", s), s, "prompt")
  /\ UNCHANGED protocol

Prompt ==
  /\ stack = << >> /\ pc = "prompt"
  /\ SaysAndGoes(L("press any key", None), status, "wait_for_input")
  /\ UNCHANGED protocol

\* ReadKeyStroke answers something else than EFI_NOT_READY.
wait_for_input ==
  /\ stack = << >> /\ pc = "wait_for_input" /\ Silently("returned")
  /\ UNCHANGED protocol

-----------------------------------------------------------------------------

debug_print_line == Format \/ VPrint \/ Write \/ PrintError

Program ==
  \/ debug_print_line \/ LocateProtocol \/ configure_serial_protocol \/ InitFailed \/ Prompt

Next == Program \/ Write_fails \/ StackOverflows \/ check_for_fatal_error \/ wait_for_input

\* The program runs on; it need meet no error, and nobody need press a key.  No
\* call is made to succeed: a Write may fail as often as it is tried.
Spec == Init /\ [][Next]_vars
FairSpec == Spec /\ WF_vars(Program)

-----------------------------------------------------------------------------
(* What the bootloader's output promises.                                    *)

\* The variables have their types.
TypeOK ==
  /\ protocol \in BOOLEAN
  /\ stack \in Seq(Frame)
  /\ error_message_buffer \in Errors \cup {None}
  /\ serialOut \subseteq Shown /\ conOut \subseteq Shown
  /\ pc \in {"LocateProtocol", "SetAttributes", "init_failed", "boot", "prompt",
             "wait_for_input", "returned"}
  /\ status \in Errors \cup {None}
  /\ failures \in Nat
  /\ issued \subseteq Line

\* Every line shows the status it was asked to report: the messages of nested
\* errors, which overwrite the one error_message_buffer, come after the outer
\* line has been formatted.
LinesTellTheirStatus == \A s \in serialOut \cup conOut : s.text = s.line.status

\* When a call of debug_print_line has returned, its line has gone out on the
\* serial port or the console, or the console says that the serial port failed.
NothingLostSilently ==
  stack = << >> =>
    \A line \in issued :
      \/ \E s \in serialOut \cup conOut : s.line = line
      \/ \E s \in conOut : s.line.kind = "serial error"

\* Each failed Write costs one frame and no more: for each line that the program
\* asks for, the recursion through the serial port is as deep as the port has
\* failed since.
DepthBounded == Len(stack) <= failures + 1

\* The port has failed so often for a single line, report after report, that the
\* recursion has used up the machine's stack.
Overflowed == stack # << >> /\ top.pc = "overflow" /\ failures >= MaxDepth

\* A fatal error comes to its line and the prompt, with a serial port that fails
\* any number of times on the way, as long as not every one of MaxDepth nested
\* Writes fails for one line; a port that always fails leaves the error without a
\* prompt, for the recursion of serial.c:120 ends the program first.
ErrorsPrompt ==
  /\ pc = "init_failed" /\ status # NOT_FOUND ~> pc = "wait_for_input" \/ Overflowed
  /\ pc = "prompt" ~> (pc = "wait_for_input" /\ stack = << >>) \/ Overflowed

\* "Fall back to using EFI built-in `debug_print_line` function in this case"
\* (serial.c:119): a failed Write is not reported with another Write.
FallsBackToConsole == stack # << >> /\ top.pc = "Write" => top.line.kind # "write error"

=============================================================================
