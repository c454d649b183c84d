--------------------------- MODULE ConsoleProofs ---------------------------
(* Proofs of the safety properties of Console, for any set of error statuses  *)
(* and however often the serial port fails.                                   *)
EXTENDS Console, SequenceTheorems, TLAPS

-----------------------------------------------------------------------------
(* The stack of frames.                                                      *)

\* A frame on top of the others.
LEMMA Pushed ==
  ASSUME NEW S, NEW s \in Seq(S), NEW f \in S
  PROVE  LET t == <<f>> \o s
         IN  /\ t \in Seq(S) /\ Len(t) = Len(s) + 1 /\ t # << >> /\ Head(t) = f /\ t[1] = f
             /\ \A k \in 1 .. Len(s) : t[k + 1] = s[k]
<1> DEFINE t == <<f>> \o s
<1>1. Len(s) \in Nat /\ <<f>> \in Seq(S) /\ Len(<<f>>) = 1 /\ <<f>>[1] = f
  BY LenProperties
<1>2. /\ t \in Seq(S) /\ Len(t) = 1 + Len(s)
      /\ \A k \in 1 .. 1 + Len(s) : t[k] = IF k <= 1 THEN <<f>>[k] ELSE s[k - 1]
  <2>1. /\ t \in Seq(S) /\ Len(t) = Len(<<f>>) + Len(s)
        /\ \A k \in 1 .. Len(<<f>>) + Len(s) :
             t[k] = IF k <= Len(<<f>>) THEN <<f>>[k] ELSE s[k - Len(<<f>>)]
    BY <1>1, ConcatProperties, Zenon
  <2> QED
    BY <1>1, <2>1, Zenon
<1> HIDE DEF t
<1>3. Len(t) = Len(s) + 1 /\ t # << >> /\ t[1] = f
  BY <1>1, <1>2, EmptySeq
<1>4. Head(t) = f
  BY <1>2, <1>3
<1>5. ASSUME NEW k \in 1 .. Len(s) PROVE t[k + 1] = s[k]
  <2>1. k + 1 \in 1 .. 1 + Len(s) /\ ~(k + 1 <= 1) /\ (k + 1) - 1 = k
    BY <1>1
  <2> QED
    BY <1>2, <2>1
<1> QED
  BY <1>2, <1>3, <1>4, <1>5 DEF t

\* Another frame in place of the top one.
LEMMA TopReplaced ==
  ASSUME NEW S, NEW s \in Seq(S), s # << >>, NEW f \in S
  PROVE  LET t == <<f>> \o Tail(s)
         IN  /\ t \in Seq(S) /\ Len(t) = Len(s) /\ t # << >> /\ Head(t) = f /\ t[1] = f
             /\ \A k \in 2 .. Len(t) : t[k] = s[k]
<1> DEFINE r == Tail(s)
           t == <<f>> \o r
<1>1. Len(s) \in Nat \ {0} /\ r \in Seq(S) /\ Len(r) = Len(s) - 1
      /\ \A k \in 1 .. Len(r) : r[k] = s[k + 1]
  BY HeadTailProperties, EmptySeq
<1> HIDE DEF r
<1>2. /\ t \in Seq(S) /\ Len(t) = Len(r) + 1 /\ t # << >> /\ Head(t) = f /\ t[1] = f
      /\ \A k \in 1 .. Len(r) : t[k + 1] = r[k]
  BY <1>1, Pushed
<1> HIDE DEF t
<1>3. ASSUME NEW k \in 2 .. Len(t) PROVE t[k] = s[k]
  <2>1. k - 1 \in 1 .. Len(r) /\ (k - 1) + 1 = k
    BY <1>1, <1>2
  <2> QED
    BY <1>1, <1>2, <2>1
<1>4. Len(t) = Len(s)
  BY <1>1, <1>2
<1> QED
  BY <1>2, <1>3, <1>4, Zenon DEF t, r

-----------------------------------------------------------------------------
(* The invariant.                                                            *)

\* Frames under the top one have failed and wait for its return.
OthersWait == \A k \in 2 .. Len(stack) : stack[k].pc = "failed"

\* The top frame's line still shows its status, or has been formatted with it.
TopTells ==
  stack # << >> =>
    /\ top.pc = "debug_print_line" => Formatted(top.line) = top.line.status
    /\ top.pc = "Write" => top.text = top.line.status

\* A line has gone out, or the console tells of a failure.
Out(line) ==
  \/ \E s \in serialOut \cup conOut : s.line = line
  \/ \E s \in conOut : s.line.kind = "serial error"

\* A line that has not gone out has a frame on the stack.
OutOrHeld ==
  \A line \in issued : Out(line) \/ \E k \in 1 .. Len(stack) : stack[k].line = line

\* The invariant the proofs carry through every step.
IInv == TypeOK /\ OthersWait /\ TopTells /\ LinesTellTheirStatus /\ OutOrHeld /\ DepthBounded

PCs == {"LocateProtocol", "SetAttributes", "init_failed", "boot", "prompt", "wait_for_input",
        "returned"}

\* The types of the variables beside the stack.
Types ==
  /\ protocol \in BOOLEAN
  /\ error_message_buffer \in Errors \cup {None}
  /\ serialOut \subseteq Shown /\ conOut \subseteq Shown
  /\ pc \in PCs /\ status \in Errors \cup {None}
  /\ failures \in Nat
  /\ issued \subseteq Line

LEMMA TypesAndStack == TypeOK <=> Types /\ stack \in Seq(Frame)
BY ErrorsAssumption DEF TypeOK, Types, PCs

\* The frame on top.
LEMMA TopFrame ==
  ASSUME IInv, stack # << >>
  PROVE  /\ stack \in Seq(Frame) /\ Len(stack) \in Nat \ {0}
         /\ top \in Frame /\ top = stack[1]
         /\ top.line \in Line /\ top.text \in Errors \cup {None}
         /\ top.pc = "failed" <=> top.result # None /\ top.result \in Errors
<1>1. stack \in Seq(Frame) /\ Len(stack) \in Nat \ {0}
  BY EmptySeq DEF IInv, TypeOK
<1>2. top \in Frame /\ top = stack[1]
  BY <1>1 DEF top
<1>3. /\ top.line \in Line /\ top.text \in Errors \cup {None}
      /\ top.result \in Errors \cup {None}
      /\ top.pc = "failed" <=> top.result # None
  BY <1>2 DEF Frame
<1> QED
  BY <1>1, <1>2, <1>3, ErrorsAssumption, Zenon

\* A line is a line, and the frame that calls for it a frame.
LEMMA CalledFrame ==
  ASSUME NEW line \in Line
  PROVE  LET f == [line |-> line, text |-> None, pc |-> "debug_print_line", result |-> None]
         IN  f \in Frame /\ Call(line) = <<f>> /\ f.line = line /\ f.pc = "debug_print_line"
BY DEF Frame, Call

\* Frames are the records of which those with a failed Write hold an error.
FrameRecords ==
  [line: Line, text: Errors \cup {None}, result: Errors \cup {None},
   pc: {"debug_print_line", "Write", "failed", "overflow"}]

\* A frame whose line has been formatted.
LEMMA FormattedFrame ==
  ASSUME NEW f \in Frame, f.pc = "debug_print_line", NEW s \in Errors \cup {None}
  PROVE  LET g == [f EXCEPT !.pc = "Write", !.text = s]
         IN  g \in Frame /\ g.pc = "Write" /\ g.line = f.line /\ g.text = s
<1> DEFINE g == [f EXCEPT !.pc = "Write", !.text = s]
<1>1. f \in FrameRecords /\ f.result = None
  BY DEF Frame, FrameRecords
<1>2. g \in FrameRecords /\ g.pc = "Write" /\ g.line = f.line /\ g.text = s /\ g.result = f.result
  BY <1>1 DEF FrameRecords
<1> HIDE DEF g
<1>3. g \in Frame
  BY <1>1, <1>2 DEF Frame, FrameRecords
<1> QED
  BY <1>2, <1>3 DEF g

\* A frame whose Write has failed.
LEMMA FailedFrame ==
  ASSUME NEW f \in Frame, NEW s \in Errors
  PROVE  LET g == [f EXCEPT !.pc = "failed", !.result = s]
         IN  g \in Frame /\ g.pc = "failed" /\ g.line = f.line
<1> DEFINE g == [f EXCEPT !.pc = "failed", !.result = s]
<1>1. f \in FrameRecords
  BY DEF Frame, FrameRecords
<1>2. g \in FrameRecords /\ g.pc = "failed" /\ g.line = f.line /\ g.result = s
  BY <1>1 DEF FrameRecords
<1> HIDE DEF g
<1>3. g \in Frame
  BY <1>2, ErrorsAssumption DEF Frame, FrameRecords
<1> QED
  BY <1>2, <1>3 DEF g

\* A line with its own status is something that an output shows.
LEMMA ShowsItsStatus ==
  ASSUME NEW line \in Line
  PROVE  [line |-> line, text |-> line.status] \in Shown /\ line.status \in Errors \cup {None}
BY DEF Line, Shown

-----------------------------------------------------------------------------
(* debug_print_line.                                                         *)

\* A call that returns: the frame below it, if there is one, has failed.
LEMMA Return ==
  ASSUME IInv, stack # << >>, NEW told, top.line = told,
         stack' = Tail(stack), Types', UNCHANGED <<failures, issued>>,
         serialOut \subseteq serialOut', conOut \subseteq conOut',
         \A s \in (serialOut' \ serialOut) \cup (conOut' \ conOut) : s.text = s.line.status,
         Out(told)'
  PROVE  IInv'
<1>1. /\ stack \in Seq(Frame) /\ Len(stack) \in Nat \ {0} /\ top = stack[1]
  BY TopFrame
<1>2. /\ stack' \in Seq(Frame) /\ Len(stack') = Len(stack) - 1
      /\ \A k \in 1 .. Len(stack') : stack'[k] = stack[k + 1]
  BY <1>1, HeadTailProperties
<1>3. TypeOK'
  BY <1>2, ErrorsAssumption DEF TypeOK, Types, PCs
<1>4. ASSUME NEW k \in 1 .. Len(stack') PROVE stack'[k].pc = "failed"
  <2>1. k + 1 \in 2 .. Len(stack) /\ stack'[k] = stack[k + 1]
    BY <1>1, <1>2
  <2> QED
    BY <2>1 DEF IInv, OthersWait
<1>5. OthersWait'
  BY <1>1, <1>2, <1>4 DEF OthersWait
<1>6. TopTells'
  <2> SUFFICES ASSUME stack' # << >> PROVE Head(stack').pc = "failed"
    BY DEF TopTells, top
  <2>1. Len(stack') \in Nat \ {0}
    BY <1>2, EmptySeq
  <2>2. Head(stack') = stack'[1] /\ 1 \in 1 .. Len(stack')
    BY <1>2, <2>1
  <2> QED
    BY <1>4, <2>2
<1>7. LinesTellTheirStatus'
  BY DEF IInv, LinesTellTheirStatus
<1>8. OutOrHeld'
  <2> SUFFICES ASSUME NEW line \in issued, ~Out(line)'
               PROVE  \E k \in 1 .. Len(stack') : stack'[k].line = line
    BY DEF OutOrHeld
  <2>1. ~Out(line)
    BY DEF Out
  <2>2. PICK k \in 1 .. Len(stack) : stack[k].line = line
    BY <2>1 DEF IInv, OutOrHeld
  <2>3. k # 1
    BY <1>1, <2>2 DEF Out
  <2>4. k - 1 \in 1 .. Len(stack') /\ stack'[k - 1] = stack[k]
    BY <1>1, <1>2, <2>3
  <2> QED
    BY <2>2, <2>4
<1>9. DepthBounded'
  BY <1>1, <1>2 DEF IInv, DepthBounded, Types
<1> QED
  BY <1>3, <1>5, <1>6, <1>7, <1>8, <1>9 DEF IInv

LEMMA VPrintStep ==
  ASSUME IInv, VPrint
  PROVE  IInv'
<1>1. /\ stack # << >> /\ top.pc = "debug_print_line"
      /\ conOut' = conOut \cup {[line |-> top.line, text |-> Formatted(top.line)]}
      /\ stack' = Tail(stack)
      /\ UNCHANGED <<protocol, error_message_buffer, serialOut, pc, status, failures, issued>>
  BY DEF VPrint
<1>2. top.line \in Line /\ Formatted(top.line) = top.line.status
  BY <1>1, TopFrame DEF IInv, TopTells
<1>3. PICK told \in Line : told = top.line
  BY <1>2
<1>4. conOut' = conOut \cup {[line |-> told, text |-> told.status]}
  BY <1>1, <1>2, <1>3, Zenon
<1>5. Types'
  <2>1. Types
    BY TypesAndStack DEF IInv
  <2>2. conOut' \subseteq Shown
    BY <1>4, <2>1, ShowsItsStatus DEF Types
  <2> QED
    BY <1>1, <2>1, <2>2 DEF Types
<1>6. Out(told)'
  <2> DEFINE shown == [line |-> told, text |-> told.status]
  <2>1. shown \in conOut' /\ shown.line = told
    BY <1>4
  <2> HIDE DEF shown
  <2> QED
    BY <2>1, Zenon DEF Out
<1> QED
  BY <1>1, <1>3, <1>4, <1>5, <1>6, Return

LEMMA WriteStep ==
  ASSUME IInv, Write
  PROVE  IInv'
<1>1. /\ stack # << >> /\ top.pc = "Write"
      /\ serialOut' = serialOut \cup {[line |-> top.line, text |-> top.text]}
      /\ stack' = Tail(stack)
      /\ UNCHANGED <<protocol, error_message_buffer, conOut, pc, status, failures, issued>>
  BY DEF Write
<1>2. top.line \in Line /\ top.text = top.line.status
  BY <1>1, TopFrame DEF IInv, TopTells
<1>3. PICK told \in Line : told = top.line
  BY <1>2
<1>4. serialOut' = serialOut \cup {[line |-> told, text |-> told.status]}
  BY <1>1, <1>2, <1>3, Zenon
<1>5. Types'
  <2>1. Types
    BY TypesAndStack DEF IInv
  <2>2. serialOut' \subseteq Shown
    BY <1>4, <2>1, ShowsItsStatus DEF Types
  <2> QED
    BY <1>1, <2>1, <2>2 DEF Types
<1>6. Out(told)'
  <2> DEFINE shown == [line |-> told, text |-> told.status]
  <2>1. shown \in serialOut' /\ shown.line = told
    BY <1>4
  <2> HIDE DEF shown
  <2> QED
    BY <2>1, Zenon DEF Out
<1> QED
  BY <1>1, <1>3, <1>4, <1>5, <1>6, Return

LEMMA PrintErrorStep ==
  ASSUME IInv, PrintError
  PROVE  IInv'
<1>1. /\ stack # << >> /\ top.pc = "failed" /\ error_message_buffer' = top.result
      /\ conOut' = conOut \cup {[line |-> L("serial error", top.result), text |-> top.result]}
      /\ stack' = Tail(stack)
      /\ UNCHANGED <<protocol, serialOut, pc, status, failures, issued>>
  BY DEF PrintError
<1>2. top.line \in Line /\ top.result \in Errors
  BY <1>1, TopFrame
<1>3. PICK told \in Line : told = top.line
  BY <1>2
<1>4. PICK e \in Errors : e = top.result
  BY <1>2
<1>5. PICK error \in Line : error = L("serial error", e) /\ error.kind = "serial error" /\ error.status = e
  <2>1. /\ L("serial error", e) \in Line /\ L("serial error", e).kind = "serial error"
        /\ L("serial error", e).status = e
    BY DEF L, Line, Kinds
  <2> QED
    BY <2>1
<1>6. error_message_buffer' = e /\ conOut' = conOut \cup {[line |-> error, text |-> error.status]}
  BY <1>1, <1>4, <1>5, Zenon
<1>7. Types'
  <2>1. Types
    BY TypesAndStack DEF IInv
  <2>2. conOut' \subseteq Shown
    BY <1>6, <2>1, ShowsItsStatus DEF Types
  <2> QED
    BY <1>1, <1>6, <2>1, <2>2 DEF Types
<1>8. Out(told)'
  <2> DEFINE shown == [line |-> error, text |-> error.status]
  <2>1. shown \in conOut' /\ shown.line = error
    BY <1>6
  <2> HIDE DEF shown
  <2> QED
    BY <1>5, <2>1, Zenon DEF Out
<1>9. serialOut \subseteq serialOut' /\ conOut \subseteq conOut' /\ UNCHANGED <<failures, issued>>
  BY <1>1, <1>6
<1>10. \A s \in (serialOut' \ serialOut) \cup (conOut' \ conOut) : s.text = s.line.status
  <2> TAKE s \in (serialOut' \ serialOut) \cup (conOut' \ conOut)
  <2>1. s = [line |-> error, text |-> error.status]
    <3>1. serialOut' = serialOut
      BY <1>1
    <3> QED
      BY <1>6, <3>1, Zenon
  <2> QED
    BY <2>1
<1> QED
  BY <1>1, <1>3, <1>7, <1>8, <1>9, <1>10, Return

\* A line is held as long as no frame changes its line.
LEMMA SameLinesHeld ==
  ASSUME OutOrHeld, Len(stack) \in Nat, Len(stack') = Len(stack),
         stack'[1].line = stack[1].line, \A k \in 2 .. Len(stack') : stack'[k] = stack[k],
         UNCHANGED <<serialOut, conOut, issued>>
  PROVE  OutOrHeld'
<1> SUFFICES ASSUME NEW line \in issued, ~Out(line)
             PROVE  \E k \in 1 .. Len(stack') : stack'[k].line = line
  BY DEF OutOrHeld, Out
<1>1. PICK k \in 1 .. Len(stack) : stack[k].line = line
  BY DEF OutOrHeld
<1>2. stack'[k].line = line
  <2>1. CASE k = 1
    BY <1>1, <2>1
  <2>2. CASE k # 1
    <3>1. k \in 2 .. Len(stack')
      BY <2>2
    <3> QED
      BY <1>1, <3>1
  <2> QED
    BY <2>1, <2>2
<1> QED
  BY <1>2

\* The frame keeps its line and holds the text of it.
LEMMA FormatStep ==
  ASSUME IInv, Format
  PROVE  IInv'
<1>1. /\ stack # << >> /\ top.pc = "debug_print_line"
      /\ stack' = <<[top EXCEPT !.pc = "Write", !.text = Formatted(top.line)]>> \o Tail(stack)
      /\ UNCHANGED <<protocol, error_message_buffer, serialOut, conOut, pc, status, failures, issued>>
  BY DEF Format
<1>2. /\ stack \in Seq(Frame) /\ Len(stack) \in Nat \ {0} /\ top = stack[1] /\ top \in Frame
      /\ top.line \in Line
      /\ Formatted(top.line) = top.line.status /\ top.line.status \in Errors \cup {None}
  <2>1. top.line.status \in Errors \cup {None}
    BY <1>1, TopFrame DEF Line
  <2>2. Formatted(top.line) = top.line.status
    BY <1>1 DEF IInv, TopTells
  <2> QED
    BY <1>1, <2>1, <2>2, TopFrame, Zenon
<1>3. PICK f \in Frame : /\ f = [top EXCEPT !.pc = "Write", !.text = Formatted(top.line)]
                         /\ f.pc = "Write" /\ f.line = top.line /\ f.text = top.line.status
  <2>1. PICK st \in Errors \cup {None} : st = Formatted(top.line) /\ st = top.line.status
    BY <1>2
  <2> DEFINE g == [top EXCEPT !.pc = "Write", !.text = st]
  <2>2. g \in Frame /\ g.pc = "Write" /\ g.line = top.line /\ g.text = st
    BY <1>1, <1>2, FormattedFrame
  <2> QED
    BY <2>1, <2>2, Zenon
<1>4. /\ stack' \in Seq(Frame) /\ Len(stack') = Len(stack) /\ Head(stack') = f /\ stack'[1] = f
      /\ \A k \in 2 .. Len(stack') : stack'[k] = stack[k]
  <2>1. stack' = <<f>> \o Tail(stack)
    BY <1>1, <1>3, Zenon
  <2> QED
    BY <1>1, <1>2, <2>1, TopReplaced
<1>5. Types' /\ TypeOK'
  BY <1>1, <1>4, TypesAndStack, ErrorsAssumption DEF IInv, Types, TypeOK, PCs
<1>6. OthersWait'
  BY <1>4 DEF IInv, OthersWait
<1>7. TopTells'
  BY <1>3, <1>4, <1>1 DEF TopTells, top
<1>8. LinesTellTheirStatus' /\ DepthBounded'
  BY <1>1, <1>4 DEF IInv, LinesTellTheirStatus, DepthBounded
<1>9. OutOrHeld'
  <2>1. stack'[1].line = stack[1].line
    BY <1>2, <1>3, <1>4, Zenon
  <2> QED
    BY <1>1, <1>2, <1>4, <2>1, SameLinesHeld DEF IInv
<1> QED
  BY <1>5, <1>6, <1>7, <1>8, <1>9 DEF IInv

-----------------------------------------------------------------------------
(* A Write that fails.                                                       *)

\* The frame below has failed, and a new one is on top of it to say so.
LEMMA Nests ==
  ASSUME IInv, stack # << >>, NEW line \in Line, NEW f \in Frame, f.pc = "failed", f.line = top.line,
         stack' = Call(line) \o <<f>> \o Tail(stack),
         failures' = failures + 1, error_message_buffer' \in Errors \cup {None},
         line.status = None \/ line.status = error_message_buffer',
         UNCHANGED <<protocol, serialOut, conOut, pc, status, issued>>
  PROVE  IInv'
<1>1. /\ stack \in Seq(Frame) /\ Len(stack) \in Nat \ {0} /\ top = stack[1]
  BY TopFrame
<1>2. PICK g \in Frame : Call(line) = <<g>> /\ g.line = line /\ g.pc = "debug_print_line"
  BY CalledFrame
<1> DEFINE under == <<f>> \o Tail(stack)
<1>3. /\ under \in Seq(Frame) /\ Len(under) = Len(stack) /\ under[1] = f
      /\ \A k \in 2 .. Len(under) : under[k] = stack[k]
  BY <1>1, TopReplaced
<1>4. stack' = <<g>> \o under
  <2>1. <<g>> \in Seq(Frame) /\ <<f>> \in Seq(Frame) /\ Tail(stack) \in Seq(Frame)
    BY <1>1, HeadTailProperties
  <2>2. (<<g>> \o <<f>>) \o Tail(stack) = <<g>> \o (<<f>> \o Tail(stack))
    BY <2>1, ConcatAssociative
  <2> QED
    BY <1>2, <2>2
<1> HIDE DEF under
<1>5. /\ stack' \in Seq(Frame) /\ Len(stack') = Len(stack) + 1 /\ Head(stack') = g /\ stack'[1] = g
      /\ \A k \in 1 .. Len(stack) : stack'[k + 1] = under[k]
  <2> DEFINE t == <<g>> \o under
  <2>1. /\ t \in Seq(Frame) /\ Len(t) = Len(under) + 1 /\ Head(t) = g /\ t[1] = g
        /\ \A k \in 1 .. Len(under) : t[k + 1] = under[k]
    BY <1>3, Pushed
  <2> QED
    BY <1>3, <1>4, <2>1, Zenon
<1>6. TypeOK'
  <2>1. Types
    BY TypesAndStack DEF IInv
  <2>2. failures' \in Nat
    BY <2>1 DEF Types
  <2> QED
    BY <1>5, <2>1, <2>2 DEF Types, TypeOK, PCs
<1>7. OthersWait'
  <2> SUFFICES ASSUME NEW k \in 2 .. Len(stack') PROVE stack'[k].pc = "failed"
    BY DEF OthersWait
  <2>1. k - 1 \in 1 .. Len(stack) /\ (k - 1) + 1 = k
    BY <1>1, <1>5
  <2>2. stack'[k] = under[k - 1]
    BY <1>5, <2>1
  <2>3. CASE k - 1 = 1
    BY <1>3, <2>2, <2>3
  <2>4. CASE k - 1 # 1
    <3>1. k - 1 \in 2 .. Len(stack)
      BY <1>1, <2>1, <2>4
    <3>2. under[k - 1] = stack[k - 1]
      BY <1>3, <3>1
    <3> QED
      BY <2>2, <3>1, <3>2 DEF IInv, OthersWait
  <2> QED
    BY <2>3, <2>4
<1>8. TopTells'
  BY <1>2, <1>5 DEF TopTells, top, Formatted
<1>9. LinesTellTheirStatus'
  BY DEF IInv, LinesTellTheirStatus
<1>10. DepthBounded'
  BY <1>1, <1>5, TypesAndStack DEF IInv, DepthBounded, Types
<1>11. OutOrHeld'
  <2> SUFFICES ASSUME NEW told \in issued, ~Out(told)
               PROVE  \E k \in 1 .. Len(stack') : stack'[k].line = told
    BY DEF OutOrHeld, Out
  <2>1. PICK k \in 1 .. Len(stack) : stack[k].line = told
    BY DEF IInv, OutOrHeld
  <2>2. under[k].line = told
    <3>1. CASE k = 1
      BY <1>1, <1>3, <2>1, <3>1
    <3>2. CASE k # 1
      <4>1. k \in 2 .. Len(under)
        BY <1>1, <1>3, <3>2
      <4> QED
        BY <1>3, <2>1, <4>1
    <3> QED
      BY <3>1, <3>2
  <2>3. k + 1 \in 1 .. Len(stack') /\ stack'[k + 1] = under[k]
    BY <1>1, <1>5
  <2> QED
    BY <2>2, <2>3
<1> QED
  BY <1>6, <1>7, <1>8, <1>9, <1>10, <1>11 DEF IInv

LEMMA WriteFailsStep ==
  ASSUME IInv, Write_fails
  PROVE  IInv'
<1>1. /\ stack # << >> /\ failures' = failures + 1
      /\ UNCHANGED <<protocol, serialOut, conOut, pc, status, issued>>
  BY DEF Write_fails
<1>2. top \in Frame
  BY <1>1, TopFrame
<1>3. ASSUME NEW s \in Errors
      PROVE  \E f \in Frame : /\ f = [top EXCEPT !.pc = "failed", !.result = s]
                              /\ f.pc = "failed" /\ f.line = top.line
  BY <1>2, FailedFrame
<1>4. CASE \E s \in Errors :
             /\ error_message_buffer' = s
             /\ stack' = Call(L("write error", s))
                           \o <<[top EXCEPT !.pc = "failed", !.result = s]>> \o Tail(stack)
  <2>1. PICK s \in Errors :
             /\ error_message_buffer' = s
             /\ stack' = Call(L("write error", s))
                           \o <<[top EXCEPT !.pc = "failed", !.result = s]>> \o Tail(stack)
    BY <1>4
  <2>2. PICK f \in Frame : /\ f = [top EXCEPT !.pc = "failed", !.result = s]
                           /\ f.pc = "failed" /\ f.line = top.line
    BY <1>3
  <2>3. L("write error", s) \in Line /\ L("write error", s).status = s
    BY DEF L, Line, Kinds
  <2>4. stack' = Call(L("write error", s)) \o <<f>> \o Tail(stack)
    BY <2>1, <2>2, Zenon
  <2> QED
    BY <1>1, <2>1, <2>2, <2>3, <2>4, Nests
<1>5. CASE /\ stack' = Call(L("short write", None))
                        \o <<[top EXCEPT !.pc = "failed", !.result = DEVICE_ERROR]>> \o Tail(stack)
           /\ UNCHANGED error_message_buffer
  <2>1. PICK f \in Frame : /\ f = [top EXCEPT !.pc = "failed", !.result = DEVICE_ERROR]
                           /\ f.pc = "failed" /\ f.line = top.line
    BY <1>3, ErrorsAssumption
  <2>2. L("short write", None) \in Line /\ L("short write", None).status = None
    BY DEF L, Line, Kinds
  <2>3. stack' = Call(L("short write", None)) \o <<f>> \o Tail(stack)
    BY <1>5, <2>1, Zenon
  <2>4. error_message_buffer' \in Errors \cup {None}
    BY <1>5 DEF IInv, TypeOK
  <2> QED
    BY <1>1, <2>1, <2>2, <2>3, <2>4, Nests
<1> QED
  BY <1>4, <1>5, Zenon DEF Write_fails

\* The frame whose report no longer fits on the stack.
LEMMA OverflowFrame ==
  ASSUME NEW f \in Frame, f.pc = "Write"
  PROVE  LET g == [f EXCEPT !.pc = "overflow"]
         IN  g \in Frame /\ g.pc = "overflow" /\ g.line = f.line
<1> DEFINE g == [f EXCEPT !.pc = "overflow"]
<1>1. f \in FrameRecords /\ f.result = None
  BY DEF Frame, FrameRecords
<1>2. g \in FrameRecords /\ g.pc = "overflow" /\ g.line = f.line /\ g.result = None
  BY <1>1 DEF FrameRecords
<1> HIDE DEF g
<1>3. g \in Frame
  BY <1>2 DEF Frame, FrameRecords
<1> QED
  BY <1>2, <1>3 DEF g

LEMMA OverflowStep ==
  ASSUME IInv, StackOverflows
  PROVE  IInv'
<1>1. /\ stack # << >> /\ top.pc = "Write" /\ failures' = failures + 1
      /\ stack' = <<[top EXCEPT !.pc = "overflow"]>> \o Tail(stack)
      /\ UNCHANGED <<protocol, error_message_buffer, serialOut, conOut, pc, status, issued>>
  BY DEF StackOverflows
<1>2. /\ stack \in Seq(Frame) /\ Len(stack) \in Nat \ {0} /\ top = stack[1] /\ top \in Frame
  BY <1>1, TopFrame
<1>3. PICK f \in Frame : /\ f = [top EXCEPT !.pc = "overflow"]
                         /\ f.pc = "overflow" /\ f.line = top.line
  BY <1>1, <1>2, OverflowFrame
<1>4. /\ stack' \in Seq(Frame) /\ Len(stack') = Len(stack) /\ Head(stack') = f /\ stack'[1] = f
      /\ \A k \in 2 .. Len(stack') : stack'[k] = stack[k]
  <2>1. stack' = <<f>> \o Tail(stack)
    BY <1>1, <1>3, Zenon
  <2>2. stack \in Seq(Frame) /\ stack # << >>
    BY <1>1, <1>2
  <2> DEFINE t == <<f>> \o Tail(stack)
  <2>3. /\ t \in Seq(Frame) /\ Len(t) = Len(stack) /\ Head(t) = f /\ t[1] = f
        /\ \A k \in 2 .. Len(t) : t[k] = stack[k]
    BY <2>2, TopReplaced
  <2> QED
    BY <2>1, <2>3
<1>5. TypeOK'
  BY <1>1, <1>4 DEF IInv, TypeOK
<1>6. OthersWait' /\ LinesTellTheirStatus'
  BY <1>1, <1>4 DEF IInv, OthersWait, LinesTellTheirStatus
<1>7. TopTells'
  BY <1>3, <1>4 DEF TopTells, top
<1>8. DepthBounded'
  BY <1>1, <1>2, <1>4 DEF IInv, TypeOK, DepthBounded
<1>9. OutOrHeld'
  <2>1. stack'[1].line = stack[1].line
    BY <1>2, <1>3, <1>4, Zenon
  <2> QED
    BY <1>1, <1>2, <1>4, <2>1, SameLinesHeld DEF IInv
<1> QED
  BY <1>5, <1>6, <1>7, <1>8, <1>9 DEF IInv

-----------------------------------------------------------------------------
(* efi_main and its functions.                                               *)

\* A line that is asked for, when no other is being printed.
LEMMA Says ==
  ASSUME IInv, stack = << >>, NEW line \in Line, stack' = Call(line),
         issued' = issued \cup {line},
         error_message_buffer' = IF line.status = None THEN error_message_buffer ELSE line.status,
         pc' \in PCs, status' \in Errors \cup {None}, protocol' \in BOOLEAN,
         failures' = 0, UNCHANGED <<serialOut, conOut>>
  PROVE  IInv'
<1>1. PICK g \in Frame : Call(line) = <<g>> /\ g.line = line /\ g.pc = "debug_print_line"
  BY CalledFrame
<1>2. stack' = <<g>> /\ stack' \in Seq(Frame) /\ Len(stack') = 1 /\ stack'[1] = g /\ Head(stack') = g
  BY <1>1
<1>3. Types
  BY TypesAndStack DEF IInv
<1>4. TypeOK'
  <2>1. error_message_buffer' \in Errors \cup {None}
    BY <1>3, ShowsItsStatus DEF Types
  <2>2. Types'
    BY <1>3, <2>1 DEF Types
  <2> QED
    BY <1>2, <2>2, ErrorsAssumption DEF Types, TypeOK, PCs
<1>5. OthersWait'
  BY <1>2 DEF OthersWait
<1>6. TopTells'
  BY <1>1, <1>2 DEF TopTells, top, Formatted
<1>7. LinesTellTheirStatus'
  BY DEF IInv, LinesTellTheirStatus
<1>8. DepthBounded'
  BY <1>2, <1>3 DEF DepthBounded, Types
<1>9. OutOrHeld'
  <2> SUFFICES ASSUME NEW told \in issued', ~Out(told)
               PROVE  \E k \in 1 .. Len(stack') : stack'[k].line = told
    BY DEF OutOrHeld, Out
  <2>1. told \notin issued
    BY DEF IInv, OutOrHeld
  <2>2. told = line /\ 1 \in 1 .. Len(stack')
    BY <1>2, <2>1
  <2> QED
    BY <1>1, <1>2, <2>2
<1> QED
  BY <1>4, <1>5, <1>6, <1>7, <1>8, <1>9 DEF IInv

\* The program goes on without a word.
LEMMA Silent ==
  ASSUME IInv, pc' \in PCs, protocol' \in BOOLEAN,
         UNCHANGED <<stack, error_message_buffer, serialOut, conOut, status, failures, issued>>
  PROVE  IInv'
<1>1. TypeOK'
  <2>1. Types'
    BY TypesAndStack DEF IInv, Types
  <2> QED
    BY <2>1, ErrorsAssumption DEF IInv, Types, TypeOK, PCs
<1>2. OthersWait' /\ TopTells'
  BY DEF IInv, OthersWait, TopTells, top, Formatted
<1>3. LinesTellTheirStatus' /\ DepthBounded'
  BY DEF IInv, LinesTellTheirStatus, DepthBounded
<1>4. OutOrHeld'
  BY DEF IInv, OutOrHeld, Out
<1> QED
  BY <1>1, <1>2, <1>3, <1>4 DEF IInv

\* SaysAndGoes and Silently in the terms of the two lemmas.
LEMMA Going ==
  ASSUME IInv, stack = << >>, protocol' \in BOOLEAN, NEW to \in PCs,
         \/ Silently(to)
         \/ \E kind \in Kinds, shown \in Errors \cup {None}, s \in Errors \cup {None} :
              SaysAndGoes(L(kind, shown), s, to)
  PROVE  IInv'
<1>1. CASE Silently(to)
  BY <1>1, Silent DEF Silently
<1>2. CASE \E kind \in Kinds, shown \in Errors \cup {None}, s \in Errors \cup {None} :
             SaysAndGoes(L(kind, shown), s, to)
  <2>1. PICK kind \in Kinds, shown \in Errors \cup {None}, s \in Errors \cup {None} :
             SaysAndGoes(L(kind, shown), s, to)
    BY <1>2
  <2>2. PICK line \in Line : line = L(kind, shown)
    BY DEF L, Line
  <2>3. /\ stack' = Call(line) /\ issued' = issued \cup {line}
        /\ error_message_buffer' = IF line.status = None THEN error_message_buffer ELSE line.status
        /\ pc' = to /\ status' = s /\ failures' = 0
        /\ UNCHANGED <<serialOut, conOut>>
    BY <2>1, <2>2, Zenon DEF SaysAndGoes
  <2> QED
    BY <2>2, <2>3, Says
<1> QED
  BY <1>1, <1>2

LEMMA ProgramStep ==
  ASSUME IInv,
         \/ LocateProtocol \/ configure_serial_protocol \/ InitFailed
         \/ check_for_fatal_error \/ Prompt \/ wait_for_input
  PROVE  IInv'
<1>1. PCs = {"LocateProtocol", "SetAttributes", "init_failed", "boot", "prompt", "wait_for_input",
             "returned"}
      /\ Kinds = {"locating", "configuring", "initialising", "fatal", "press any key",
                   "write error", "short write", "serial error"}
  BY DEF PCs, Kinds
<1>2. protocol \in BOOLEAN /\ status \in Errors \cup {None}
  BY DEF IInv, TypeOK
<1>3. CASE LocateProtocol
  <2>1. stack = << >> /\ protocol' \in BOOLEAN
    BY <1>2, <1>3 DEF LocateProtocol
  <2>2. \/ Silently("SetAttributes")
        \/ \E s \in Errors : SaysAndGoes(L("locating", s), s, "init_failed")
    BY <1>3, Zenon DEF LocateProtocol
  <2> QED
    BY <1>1, <2>1, <2>2, Going
<1>4. CASE configure_serial_protocol
  <2>1. stack = << >> /\ protocol' \in BOOLEAN
    BY <1>2, <1>4 DEF configure_serial_protocol
  <2>2. \/ Silently("boot")
        \/ \E s \in Errors : SaysAndGoes(L("configuring", s), s, "init_failed")
    BY <1>4, Zenon DEF configure_serial_protocol
  <2> QED
    BY <1>1, <2>1, <2>2, Going
<1>5. CASE InitFailed
  <2>1. stack = << >> /\ protocol' \in BOOLEAN
    BY <1>2, <1>5 DEF InitFailed
  <2>2. Silently("boot") \/ SaysAndGoes(L("initialising", None), status, "prompt")
    BY <1>5, Zenon DEF InitFailed
  <2>3. PICK s \in Errors \cup {None} : s = status
    BY <1>2
  <2>4. Silently("boot") \/ SaysAndGoes(L("initialising", None), s, "prompt")
    BY <2>2, <2>3 DEF SaysAndGoes
  <2> QED
    BY <1>1, <2>1, <2>4, Going
<1>6. CASE check_for_fatal_error
  <2>1. stack = << >> /\ protocol' \in BOOLEAN
    BY <1>2, <1>6 DEF check_for_fatal_error
  <2>2. \E s \in Errors : SaysAndGoes(L("fatal", s), s, "prompt")
    BY <1>6, Zenon DEF check_for_fatal_error
  <2> QED
    BY <1>1, <2>1, <2>2, Going
<1>7. CASE Prompt
  <2>1. stack = << >> /\ protocol' \in BOOLEAN
    BY <1>2, <1>7 DEF Prompt
  <2>2. SaysAndGoes(L("press any key", None), status, "wait_for_input")
    BY <1>7, Zenon DEF Prompt
  <2>3. PICK s \in Errors \cup {None} : s = status
    BY <1>2
  <2>4. SaysAndGoes(L("press any key", None), s, "wait_for_input")
    BY <2>2, <2>3 DEF SaysAndGoes
  <2> QED
    BY <1>1, <2>1, <2>4, Going
<1>8. CASE wait_for_input
  <2>1. stack = << >> /\ protocol' \in BOOLEAN /\ Silently("returned")
    BY <1>2, <1>8 DEF wait_for_input
  <2> QED
    BY <1>1, <2>1, Going
<1> QED
  BY <1>3, <1>4, <1>5, <1>6, <1>7, <1>8

-----------------------------------------------------------------------------
(* The theorems.                                                             *)

LEMMA InitIInv == Init => IInv
<1> SUFFICES ASSUME Init PROVE IInv
  OBVIOUS
<1>1. TypeOK
  <2>1. << >> \in Seq(Frame)
    BY EmptySeq
  <2>2. Types
    <3>1. protocol \in BOOLEAN
      BY Zenon DEF Init
    <3>2. /\ error_message_buffer \in Errors \cup {None} /\ status \in Errors \cup {None}
          /\ serialOut \subseteq Shown /\ conOut \subseteq Shown /\ issued \subseteq Line
      BY Zenon DEF Init
    <3>3. pc \in PCs /\ failures \in Nat
      BY ErrorsAssumption DEF Init, PCs
    <3> QED
      BY <3>1, <3>2, <3>3 DEF Types
  <2> QED
    BY <2>1, <2>2, TypesAndStack DEF Init
<1>2. OthersWait /\ TopTells /\ LinesTellTheirStatus /\ OutOrHeld
  BY EmptySeq DEF Init, OthersWait, TopTells, LinesTellTheirStatus, OutOrHeld
<1>3. DepthBounded
  BY EmptySeq DEF Init, DepthBounded
<1> QED
  BY <1>1, <1>2, <1>3 DEF IInv

\* The invariant holds whatever fails and however deep its report nests.
THEOREM Invariance == Spec => []IInv
<1>1. IInv /\ [Next]_vars => IInv'
  <2> SUFFICES ASSUME IInv, [Next]_vars PROVE IInv'
    OBVIOUS
  <2>1. CASE debug_print_line
    BY <2>1, FormatStep, VPrintStep, WriteStep, PrintErrorStep DEF debug_print_line
  <2>2. CASE Write_fails
    BY <2>2, WriteFailsStep
  <2>5. CASE StackOverflows
    BY <2>5, OverflowStep
  <2>3. CASE LocateProtocol \/ configure_serial_protocol \/ InitFailed
               \/ check_for_fatal_error \/ Prompt \/ wait_for_input
    BY <2>3, ProgramStep
  <2>4. CASE UNCHANGED vars
    <3>1. pc' \in PCs /\ protocol' \in BOOLEAN
      BY <2>4, TypesAndStack DEF vars, IInv, Types
    <3> QED
      BY <2>4, <3>1, Silent DEF vars
  <2> QED
    BY <2>1, <2>2, <2>3, <2>4, <2>5 DEF Next, Program
<1> QED
  BY <1>1, InitIInv, PTL DEF Spec

\* TypeOK is an invariant: among others, a frame holds an error exactly when its
\* Write has failed, so that none is reported that did not happen.
THEOREM TypeCorrect == Spec => []TypeOK
BY Invariance, PTL DEF IInv

\* Every line that goes out shows the status it was asked to report, though all
\* of them share one buffer.
THEOREM TellsTheStatus == Spec => []LinesTellTheirStatus
BY Invariance, PTL DEF IInv

\* No line is lost without a word on the console.
THEOREM NothingLost == Spec => []NothingLostSilently
<1>1. IInv => NothingLostSilently
  <2> SUFFICES ASSUME IInv, stack = << >>, NEW line \in issued PROVE Out(line)
    BY DEF NothingLostSilently, Out
  <2>1. 1 .. Len(stack) = {}
    BY EmptySeq
  <2> QED
    BY <2>1 DEF IInv, OutOrHeld
<1> QED
  BY <1>1, Invariance, PTL

\* The recursion through a failing serial port is as deep as the port has failed.
THEOREM Shallow == Spec => []DepthBounded
BY Invariance, PTL DEF IInv

=============================================================================
