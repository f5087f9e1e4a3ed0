------------------------------ MODULE Console ------------------------------
(***************************************************************************)
(* The console as a program sees it: sys_read with its line editor, raw    *)
(* reads, sys_write to the screen and the termios ioctls (syscall.c),      *)
(* composed with the keyboard driver, whose interrupt comes in between,    *)
(* and the screen.                                                         *)
(*                                                                         *)
(* A call begins with interrupts off; getchar turns them on when it waits, *)
(* and they stay on until the call returns.                                *)
(***************************************************************************)
EXTENDS Keyboard, Tty, FiniteSetsExt, SequencesExt

CONSTANTS
  Counts,   \* the byte counts of reads
  Outputs,  \* what programs write
  Modes     \* termios settings: [icanon, echo : BOOLEAN, vmin : {0, 1}]

ASSUME ConsoleAssumption ==
  /\ Counts \subseteq Nat \ {0}
  /\ Outputs \subseteq Seq(0 .. 255)
  /\ Modes \subseteq [icanon : BOOLEAN, echo : BOOLEAN, vmin : {0, 1}]

VARIABLES
  tty,
  con,        \* the termios of the console
  pc,         \* where sys_read is: "user", "line", "esc", "seq", "raw0", "raw"
  count,      \* its byte count
  buf,        \* what it has in its buffer
  answer,     \* what the last read returned
  interrupts, \* the interrupt flag
  plain       \* history: what was echoed takes one cell each (see StaysPlain)

readVars == <<pc, count, buf, answer, interrupts, plain>>
vars == <<keyVars, tty, con, readVars>>

InLine == pc \in {"line", "esc", "seq"}

\* The ring holds whole keys again once it is empty between two of them.
Mends == torn' = (torn /\ (buffer_head # buffer_tail' \/ pc' \in {"esc", "seq"}))

\* A step of sys_read that takes a byte, or that finds none.
Took == TakeByte /\ UNCHANGED <<flagVars, held, wire, twins, con>>
NoByte ==
  /\ buffer_head = buffer_tail
  /\ UNCHANGED <<ringVars, flagVars, held, wire, twins, con, plain>>

Return(s) ==
  /\ pc' = "user" /\ count' = 0 /\ buf' = << >>
  /\ answer' = s
  /\ interrupts' = TRUE

Continue(l, where) ==
  /\ pc' = where /\ buf' = l
  /\ UNCHANGED <<count, answer, interrupts>>

Echo(s) == IF con.echo THEN print(tty, s) ELSE tty

---------------------------------------------------------------------------
(* The line editor *)

\* Where ^W stops: behind the blank in front of the last word.
word_start(l) ==
  LET word == Max({0} \cup {i \in DOMAIN l : l[i] # BLANK})
  IN  Max({0} \cup {i \in 1 .. word : l[i] = BLANK})

\* The line after backspace, ^U, ^W (blanks, and the word before them), ^L and
\* any other character.
edit(l, c) ==
  CASE c \in {BS, DEL} -> IF l = << >> THEN l ELSE Front(l)
    [] c = 21 -> << >>
    [] c = 23 -> SubSeq(l, 1, word_start(l))
    [] c = 12 -> l
    [] OTHER -> Append(l, c)

\* Each character that goes away is rubbed out on the screen by BS, blank, BS.
rubout(n) == [i \in 1 .. 3 * n |-> IF i % 3 = 2 THEN BLANK ELSE BS]

edit_echo(l, c) ==
  CASE c = 12 -> IF con.echo THEN print(clear(tty), l) ELSE clear(tty)
    [] c \in {BS, DEL, 21, 23} -> Echo(rubout(Len(l) - Len(edit(l, c))))
    [] OTHER -> Echo(<<c>>)

\* Bell and tab take no cell, or several, and are rubbed out like one.  The line
\* is plain while none was echoed, and again after ^L has printed it anew.
Uneven == {7, 9}
StaysPlain(c) ==
  IF c = 12 THEN tty.ansi_state = 0 /\ ToSet(buf) \cap Uneven = {}
  ELSE plain /\ c \notin Uneven

\* A canonical read.  With room for no character it returns at once.
ReadLine(n) ==
  /\ pc = "user" /\ con.icanon
  /\ IF n = 1 THEN Return(<< >>)
     ELSE pc' = "line" /\ count' = n /\ buf' = << >> /\ interrupts' = FALSE
          /\ UNCHANGED answer
  /\ plain' = (tty.ansi_state = 0)
  /\ UNCHANGED <<keyVars, tty, con>>

Ends == {LF, 13, 4, 3}

\* Newline, ^D and ^C end the read; ^C throws the line away.
EndAnswer(l, c) == CASE c = 3 -> << >> [] c = 4 -> l [] OTHER -> Append(l, LF)
EndEcho(c) == CASE c = 3 -> <<94, 67, LF>> [] c = 4 -> << >> [] OTHER -> <<LF>>

EndLine ==
  /\ pc = "line" /\ Took /\ NextByte \in Ends
  /\ Return(EndAnswer(buf, NextByte))
  /\ tty' = Echo(EndEcho(NextByte))
  /\ Mends /\ UNCHANGED plain

EditByte ==
  LET l == edit(buf, NextByte)
  IN  /\ pc = "line" /\ Took /\ NextByte \notin Ends \cup {ESC}
      /\ IF Len(l) < count - 1 THEN Continue(l, "line") ELSE Return(l)
      /\ tty' = edit_echo(buf, NextByte)
      /\ plain' = StaysPlain(NextByte)
      /\ Mends

\* An escape sequence is swallowed as far as it is there.
EscByte ==
  /\ pc = "line" /\ Took /\ NextByte = ESC
  /\ Continue(buf, "esc")
  /\ UNCHANGED <<tty, plain>>
  /\ Mends

\* Mutant: a sequence is ESC and one byte.
after_esc_one(c) == "line"

after_esc(c) == IF c \in {91, 79} THEN "seq" ELSE "line"

\* Mutant: only ~ ends a sequence.
seq_ends_tilde(c) == c = 126

seq_ends(c) == IsLetter(c) \/ c = 126

SwallowByte ==
  /\ pc \in {"esc", "seq"} /\ Took
  /\ Continue(buf, IF pc = "esc" THEN after_esc(NextByte)
                   ELSE IF seq_ends(NextByte) THEN "line" ELSE "seq")
  /\ UNCHANGED <<tty, plain>>
  /\ Mends

SwallowEnds ==
  /\ pc \in {"esc", "seq"} /\ NoByte
  /\ Continue(buf, "line")
  /\ UNCHANGED tty
  /\ Mends

\* getchar finds nothing: sti; hlt.
GetcharWaits ==
  /\ pc \in {"line", "raw0"} /\ NoByte
  /\ interrupts' = TRUE
  /\ UNCHANGED <<pc, count, buf, answer, tty, torn>>

---------------------------------------------------------------------------
(* Raw reads: what is there, and with VMIN at least one byte *)

ReadRaw(n) ==
  /\ pc = "user" /\ ~con.icanon
  /\ pc' = IF con.vmin > 0 THEN "raw0" ELSE "raw"
  /\ count' = n /\ buf' = << >> /\ interrupts' = FALSE
  /\ plain' = (tty.ansi_state = 0)
  /\ UNCHANGED <<keyVars, tty, con, answer>>

RawByte ==
  LET l == Append(buf, NextByte)
  IN  /\ pc \in {"raw0", "raw"} /\ Took
      /\ IF Len(l) < count THEN Continue(l, "raw") ELSE Return(l)
      /\ tty' = Echo(<<NextByte>>)
      /\ UNCHANGED plain
      /\ torn' = (buffer_head # buffer_tail')

RawDone ==
  /\ pc = "raw" /\ NoByte
  /\ Return(buf)
  /\ UNCHANGED <<tty, torn>>

---------------------------------------------------------------------------
(* Other calls, and the interrupt *)

Write(s) ==
  /\ pc = "user"
  /\ tty' = print(tty, s)
  /\ UNCHANGED <<keyVars, con, readVars>>

\* TCSETS, and TCSETSF, which throws away what was typed.
Tcset(mode, flush) ==
  /\ pc = "user"
  /\ con' = mode
  /\ IF flush THEN keyboard_flush ELSE UNCHANGED <<ringVars, torn>>
  /\ UNCHANGED <<flagVars, held, wire, twins, tty, readVars>>

KeyboardIrq ==
  /\ interrupts
  /\ keyboard_handler
  /\ UNCHANGED <<tty, con, readVars>>

Person ==
  /\ \E k \in Keys : Press(k) \/ Release(k)
  /\ UNCHANGED <<tty, con, readVars>>

Init ==
  /\ keyboard_init
  /\ tty = Terminal0
  /\ con \in Modes /\ con.icanon
  /\ pc = "user" /\ count = 0 /\ buf = << >> /\ answer = << >>
  /\ interrupts = TRUE /\ plain = TRUE

ReadStep ==
  \/ EndLine \/ EditByte \/ EscByte
  \/ SwallowByte \/ SwallowEnds \/ GetcharWaits
  \/ RawByte \/ RawDone

Next ==
  \/ \E n \in Counts : ReadLine(n) \/ ReadRaw(n)
  \/ ReadStep
  \/ \E s \in Outputs : Write(s)
  \/ \E mode \in Modes, flush \in BOOLEAN : Tcset(mode, flush)
  \/ KeyboardIrq
  \/ Person

Spec == Init /\ [][Next]_vars

\* A call that is under way goes on.
FairSpec == Spec /\ WF_vars(ReadStep)

---------------------------------------------------------------------------
(* Properties *)

ConsoleTypeOK ==
  /\ KeyTypeOK
  /\ TerminalOK(tty)
  /\ con \in [icanon : BOOLEAN, echo : BOOLEAN, vmin : {0, 1}]
  /\ pc \in {"user", "line", "esc", "seq", "raw0", "raw"}
  /\ pc # "user" => Len(buf) < count

\* Who reads bytes is at a place, and has the characters that are not part of an
\* escape sequence.
hear(r, c) ==
  [at   |-> CASE r.at = "esc" -> IF c \in {91, 79} THEN "seq" ELSE "line"
              [] r.at = "seq" -> IF IsLetter(c) \/ c = 126 THEN "line" ELSE "seq"
              [] OTHER        -> IF c = ESC THEN "esc" ELSE "line",
   text |-> IF r.at = "line" /\ c # ESC THEN Append(r.text, c) ELSE r.text]

hears(r, s) ==
  LET after[i \in 0 .. Len(s)] == IF i = 0 THEN r ELSE hear(after[i - 1], s[i])
  IN  after[Len(s)]

\* What sys_read will make of the ring, from where it is.
Reader == [at |-> IF pc \in {"esc", "seq"} THEN pc ELSE "line", text |-> << >>]
Typed == hears(Reader, Waiting).text

\* A raw read makes no promise about lines.
LI == INSTANCE LineInput WITH
  Edit <- edit, Ends <- Ends, Answer <- EndAnswer,
  typed <- Typed, reading <- pc # "user", limit <- IF pc = "user" THEN 0 ELSE count - 1,
  line <- buf, torn <- torn \/ pc \in {"raw0", "raw"}

\* A line is made of the characters that were typed, in order, whenever they came:
\* the interrupt between any two bytes that sys_read takes loses nothing,
\* doubles nothing, and puts no part of an arrow key's sequence into the line.
ImplementsLineInput == LI!Spec

\* Whatever the interrupt queues, it leaves the bytes that wait as they are: a full
\* ring drops what comes last, and never looks empty.
OverrunDropsNewest ==
  [][KeyboardIrq => IsPrefix(Waiting, Waiting')]_vars

\* A read returns once newline, ^D or ^C has been typed, whatever comes before it
\* and after it.
EnterReturns ==
  InLine /\ ~torn /\ Ends \cap ToSet(Typed) # {} ~> pc = "user"

Position == tty.row * screen_width + tty.col
Cell(i) == tty.grid[i \div screen_width][i % screen_width]

\* With echo on, the cells before the cursor show the line that is being
\* edited, through wrapping, scrolling, rubbing out across rows, ^W, ^U and
\* ^L: what a person sees is what the program will get.  Left out are a line
\* with a bell or a tab in it or rubbed out of it, until ^L repairs the screen, a
\* line of which part has scrolled off, and a program that printed half an
\* escape sequence before the read.
EchoMatchesLine ==
  InLine /\ con.echo /\ plain /\ Len(buf) <= Position =>
    \A i \in DOMAIN buf : Cell(Position - Len(buf) + i - 1) = buf[i]

\* What README.md says of "\033[?1049h": a program that writes it, not inside an
\* escape sequence, is on the alternate screen, which "\033[?1049l" leaves again.  It
\* never is: parameters stop at MAX_PARAM, so 1049 is never read.
EnterAltScreen == CSI \o <<63, 49, 48, 52, 57, 104>>
AltScreenEntered ==
  [][tty.ansi_state = 0 /\ EnterAltScreen \in Outputs /\ Write(EnterAltScreen) => tty'.alt_active]_vars
=============================================================================
