----------------------------- MODULE LineInput -----------------------------
(***************************************************************************)
(* What reading a line from the console promises: the characters of the    *)
(* keys, in the order they were pressed, go through the line editor one by *)
(* one, whether they were typed before the read or while it waits, and     *)
(* keys that send escape sequences leave no trace.                         *)
(*                                                                         *)
(* While torn is TRUE nothing is promised: the ring overran, or a key was  *)
(* pressed that looks like half an escape sequence.                        *)
(***************************************************************************)
EXTENDS Integers, Sequences

CONSTANTS
  Edit(_, _),  \* the line after a character that does not end it
  Ends,        \* characters that end a read
  Answer(_, _) \* what the read then returns

VARIABLES typed, reading, limit, line, answer, torn

vars == <<typed, reading, limit, line, answer, torn>>

Init ==
  /\ typed = << >> /\ line = << >> /\ answer = << >>
  /\ reading = FALSE /\ limit = 0 /\ torn = FALSE

Type ==
  /\ Len(typed') = Len(typed) + 1
  /\ SubSeq(typed', 1, Len(typed)) = typed
  /\ UNCHANGED <<reading, limit, line, answer>>

\* A read of n bytes has room for n - 1 characters.
Call ==
  /\ ~reading /\ reading' = TRUE
  /\ limit' \in Nat \ {0}
  /\ UNCHANGED <<typed, line, answer>>

Return(s) ==
  /\ reading' = FALSE /\ limit' = 0
  /\ line' = << >> /\ answer' = s

\* A read that has no room for a character takes none.
NoRoom ==
  /\ ~reading
  /\ Return(<< >>)
  /\ UNCHANGED typed

Take ==
  LET c == Head(typed)
      l == Edit(line, c)
  IN  /\ reading /\ typed # << >>
      /\ typed' = Tail(typed)
      /\ IF c \in Ends THEN Return(Answer(line, c))
         ELSE IF Len(l) = limit THEN Return(l)
         ELSE line' = l /\ UNCHANGED <<reading, limit, answer>>

Flush ==
  /\ ~reading
  /\ typed' = << >>
  /\ UNCHANGED <<reading, limit, line, answer>>

Next == Type \/ Call \/ NoRoom \/ Take \/ Flush

Spec == Init /\ [][torn \/ torn' \/ Next]_vars
=============================================================================
