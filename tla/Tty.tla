-------------------------------- MODULE Tty --------------------------------
(***************************************************************************)
(* The console's screen (tty.c): a grid of characters, a cursor, and the   *)
(* machine that reads escape sequences out of what is printed.  The state  *)
(* is one record, and the functions of the code are functions on it.       *)
(* Colours are left out, and with them CSI m.                              *)
(***************************************************************************)
EXTENDS Integers, Sequences

CONSTANTS
  screen_height, screen_width,
  ANSI_PARAMS  \* 8 in the code: the parameters a sequence may have

ASSUME TtyAssumption ==
  /\ screen_height \in Nat \ {0} /\ screen_width \in Nat \ {0}
  /\ ANSI_PARAMS \in Nat \ {0}

BLANK == 32
MAX_PARAM == 999

Row == 0 .. screen_height - 1
Col == 0 .. screen_width - 1

BlankGrid == [r \in Row |-> [c \in Col |-> BLANK]]
NoParams == [i \in 0 .. ANSI_PARAMS - 1 |-> 0]

\* The terminal after boot has cleared the screen.
Terminal0 ==
  [row |-> 0, col |-> 0, grid |-> BlankGrid,
   ansi_state |-> 0, params |-> NoParams, nparams |-> 0, private |-> FALSE,
   saved |-> <<0, 0>>,
   alt_active |-> FALSE, alt_grid |-> BlankGrid, alt_saved |-> <<0, 0>>]

Lesser(a, b) == IF a < b THEN a ELSE b
Greater(a, b) == IF a > b THEN a ELSE b

---------------------------------------------------------------------------
(* The screen *)

clear(t) == [t EXCEPT !.grid = BlankGrid, !.row = 0, !.col = 0]

scroll_screen(t) ==
  [t EXCEPT !.grid = [r \in Row |-> IF r < screen_height - 1 THEN t.grid[r + 1]
                                    ELSE [c \in Col |-> BLANK]],
            !.row = screen_height - 1,
            !.col = 0]

\* Mutant: the screen scrolls one row too late.
new_line_late(t) ==
  LET n == [t EXCEPT !.col = 0, !.row = @ + 1]
  IN  IF n.row > screen_height THEN scroll_screen(n) ELSE n

new_line(t) ==
  LET n == [t EXCEPT !.col = 0, !.row = @ + 1]
  IN  IF n.row >= screen_height THEN scroll_screen(n) ELSE n

\* Blanks from (row0, col0); end exclusive.
vga_fill(t, row0, col0, row1, col1) ==
  [t EXCEPT !.grid =
     [r \in Row |-> [c \in Col |->
        IF row0 <= r /\ r < row1 /\ col0 <= c /\ c < col1 THEN BLANK ELSE t.grid[r][c]]]]

alt_enter(t) ==
  IF t.alt_active THEN t
  ELSE clear([t EXCEPT !.alt_grid = t.grid, !.alt_saved = <<t.row, t.col>>,
                       !.alt_active = TRUE])

alt_exit(t) ==
  IF ~t.alt_active THEN t
  ELSE [t EXCEPT !.grid = t.alt_grid, !.row = t.alt_saved[1], !.col = t.alt_saved[2],
                 !.alt_active = FALSE]

---------------------------------------------------------------------------
(* Escape sequences *)

ansi_param(t, idx, def) ==
  IF idx > t.nparams \/ t.params[idx] <= 0 THEN def ELSE t.params[idx]

\* The sequences by their final byte: H f A B C D J K s u h l.
ansi_csi(t, final) ==
  LET p0 == ansi_param(t, 0, 0)
      n  == ansi_param(t, 0, 1)
  IN  CASE final \in {72, 102} ->
             [t EXCEPT !.row = Lesser(n, screen_height) - 1,
                       !.col = Lesser(ansi_param(t, 1, 1), screen_width) - 1]
        [] final = 65 -> [t EXCEPT !.row = Greater(@ - n, 0)]
        [] final = 66 -> [t EXCEPT !.row = Lesser(@ + n, screen_height - 1)]
        [] final = 67 -> [t EXCEPT !.col = Lesser(@ + n, screen_width - 1)]
        [] final = 68 -> [t EXCEPT !.col = Greater(@ - n, 0)]
        [] final = 74 ->
             IF p0 = 2 THEN vga_fill(t, 0, 0, screen_height, screen_width)
             ELSE vga_fill(t, t.row, t.col, screen_height, screen_width)
        [] final = 75 ->
             vga_fill(t, t.row, IF p0 = 2 THEN 0 ELSE t.col, t.row + 1, screen_width)
        [] final = 115 /\ ~t.private -> [t EXCEPT !.saved = <<t.row, t.col>>]
        [] final = 117 /\ ~t.private -> [t EXCEPT !.row = t.saved[1], !.col = t.saved[2]]
        [] final = 104 /\ t.private /\ p0 = 1049 -> alt_enter(t)
        [] final = 108 /\ t.private /\ p0 = 1049 -> alt_exit(t)
        [] OTHER -> t

IsLetter(c) == c \in 65 .. 90 \/ c \in 97 .. 122

\* One byte after ESC, and one after ESC [.
ansi_esc(t, c) ==
  IF c = 91 THEN [t EXCEPT !.ansi_state = 2, !.nparams = 0, !.private = FALSE,
                           !.params = NoParams]
  ELSE [t EXCEPT !.ansi_state = 0]

capped(n) == Lesser(n, MAX_PARAM)

ansi_byte(t, c) ==
  CASE c = 63 /\ t.nparams = 0 /\ t.params[0] = 0 -> [t EXCEPT !.private = TRUE]
    [] c \in 48 .. 57 ->
         [t EXCEPT !.params[t.nparams] = capped(@ * 10 + (c - 48))]
    [] c = 59 ->
         IF t.nparams < ANSI_PARAMS - 1 THEN [t EXCEPT !.nparams = @ + 1] ELSE t
    [] IsLetter(c) -> ansi_csi([t EXCEPT !.ansi_state = 0], c)
    [] OTHER -> [t EXCEPT !.ansi_state = 0]

\* Spaces up to the next multiple of 8, or to the last column.
tab(t) ==
  LET stop == Lesser(((t.col + 8) \div 8) * 8, screen_width - 1)
  IN  [vga_fill(t, t.row, t.col, t.row + 1, stop) EXCEPT !.col = Greater(t.col, stop)]

backspace(t) ==
  IF t.col > 0 THEN [t EXCEPT !.col = @ - 1]
  ELSE IF t.row > 0 THEN [t EXCEPT !.row = @ - 1, !.col = screen_width - 1]
  ELSE t

\* Mutant: the cursor stays in the last column.
put_stays(t, c) ==
  [t EXCEPT !.grid[t.row][t.col] = c, !.col = Lesser(@ + 1, screen_width - 1)]

put(t, c) ==
  LET n == [t EXCEPT !.grid[t.row][t.col] = c, !.col = @ + 1]
  IN  IF n.col >= screen_width THEN new_line(n) ELSE n

print_char(t, c) ==
  CASE t.ansi_state = 1 -> ansi_esc(t, c)
    [] t.ansi_state = 2 -> ansi_byte(t, c)
    [] t.ansi_state = 0 ->
         CASE c = 27 -> [t EXCEPT !.ansi_state = 1]
           [] c = 7  -> t
           [] c = 9  -> tab(t)
           [] c = 8  -> backspace(t)
           [] c = 13 -> [t EXCEPT !.col = 0]
           [] c = 10 -> new_line(t)
           [] OTHER  -> put(t, c)

print(t, s) ==
  LET after[i \in 0 .. Len(s)] == IF i = 0 THEN t ELSE print_char(after[i - 1], s[i])
  IN  after[Len(s)]

\* What a terminal may be: the cursor, the saved ones and the parameter that is
\* being read are inside their arrays.
TerminalOK(t) ==
  /\ t.row \in Row /\ t.col \in Col
  /\ DOMAIN t.grid = Row /\ \A r \in Row : DOMAIN t.grid[r] = Col
  /\ t.saved \in Row \X Col /\ t.alt_saved \in Row \X Col
  /\ t.ansi_state \in 0 .. 2
  /\ DOMAIN t.params = 0 .. ANSI_PARAMS - 1
  /\ t.nparams \in 0 .. ANSI_PARAMS - 1
  /\ \A i \in DOMAIN t.params : t.params[i] \in 0 .. MAX_PARAM
=============================================================================
