---------------------------- MODULE ConsoleProof ----------------------------
(* Proofs about Console, with Keyboard and Tty: for every screen, every     *)
(* ring, every set of keys and every output.                                *)
EXTENDS Console, ListFacts

Byte == 0 .. 255

---------------------------------------------------------------------------
(* The screen *)

\* A terminal that is not on the alternate screen.  Every function of tty.c
\* stays in this set.
Terminals ==
  [row : Row, col : Col, grid : [Row -> [Col -> Nat]],
   ansi_state : 0 .. 2, params : [0 .. ANSI_PARAMS - 1 -> 0 .. MAX_PARAM],
   nparams : 0 .. ANSI_PARAMS - 1, private : BOOLEAN,
   saved : Row \X Col,
   alt_active : {FALSE}, alt_grid : [Row -> [Col -> Nat]], alt_saved : Row \X Col]

Grids == [Row -> [Col -> Nat]]

LEMMA ScreenFact ==
  /\ screen_height \in Nat /\ screen_height >= 1
  /\ screen_width \in Nat /\ screen_width >= 1
  /\ ANSI_PARAMS \in Nat /\ ANSI_PARAMS >= 1
  /\ 0 \in Row /\ 0 \in Col /\ screen_height - 1 \in Row /\ screen_width - 1 \in Col
  /\ \A r : r \in Row <=> r \in Int /\ 0 <= r /\ r < screen_height
  /\ \A c : c \in Col <=> c \in Int /\ 0 <= c /\ c < screen_width
BY TtyAssumption DEF Row, Col

LEMMA TermFact ==
  ASSUME NEW t \in Terminals
  PROVE  /\ t.row \in Row /\ t.col \in Col /\ t.grid \in Grids
         /\ t.ansi_state \in 0 .. 2
         /\ t.params \in [0 .. ANSI_PARAMS - 1 -> 0 .. MAX_PARAM]
         /\ t.nparams \in 0 .. ANSI_PARAMS - 1
         /\ t.private \in BOOLEAN /\ t.saved \in Row \X Col
         /\ t.alt_active = FALSE /\ t.alt_grid \in Grids /\ t.alt_saved \in Row \X Col
BY DEF Terminals, Grids

\* Moving the cursor, and a new grid.
LEMMA SetCursor ==
  ASSUME NEW t \in Terminals, NEW r \in Row, NEW c \in Col
  PROVE  [t EXCEPT !.row = r, !.col = c] \in Terminals
BY DEF Terminals

LEMMA SetGrid ==
  ASSUME NEW t \in Terminals, NEW g \in Grids
  PROVE  [t EXCEPT !.grid = g] \in Terminals
BY DEF Terminals, Grids

LEMMA AnsiStates == 0 \in 0 .. 2 /\ 1 \in 0 .. 2 /\ 2 \in 0 .. 2
OBVIOUS

LEMMA BlankFact == BlankGrid \in Grids /\ BLANK \in Nat
BY DEF BlankGrid, Grids, BLANK

LEMMA ClearStays ==
  ASSUME NEW t \in Terminals
  PROVE  clear(t) \in Terminals
BY BlankFact, ScreenFact DEF clear, Terminals, Grids

\* A terminal whose cursor may have left the screen.
Loose ==
  [row : Nat, col : Nat, grid : [Row -> [Col -> Nat]],
   ansi_state : 0 .. 2, params : [0 .. ANSI_PARAMS - 1 -> 0 .. MAX_PARAM],
   nparams : 0 .. ANSI_PARAMS - 1, private : BOOLEAN,
   saved : Row \X Col,
   alt_active : {FALSE}, alt_grid : [Row -> [Col -> Nat]], alt_saved : Row \X Col]

LEMMA ScrollStays ==
  ASSUME NEW t \in Loose
  PROVE  scroll_screen(t) \in Terminals
<1> DEFINE g == [r \in Row |-> IF r < screen_height - 1 THEN t.grid[r + 1]
                                ELSE [c \in Col |-> BLANK]]
<1>1. g \in Grids
  <2>1. t.grid \in Grids
    BY DEF Loose, Grids
  <2>2. [c \in Col |-> BLANK] \in [Col -> Nat]
    BY BlankFact
  <2>3. ASSUME NEW r \in Row, r < screen_height - 1 PROVE r + 1 \in Row
    BY <2>3, ScreenFact
  <2>4. ASSUME NEW r \in Row
        PROVE  (IF r < screen_height - 1 THEN t.grid[r + 1] ELSE [c \in Col |-> BLANK]) \in [Col -> Nat]
    BY <2>1, <2>2, <2>3 DEF Grids
  <2>5. QED
    BY <2>4 DEF Grids
<1> HIDE DEF g
<1>2. [t EXCEPT !.grid = g, !.row = screen_height - 1, !.col = 0] \in Terminals
  BY <1>1, ScreenFact DEF Loose, Terminals, Grids
<1>3. QED
  BY <1>2 DEF scroll_screen, g

LEMMA NewLineStays ==
  ASSUME NEW t \in Loose, t.row \in Row
  PROVE  new_line(t) \in Terminals
<1> DEFINE n == [t EXCEPT !.col = 0, !.row = @ + 1]
<1>1. n \in Loose /\ n.row = t.row + 1 /\ n.col = 0
  <2>1. t.row + 1 \in Nat
    BY ScreenFact
  <2>2. QED
    BY <2>1 DEF Loose
<1> HIDE DEF n
<1>2. CASE n.row >= screen_height
  BY <1>1, <1>2, ScrollStays DEF new_line, n
<1>3. CASE ~(n.row >= screen_height)
  <2>1. n.row \in Row /\ n.col \in Col
    BY <1>1, <1>3, ScreenFact
  <2>2. n \in Terminals
    BY <1>1, <2>1 DEF Loose, Terminals
  <2>3. QED
    BY <1>3, <2>2 DEF new_line, n
<1>4. QED
  BY <1>2, <1>3

LEMMA TerminalsLoose == Terminals \subseteq Loose
<1>1. Row \subseteq Nat /\ Col \subseteq Nat
  BY ScreenFact
<1>2. QED
  BY <1>1 DEF Terminals, Loose

LEMMA FillStays ==
  ASSUME NEW t \in Terminals, NEW row0, NEW col0, NEW row1, NEW col1
  PROVE  vga_fill(t, row0, col0, row1, col1) \in Terminals
<1> DEFINE g == [r \in Row |-> [c \in Col |->
                  IF row0 <= r /\ r < row1 /\ col0 <= c /\ c < col1 THEN BLANK ELSE t.grid[r][c]]]
<1>1. t.grid \in Grids /\ BLANK \in Nat
  BY TermFact, BlankFact
<1>2. g \in Grids
  BY <1>1 DEF Grids
<1> HIDE DEF g
<1>3. QED
  BY <1>2, SetGrid DEF vga_fill, g

LEMMA PutStays ==
  ASSUME NEW t \in Terminals, NEW c \in Nat
  PROVE  put(t, c) \in Terminals
<1> DEFINE n == [t EXCEPT !.grid[t.row][t.col] = c, !.col = @ + 1]
<1>1. t.row \in Row /\ t.col \in Col /\ t.grid \in Grids
  BY TermFact
<1>2. [t.grid EXCEPT ![t.row][t.col] = c] \in Grids
  BY <1>1 DEF Grids
<1>3. n \in Loose /\ n.row = t.row /\ n.col = t.col + 1
  <2> DEFINE g == [t.grid EXCEPT ![t.row][t.col] = c]
  <2>1. n = [t EXCEPT !.grid = g, !.col = @ + 1]
    OBVIOUS
  <2> HIDE DEF g, n
  <2>2. g \in Grids
    BY <1>2 DEF g
  <2>3. t.row \in Nat /\ t.col + 1 \in Nat
    BY <1>1, ScreenFact
  <2>4. QED
    BY <2>1, <2>2, <2>3 DEF Terminals, Loose, Grids
<1> HIDE DEF n
<1>4. CASE n.col >= screen_width
  BY <1>1, <1>3, <1>4, NewLineStays DEF put, n
<1>5. CASE ~(n.col >= screen_width)
  <2>1. n.row \in Row /\ n.col \in Col
    BY <1>1, <1>3, <1>5, ScreenFact
  <2>2. n \in Terminals
    BY <1>3, <2>1 DEF Loose, Terminals
  <2>3. QED
    BY <1>5, <2>2 DEF put, n
<1>6. QED
  BY <1>4, <1>5

LEMMA BackspaceStays ==
  ASSUME NEW t \in Terminals
  PROVE  backspace(t) \in Terminals
<1>1. t.row \in Row /\ t.col \in Col
  BY TermFact
<1>2. t.col > 0 => t.col - 1 \in Col
  BY <1>1, ScreenFact
<1>3. t.row > 0 => t.row - 1 \in Row
  BY <1>1, ScreenFact
<1>4. CASE t.col > 0
  BY <1>2, <1>4 DEF backspace, Terminals
<1>5. CASE ~(t.col > 0) /\ t.row > 0
  BY <1>3, <1>5, ScreenFact DEF backspace, Terminals
<1>6. CASE ~(t.col > 0) /\ ~(t.row > 0)
  BY <1>6 DEF backspace
<1>7. QED
  BY <1>4, <1>5, <1>6

LEMMA TabStays ==
  ASSUME NEW t \in Terminals
  PROVE  tab(t) \in Terminals
<1> DEFINE stop == Lesser(((t.col + 8) \div 8) * 8, screen_width - 1)
           u == vga_fill(t, t.row, t.col, t.row + 1, stop)
<1>1. t.col \in Col
  BY TermFact
<1>2. stop \in Int /\ stop <= screen_width - 1
  BY <1>1, ScreenFact DEF Lesser
<1>3. u \in Terminals
  BY FillStays
<1> HIDE DEF stop, u
<1>4. Greater(t.col, stop) \in Col
  BY <1>1, <1>2, ScreenFact DEF Greater
<1>5. [u EXCEPT !.col = Greater(t.col, stop)] \in Terminals
  BY <1>3, <1>4 DEF Terminals
<1>6. QED
  BY <1>5 DEF tab, u, stop

---------------------------------------------------------------------------
(* Escape sequences *)

LEMMA ParamFact ==
  ASSUME NEW t \in Terminals, NEW idx \in Nat, NEW def \in 0 .. 1
  PROVE  /\ ansi_param(t, idx, def) \in def .. MAX_PARAM
<1>1. /\ t.params \in [0 .. ANSI_PARAMS - 1 -> 0 .. MAX_PARAM]
      /\ t.nparams \in 0 .. ANSI_PARAMS - 1
  BY TermFact
<1>2. CASE idx > t.nparams
  BY <1>2 DEF ansi_param, MAX_PARAM
<1>3. CASE ~(idx > t.nparams)
  <2>1. idx \in 0 .. ANSI_PARAMS - 1
    BY <1>1, <1>3, ScreenFact
  <2>2. t.params[idx] \in 0 .. MAX_PARAM
    BY <1>1, <2>1
  <2>3. t.params[idx] \in Nat /\ t.params[idx] <= 999
    <3>1. \A x \in 0 .. MAX_PARAM : x \in Nat /\ x <= 999
      BY DEF MAX_PARAM
    <3>2. QED
      BY <2>2, <3>1
  <2>4. CASE t.params[idx] <= 0
    BY <2>4 DEF ansi_param, MAX_PARAM
  <2>5. CASE ~(t.params[idx] <= 0)
    <3>1. ansi_param(t, idx, def) = t.params[idx]
      BY <1>3, <2>5 DEF ansi_param
    <3>2. QED
      BY <2>3, <2>5, <3>1 DEF MAX_PARAM
  <2>6. QED
    BY <2>4, <2>5
<1>4. QED
  BY <1>2, <1>3

\* The number of the alternate screen is beyond what a parameter can be.
LEMMA CsiStays ==
  ASSUME NEW t \in Terminals, NEW final \in Byte
  PROVE  ansi_csi(t, final) \in Terminals
<1> DEFINE p0 == ansi_param(t, 0, 0)
           n  == ansi_param(t, 0, 1)
           m  == ansi_param(t, 1, 1)
<1>1. p0 \in 0 .. 999 /\ n \in 1 .. 999 /\ m \in 1 .. 999
  <2>1. p0 \in 0 .. MAX_PARAM
    BY ParamFact
  <2>2. n \in 1 .. MAX_PARAM
    BY ParamFact
  <2>3. m \in 1 .. MAX_PARAM
    BY ParamFact
  <2>4. QED
    BY <2>1, <2>2, <2>3 DEF MAX_PARAM
<1>2. t.row \in Row /\ t.col \in Col /\ t.saved \in Row \X Col /\ t.private \in BOOLEAN
  BY TermFact
<1>3. p0 # 1049
  BY <1>1
<1> HIDE DEF p0, n, m
<1>4. CASE final \in {72, 102}
  <2>1. Lesser(n, screen_height) - 1 \in Row /\ Lesser(m, screen_width) - 1 \in Col
    BY <1>1, ScreenFact DEF Lesser
  <2>2. [t EXCEPT !.row = Lesser(n, screen_height) - 1,
                  !.col = Lesser(m, screen_width) - 1] \in Terminals
    BY <2>1 DEF Terminals
  <2>3. QED
    BY <1>4, <2>2 DEF ansi_csi, n, m
<1>5. CASE final = 65
  <2>1. Greater(t.row - n, 0) \in Row
    BY <1>1, <1>2, ScreenFact, SMTT(40) DEF Greater
  <2>2. [t EXCEPT !.row = Greater(@ - n, 0)] \in Terminals
    BY <2>1 DEF Terminals
  <2>3. QED
    BY <1>5, <2>2 DEF ansi_csi, n
<1>6. CASE final = 66
  <2>1. Lesser(t.row + n, screen_height - 1) \in Row
    BY <1>1, <1>2, ScreenFact, SMTT(40) DEF Lesser
  <2>2. [t EXCEPT !.row = Lesser(@ + n, screen_height - 1)] \in Terminals
    BY <2>1 DEF Terminals
  <2>3. QED
    BY <1>6, <2>2 DEF ansi_csi, n
<1>7. CASE final = 67
  <2>1. Lesser(t.col + n, screen_width - 1) \in Col
    BY <1>1, <1>2, ScreenFact, SMTT(40) DEF Lesser
  <2>2. [t EXCEPT !.col = Lesser(@ + n, screen_width - 1)] \in Terminals
    BY <2>1 DEF Terminals
  <2>3. QED
    BY <1>7, <2>2 DEF ansi_csi, n
<1>8. CASE final = 68
  <2>1. Greater(t.col - n, 0) \in Col
    BY <1>1, <1>2, ScreenFact, SMTT(40) DEF Greater
  <2>2. [t EXCEPT !.col = Greater(@ - n, 0)] \in Terminals
    BY <2>1 DEF Terminals
  <2>3. QED
    BY <1>8, <2>2 DEF ansi_csi, n
<1>9. CASE final = 74
  BY <1>9, FillStays DEF ansi_csi
<1>10. CASE final = 75
  BY <1>10, FillStays DEF ansi_csi
<1>11. CASE final = 115 /\ ~t.private
  <2>1. [t EXCEPT !.saved = <<t.row, t.col>>] \in Terminals
    BY <1>2 DEF Terminals
  <2>2. QED
    BY <1>11, <2>1 DEF ansi_csi
<1>12. CASE final = 117 /\ ~t.private
  <2>1. t.saved[1] \in Row /\ t.saved[2] \in Col
    BY <1>2
  <2>2. [t EXCEPT !.row = t.saved[1], !.col = t.saved[2]] \in Terminals
    BY <2>1 DEF Terminals
  <2>3. QED
    BY <1>12, <2>2 DEF ansi_csi
<1>13. CASE /\ final \notin {72, 102, 65, 66, 67, 68, 74, 75}
            /\ ~(final = 115 /\ ~t.private) /\ ~(final = 117 /\ ~t.private)
  <2>1. ansi_csi(t, final) = t
    BY <1>3, <1>13 DEF ansi_csi, p0
  <2>2. QED
    BY <2>1
<1>14. QED
  BY <1>4, <1>5, <1>6, <1>7, <1>8, <1>9, <1>10, <1>11, <1>12, <1>13

LEMMA AnsiByteStays ==
  ASSUME NEW t \in Terminals, NEW c \in Byte
  PROVE  ansi_byte(t, c) \in Terminals
<1>1. /\ t.params \in [0 .. ANSI_PARAMS - 1 -> 0 .. MAX_PARAM]
      /\ t.nparams \in 0 .. ANSI_PARAMS - 1
  BY TermFact
<1>2. CASE c = 63 /\ t.nparams = 0 /\ t.params[0] = 0
  <2>1. [t EXCEPT !.private = TRUE] \in Terminals
    BY DEF Terminals
  <2>2. QED
    BY <1>2, <2>1 DEF ansi_byte, IsLetter
<1>3. CASE c \in 48 .. 57
  <2> DEFINE v == capped(t.params[t.nparams] * 10 + (c - 48))
             q == [t.params EXCEPT ![t.nparams] = v]
  <2>1. t.params[t.nparams] \in 0 .. MAX_PARAM
    BY <1>1
  <2>2. v \in 0 .. MAX_PARAM
    <3>1. \A x \in 0 .. MAX_PARAM : capped(x * 10 + (c - 48)) \in 0 .. MAX_PARAM
      BY <1>3 DEF capped, Lesser, MAX_PARAM
    <3>2. QED
      BY <2>1, <3>1
  <2>3. [t EXCEPT !.params[t.nparams] = capped(@ * 10 + (c - 48))] = [t EXCEPT !.params = q]
    OBVIOUS
  <2> HIDE DEF v
  <2>4. q \in [0 .. ANSI_PARAMS - 1 -> 0 .. MAX_PARAM]
    BY <1>1, <2>2
  <2> HIDE DEF q
  <2>5. [t EXCEPT !.params = q] \in Terminals
    BY <2>4 DEF Terminals
  <2>6. ansi_byte(t, c) = [t EXCEPT !.params[t.nparams] = capped(@ * 10 + (c - 48))]
    BY <1>3 DEF ansi_byte, IsLetter
  <2>7. QED
    BY <2>3, <2>5, <2>6
<1>4. CASE c = 59
  <2>1. CASE t.nparams < ANSI_PARAMS - 1
    <3>1. t.nparams + 1 \in 0 .. ANSI_PARAMS - 1
      BY <1>1, <2>1, ScreenFact, SMTT(40)
    <3>2. [t EXCEPT !.nparams = @ + 1] \in Terminals
      BY <3>1 DEF Terminals
    <3>3. QED
      BY <1>4, <2>1, <3>2 DEF ansi_byte, IsLetter
  <2>2. CASE ~(t.nparams < ANSI_PARAMS - 1)
    BY <1>4, <2>2 DEF ansi_byte, IsLetter
  <2>3. QED
    BY <2>1, <2>2
<1>5. [t EXCEPT !.ansi_state = 0] \in Terminals
  BY AnsiStates DEF Terminals
<1>6. CASE IsLetter(c)
  <2>1. ansi_byte(t, c) = ansi_csi([t EXCEPT !.ansi_state = 0], c)
    BY <1>6 DEF ansi_byte, IsLetter
  <2>2. QED
    BY <1>5, <2>1, CsiStays
<1>7. CASE /\ ~(c = 63 /\ t.nparams = 0 /\ t.params[0] = 0)
           /\ c \notin 48 .. 57 /\ c # 59 /\ ~IsLetter(c)
  BY <1>5, <1>7 DEF ansi_byte
<1>8. QED
  BY <1>2, <1>3, <1>4, <1>6, <1>7

LEMMA PrintCharStays ==
  ASSUME NEW t \in Terminals, NEW c \in Byte
  PROVE  print_char(t, c) \in Terminals
<1>1. t.ansi_state \in 0 .. 2 /\ t.row \in Row /\ t \in Loose
  BY TermFact, TerminalsLoose
<1>2. CASE t.ansi_state = 1
  <2>1. NoParams \in [0 .. ANSI_PARAMS - 1 -> 0 .. MAX_PARAM] /\ 0 \in 0 .. ANSI_PARAMS - 1
    BY ScreenFact DEF NoParams, MAX_PARAM
  <2>2. [t EXCEPT !.ansi_state = 2, !.nparams = 0, !.private = FALSE,
                  !.params = NoParams] \in Terminals
    <3> DEFINE u == [t EXCEPT !.ansi_state = 2, !.private = FALSE]
               v == [u EXCEPT !.nparams = 0]
    <3>1. u \in Terminals
      BY AnsiStates DEF Terminals
    <3> HIDE DEF u
    <3>2. v \in Terminals
      BY <2>1, <3>1 DEF Terminals
    <3> HIDE DEF v
    <3>3. [v EXCEPT !.params = NoParams] \in Terminals
      BY <2>1, <3>2 DEF Terminals
    <3>4. [v EXCEPT !.params = NoParams] =
            [t EXCEPT !.ansi_state = 2, !.nparams = 0, !.private = FALSE, !.params = NoParams]
      BY DEF u, v, Terminals
    <3>5. QED
      BY <3>3, <3>4
  <2>3. [t EXCEPT !.ansi_state = 0] \in Terminals
    BY AnsiStates DEF Terminals
  <2>4. ansi_esc(t, c) \in Terminals
    BY <2>2, <2>3 DEF ansi_esc
  <2>5. QED
    BY <1>2, <2>4 DEF print_char
<1>3. CASE t.ansi_state = 2
  BY <1>3, AnsiByteStays DEF print_char
<1>4. CASE t.ansi_state = 0
  <2>1. [t EXCEPT !.ansi_state = 1] \in Terminals
    BY AnsiStates DEF Terminals
  <2>2. [t EXCEPT !.col = 0] \in Terminals
    BY ScreenFact DEF Terminals
  <2>3. tab(t) \in Terminals /\ backspace(t) \in Terminals
    BY TabStays, BackspaceStays
  <2>4. new_line(t) \in Terminals
    BY <1>1, NewLineStays
  <2>5. put(t, c) \in Terminals
    BY PutStays DEF Byte
  <2>6. QED
    BY <1>4, <2>1, <2>2, <2>3, <2>4, <2>5 DEF print_char
<1>5. QED
  BY <1>1, <1>2, <1>3, <1>4

\* A string is printed byte by byte.
LEMMA PrintRun ==
  ASSUME NEW t \in Terminals, NEW s \in Seq(Byte)
  PROVE  \E f : /\ f[0] = t /\ f[Len(s)] = print(t, s)
                /\ \A i \in 1 .. Len(s) : f[i] = print_char(f[i - 1], s[i])
                /\ \A i \in 0 .. Len(s) : f[i] \in Terminals
<1> DEFINE n == Len(s)
           F == [p \in Terminals \X (1 .. n) |-> print_char(p[1], s[p[2]])]
           after[i \in 0 .. n] == IF i = 0 THEN t ELSE print_char(after[i - 1], s[i])
<1>1. n \in Nat /\ \A i \in 1 .. n : s[i] \in Byte
  OBVIOUS
<1> HIDE DEF n
<1>2. IsBody(F, Terminals, n)
  BY <1>1, PrintCharStays DEF IsBody
<1>3. \A x \in Terminals, i \in 1 .. n : F[<<x, i>>] = print_char(x, s[i])
  OBVIOUS
<1> HIDE DEF F
<1>a. PICK f \in [0 .. n -> Terminals] : IsRun(f, F, t, n)
  BY <1>1, <1>2, RunExists
<1>4. f[0] = t /\ \A i \in 1 .. n : f[i] = F[<<f[i - 1], i>>]
  BY <1>a DEF IsRun
<1>5. f = [i \in 0 .. n |-> IF i = 0 THEN t ELSE print_char(f[i - 1], s[i])]
  <2>1. ASSUME NEW i \in 0 .. n
        PROVE  f[i] = IF i = 0 THEN t ELSE print_char(f[i - 1], s[i])
    <3>1. CASE i = 0
      BY <1>4, <3>1
    <3>2. CASE i # 0
      <4>1. i \in 1 .. n /\ i - 1 \in 0 .. n
        BY <1>1, <3>2
      <4>2. QED
        BY <1>3, <1>4, <3>2, <4>1
    <3>3. QED
      BY <3>1, <3>2
  <2>2. QED
    BY <2>1
<1>6. after = [i \in 0 .. n |-> IF i = 0 THEN t ELSE print_char(after[i - 1], s[i])]
  BY <1>5
<1>7. print(t, s) = after[n]
  BY DEF print, n
<1> HIDE DEF after
<1>8. after[0] = t /\ \A i \in 1 .. n : after[i] = print_char(after[i - 1], s[i])
  <2>1. 0 \in 0 .. n /\ \A i \in 1 .. n : i \in 0 .. n /\ i # 0
    BY <1>1
  <2>2. QED
    BY <1>6, <2>1
<1>9. \A i \in 1 .. n : after[i - 1] \in Terminals => after[i] \in Terminals
  BY <1>1, <1>8, PrintCharStays
<1>10. \A i \in 0 .. n : after[i] \in Terminals
  BY <1>1, <1>8, <1>9, RunKeeps
<1>11. QED
  BY <1>7, <1>8, <1>10 DEF n

LEMMA PrintStays ==
  ASSUME NEW t \in Terminals, NEW s \in Seq(Byte)
  PROVE  print(t, s) \in Terminals
<1>1. PICK f : f[Len(s)] = print(t, s) /\ \A i \in 0 .. Len(s) : f[i] \in Terminals
  BY PrintRun
<1>2. Len(s) \in 0 .. Len(s)
  OBVIOUS
<1>3. QED
  BY <1>1, <1>2

---------------------------------------------------------------------------
(* What a key sends: bytes of seven bits *)

Char == 0 .. 127

LEMMA SeqElem ==
  ASSUME NEW S, NEW s \in Seq(S), NEW n, n = Len(s)
  PROVE  \A i \in 1 .. n : s[i] \in S
OBVIOUS

LEMMA ScancodeChars ==
  ASSUME NEW k \in 1 .. 57
  PROVE  scancode_to_ascii[k] \in Char /\ scancode_shifted[k] \in Char
<1>1. scancode_to_ascii \in Seq(Char) /\ Len(scancode_to_ascii) = 57
  BY DEF scancode_to_ascii, Char, BS, LF
<1>2. scancode_shifted[k] \in Char
  <2> DEFINE digits == <<33, 64, 35, 36, 37, 94, 38, 42, 40, 41, 95, 43>>
             brackets == <<123, 125>>
             quotes == <<58, 34, 126>>
             commas == <<60, 62, 63>>
  <2>1. digits \in Seq(Char) /\ Len(digits) = 12 /\ brackets \in Seq(Char) /\ Len(brackets) = 2
    BY DEF Char
  <2>2. quotes \in Seq(Char) /\ Len(quotes) = 3 /\ commas \in Seq(Char) /\ Len(commas) = 3
    BY DEF Char
  <2>3. scancode_shifted[k] =
          CASE k \in 2 .. 13  -> digits[k - 1]
            [] k \in 26 .. 27 -> brackets[k - 25]
            [] k \in 39 .. 41 -> quotes[k - 38]
            [] k = 43         -> 124
            [] k \in 51 .. 53 -> commas[k - 50]
            [] OTHER          -> 0
    BY DEF scancode_shifted
  <2> HIDE DEF digits, brackets, quotes, commas
  <2>8. /\ k \in 2 .. 13 => k - 1 \in 1 .. 12
        /\ k \in 26 .. 27 => k - 25 \in 1 .. 2
        /\ k \in 39 .. 41 => k - 38 \in 1 .. 3
        /\ k \in 51 .. 53 => k - 50 \in 1 .. 3
    OBVIOUS
  <2>9. /\ \A i \in 1 .. 12 : digits[i] \in Char
        /\ \A i \in 1 .. 2 : brackets[i] \in Char
        /\ \A i \in 1 .. 3 : quotes[i] \in Char
        /\ \A i \in 1 .. 3 : commas[i] \in Char
    <3>1. \A i \in 1 .. 12 : digits[i] \in Char
      BY <2>1, SeqElem
    <3>2. \A i \in 1 .. 2 : brackets[i] \in Char
      BY <2>1, SeqElem
    <3>3. \A i \in 1 .. 3 : quotes[i] \in Char
      BY <2>2, SeqElem
    <3>4. \A i \in 1 .. 3 : commas[i] \in Char
      BY <2>2, SeqElem
    <3>5. QED
      BY <3>1, <3>2, <3>3, <3>4
  <2>4. (k \in 2 .. 13 => digits[k - 1] \in Char) /\ (k \in 26 .. 27 => brackets[k - 25] \in Char)
    BY <2>8, <2>9
  <2>5. (k \in 39 .. 41 => quotes[k - 38] \in Char) /\ (k \in 51 .. 53 => commas[k - 50] \in Char)
    BY <2>8, <2>9
  <2>6. 0 \in Char /\ 124 \in Char
    BY DEF Char
  <2>7. QED
    BY <2>3, <2>4, <2>5, <2>6
<1>3. \A i \in 1 .. 57 : scancode_to_ascii[i] \in Char
  BY <1>1, SeqElem, ZenonT(40)
<1>4. QED
  BY <1>2, <1>3

LEMMA KeyCharFact ==
  ASSUME NEW k \in 1 .. 127
  PROVE  KeyChar(k) \in Char
<1> DEFINE c == IF k <= 57 THEN scancode_to_ascii[k] ELSE 0
<1>1. c \in Char
  BY ScancodeChars DEF Char
<1>2. k <= 57 => scancode_shifted[k] \in Char
  BY ScancodeChars
<1> HIDE DEF c
<1>3. IsLower(c) => c - 32 \in Char
  BY <1>1 DEF IsLower, Char
<1>4. QED
  BY <1>1, <1>2, <1>3 DEF KeyChar, c

LEMMA CtrlCharFact ==
  ASSUME NEW k \in 1 .. 127, NEW c \in Char
  PROVE  CtrlChar(k, c) = -1 \/ CtrlChar(k, c) \in Char
<1>1. (IsLower(c) => c - 96 \in Char) /\ (IsUpper(c) => c - 64 \in Char)
  BY DEF IsLower, IsUpper, Char
<1>2. {0, ESC, 28, 29, 30, 31, DEL} \subseteq Char
  BY DEF Char, ESC, DEL
<1>3. QED
  BY <1>1, <1>2, ZenonT(40) DEF CtrlChar

LEMMA NavChars ==
  ASSUME NEW k \in Nav
  PROVE  handle_nav_key(k) \in Seq(Char)
<1>1. CSI \in Seq(Char) /\ <<49, 59, 53>> \in Seq(Char) /\ <<49, 59, 51>> \in Seq(Char)
      /\ <<59, 53>> \in Seq(Char) /\ <<126>> \in Seq(Char) /\ << >> \in Seq(Char)
  BY DEF CSI, ESC, Char
<1>2. CASE k \in DOMAIN Arrow
  <2>1. <<Arrow[k]>> \in Seq(Char)
    BY <1>2 DEF Arrow, Char
  <2>2. k \notin DOMAIN HomeEnd /\ k \notin DOMAIN Paging
    BY <1>2 DEF Arrow, HomeEnd, Paging
  <2>3. QED
    BY <1>1, <1>2, <2>1, <2>2 DEF handle_nav_key
<1>3. CASE k \in DOMAIN HomeEnd
  <2>1. <<HomeEnd[k]>> \in Seq(Char)
    BY <1>3 DEF HomeEnd, Char
  <2>2. k \notin DOMAIN Arrow /\ k \notin DOMAIN Paging
    BY <1>3 DEF Arrow, HomeEnd, Paging
  <2>3. QED
    BY <1>1, <1>3, <2>1, <2>2 DEF handle_nav_key
<1>4. CASE k \in DOMAIN Paging
  <2>1. <<Paging[k]>> \in Seq(Char)
    BY <1>4 DEF Paging, Char
  <2>2. k \notin DOMAIN Arrow /\ k \notin DOMAIN HomeEnd
    BY <1>4 DEF Arrow, HomeEnd, Paging
  <2>3. QED
    BY <1>1, <1>4, <2>1, <2>2 DEF handle_nav_key
<1>5. QED
  BY <1>2, <1>3, <1>4 DEF Nav

LEMMA KeyBytesChars ==
  ASSUME NEW k \in 1 .. 127
  PROVE  KeyBytes(k) \in Seq(Char) /\ ExtBytes(k) \in Seq(Char)
<1> DEFINE c == KeyChar(k)
           x == CtrlChar(k, c)
<1>1. c \in Char
  BY KeyCharFact
<1> HIDE DEF c
<1>2. x # -1 => x \in Char
  BY <1>1, CtrlCharFact
<1> HIDE DEF x
<1>3. k \in Nav => handle_nav_key(k) \in Seq(Char)
  BY NavChars
<1>4. <<45>> \in Seq(Char) /\ <<43>> \in Seq(Char) /\ CSI \o <<90>> \in Seq(Char)
      /\ <<9>> \in Seq(Char) /\ << >> \in Seq(Char) /\ <<LF>> \in Seq(Char) /\ <<47>> \in Seq(Char)
  BY DEF CSI, ESC, Char, LF
<1>5. <<c>> \in Seq(Char) /\ <<ESC, c>> \in Seq(Char) /\ (x # -1 => <<x>> \in Seq(Char))
  BY <1>1, <1>2 DEF ESC, Char
<1>6. KeyBytes(k) \in Seq(Char)
  <2> DEFINE other == IF c = 0 THEN << >>
                      ELSE IF ctrl_down /\ x # -1 THEN <<x>>
                      ELSE IF alt_down THEN <<ESC, c>> ELSE <<c>>
  <2>1. other \in Seq(Char)
    BY <1>4, <1>5
  <2> DEFINE tabs == IF shift_down THEN CSI \o <<90>> ELSE <<9>>
  <2>2. tabs \in Seq(Char)
    BY <1>4
  <2>3. KeyBytes(k) = CASE k \in Nav -> handle_nav_key(k) [] k = 74 -> <<45>>
                        [] k = 78 -> <<43>> [] k = TAB -> tabs [] OTHER -> other
    BY DEF KeyBytes, c, x
  <2> HIDE DEF other, tabs
  <2>4. k \in Nav => k # 74 /\ k # 78 /\ k # TAB
    BY DEF Nav, Arrow, HomeEnd, Paging, TAB
  <2>5. QED
    BY <1>3, <1>4, <2>1, <2>2, <2>3, <2>4 DEF TAB
<1>7. ExtBytes(k) \in Seq(Char)
  <2>1. k \in Nav => k # ENTER /\ k # SLASH
    BY DEF Nav, Arrow, HomeEnd, Paging, ENTER, SLASH
  <2>2. QED
    BY <1>3, <1>4, <2>1 DEF ExtBytes, ENTER, SLASH
<1>8. QED
  BY <1>6, <1>7

---------------------------------------------------------------------------
(* The ring *)

Slots == 0 .. KEYBUF - 1
Rings == [buf : [Slots -> Char], head : Slots]

RingOK == key_buffer \in [Slots -> Char] /\ buffer_head \in Slots /\ buffer_tail \in Slots

\* How many bytes a ring with this head holds, and where they are.
Held(head) == IF head >= buffer_tail THEN head - buffer_tail ELSE head - buffer_tail + KEYBUF
Slot(i) == IF buffer_tail + i - 1 < KEYBUF THEN buffer_tail + i - 1
           ELSE buffer_tail + i - 1 - KEYBUF

LEMMA Wraps ==
  ASSUME NEW K \in Nat \ {0}, NEW x \in Nat
  PROVE  (x < K => x % K = x) /\ (K <= x /\ x < 2 * K => x % K = x - K)
OBVIOUS

LEMMA RingFact ==
  ASSUME buffer_tail \in Slots
  PROVE  /\ KEYBUF \in Nat /\ KEYBUF > 1 /\ buffer_tail \in Nat /\ buffer_tail < KEYBUF
         /\ \A h : h \in Slots <=> h \in Nat /\ h < KEYBUF
         /\ \A h \in Slots : /\ (h - buffer_tail + KEYBUF) % KEYBUF = Held(h)
                             /\ Held(h) \in Nat /\ Held(h) < KEYBUF
                             /\ (h + 1) % KEYBUF = IF h + 1 < KEYBUF THEN h + 1 ELSE 0
         /\ \A i \in 1 .. KEYBUF : (buffer_tail + i - 1) % KEYBUF = Slot(i) /\ Slot(i) \in Slots
<1>1. KEYBUF \in Nat /\ KEYBUF > 1 /\ KEYBUF \in Nat \ {0}
  BY KeyboardAssumption
<1>2. buffer_tail \in Nat /\ buffer_tail < KEYBUF /\ \A h : h \in Slots <=> h \in Nat /\ h < KEYBUF
  BY <1>1 DEF Slots
<1>3. ASSUME NEW h \in Slots
      PROVE  /\ (h - buffer_tail + KEYBUF) % KEYBUF = Held(h)
             /\ Held(h) \in Nat /\ Held(h) < KEYBUF
             /\ (h + 1) % KEYBUF = IF h + 1 < KEYBUF THEN h + 1 ELSE 0
  <2>1. h \in Nat /\ h < KEYBUF
    BY <1>2
  <2> DEFINE x == h - buffer_tail + KEYBUF
  <2>2. x \in Nat /\ x < 2 * KEYBUF /\ (h >= buffer_tail <=> KEYBUF <= x)
    BY <1>1, <1>2, <2>1
  <2>3. x % KEYBUF = IF KEYBUF <= x THEN x - KEYBUF ELSE x
    <3> HIDE DEF x
    <3>1. CASE x < KEYBUF
      <4>1. x % KEYBUF = x
        BY <1>1, <2>2, <3>1, Wraps
      <4>2. ~(KEYBUF <= x)
        BY <1>1, <2>2, <3>1
      <4>3. QED
        BY <4>1, <4>2
    <3>2. CASE KEYBUF <= x
      BY <1>1, <2>2, <3>2, Wraps
    <3>3. QED
      BY <1>1, <2>2, <3>1, <3>2
  <2>4. x % KEYBUF = Held(h)
    BY <1>1, <1>2, <2>1, <2>2, <2>3 DEF Held
  <2>5. Held(h) \in Nat /\ Held(h) < KEYBUF
    BY <1>1, <1>2, <2>1 DEF Held
  <2>6. (h + 1) % KEYBUF = IF h + 1 < KEYBUF THEN h + 1 ELSE 0
    <3>1. h + 1 \in Nat /\ h + 1 < 2 * KEYBUF /\ (~(h + 1 < KEYBUF) => h + 1 = KEYBUF /\ KEYBUF <= h + 1)
      BY <1>1, <2>1
    <3>2. CASE h + 1 < KEYBUF
      BY <1>1, <3>1, <3>2, Wraps
    <3>3. CASE ~(h + 1 < KEYBUF)
      <4>1. (h + 1) % KEYBUF = (h + 1) - KEYBUF
        BY <1>1, <3>1, <3>3, Wraps
      <4>2. QED
        BY <1>1, <2>1, <3>1, <3>3, <4>1
    <3>4. QED
      BY <3>2, <3>3
  <2>7. QED
    BY <2>4, <2>5, <2>6
<1>4. ASSUME NEW i \in 1 .. KEYBUF
      PROVE  (buffer_tail + i - 1) % KEYBUF = Slot(i) /\ Slot(i) \in Slots
  <2> DEFINE x == buffer_tail + i - 1
  <2>1. x \in Nat /\ x < 2 * KEYBUF
    BY <1>1, <1>2
  <2>2. x % KEYBUF = IF x < KEYBUF THEN x ELSE x - KEYBUF
    <3> HIDE DEF x
    <3>1. CASE x < KEYBUF
      BY <1>1, <2>1, <3>1, Wraps
    <3>2. CASE KEYBUF <= x
      <4>1. x % KEYBUF = x - KEYBUF
        BY <1>1, <2>1, <3>2, Wraps
      <4>2. ~(x < KEYBUF)
        BY <1>1, <2>1, <3>2
      <4>3. QED
        BY <4>1, <4>2
    <3>3. QED
      BY <1>1, <2>1, <3>1, <3>2
  <2>3. QED
    BY <1>1, <1>2, <2>1, <2>2 DEF Slot
<1>5. QED
  BY <1>1, <1>2, <1>3, <1>4

\* Rings that still hold, in their place, the bytes that wait now.
Keeping ==
  {r \in Rings : /\ Held(r.head) >= Held(buffer_head)
                 /\ \A i \in 1 .. Held(buffer_head) : r.buf[Slot(i)] = key_buffer[Slot(i)]}

\* A byte goes behind the bytes that wait, or nowhere.
LEMMA QueueCharKeeps ==
  ASSUME RingOK, NEW r \in Keeping, NEW c \in Char
  PROVE  queue_char(r, c) \in Keeping
<1> DEFINE next == (r.head + 1) % KEYBUF
           n == [buf |-> [r.buf EXCEPT ![r.head] = c], head |-> next]
<1>1. buffer_tail \in Slots /\ buffer_head \in Slots
  BY DEF RingOK
<1>2. /\ r.head \in Slots /\ r.buf \in [Slots -> Char]
      /\ Held(r.head) >= Held(buffer_head)
      /\ \A i \in 1 .. Held(buffer_head) : r.buf[Slot(i)] = key_buffer[Slot(i)]
  BY DEF Keeping, Rings
<1>3. /\ KEYBUF \in Nat /\ KEYBUF > 1 /\ buffer_tail \in Nat /\ buffer_tail < KEYBUF
      /\ \A h : h \in Slots <=> h \in Nat /\ h < KEYBUF
      /\ \A h \in Slots : /\ (h - buffer_tail + KEYBUF) % KEYBUF = Held(h)
                          /\ Held(h) \in Nat /\ Held(h) < KEYBUF
                          /\ (h + 1) % KEYBUF = IF h + 1 < KEYBUF THEN h + 1 ELSE 0
      /\ \A i \in 1 .. KEYBUF : (buffer_tail + i - 1) % KEYBUF = Slot(i) /\ Slot(i) \in Slots
  BY <1>1, RingFact
<1>4. /\ r.head \in Nat /\ r.head < KEYBUF
      /\ next = IF r.head + 1 < KEYBUF THEN r.head + 1 ELSE 0
      /\ Held(r.head) \in Nat /\ Held(buffer_head) \in Nat /\ Held(r.head) < KEYBUF
  <2>1. r.head \in Slots /\ buffer_head \in Slots
    BY <1>1, <1>2
  <2>2. QED
    BY <1>3, <2>1
<1>5. next \in Slots
  <2> HIDE DEF next
  <2>1. next \in Nat /\ next < KEYBUF
    BY <1>3, <1>4
  <2>2. QED
    BY <1>3, <2>1
<1>6. CASE next = buffer_tail
  BY <1>6 DEF queue_char
<1>7. CASE next # buffer_tail
  <2> HIDE DEF next
  <2>1. queue_char(r, c) = n
    BY <1>7 DEF queue_char, next
  <2>2. n \in Rings /\ n.head = next
    BY <1>2, <1>5 DEF Rings
  <2>3. Held(next) = Held(r.head) + 1
    <3>1. KEYBUF \in Nat /\ KEYBUF > 1 /\ buffer_tail \in Nat /\ buffer_tail < KEYBUF
      BY <1>3
    <3>2. QED
      BY <1>4, <1>7, <3>1 DEF Held
  <2>4. ASSUME NEW i \in 1 .. Held(buffer_head)
        PROVE  n.buf[Slot(i)] = key_buffer[Slot(i)]
    <3>1. i \in Nat /\ i >= 1 /\ i <= Held(r.head) /\ i \in 1 .. KEYBUF
      BY <1>2, <1>3, <1>4
    <3>2. Slot(i) # r.head
      BY <1>3, <1>4, <3>1 DEF Slot, Held
    <3>3. Slot(i) \in Slots
      BY <1>3, <3>1
    <3>4. n.buf[Slot(i)] = r.buf[Slot(i)]
      BY <1>2, <3>2, <3>3
    <3>5. QED
      BY <1>2, <3>4
  <2>5. Held(n.head) >= Held(buffer_head)
    BY <1>2, <1>4, <2>2, <2>3
  <2> HIDE DEF n
  <2>6. QED
    BY <2>1, <2>2, <2>4, <2>5 DEF Keeping
<1>8. QED
  BY <1>6, <1>7

\* queue_str queues byte by byte.
LEMMA QueueRun ==
  ASSUME RingOK, NEW s \in Seq(Char), queue_str(s)
  PROVE  \E f : /\ f[0] = [buf |-> key_buffer, head |-> buffer_head]
                /\ f[Len(s)] = [buf |-> key_buffer', head |-> buffer_head']
                /\ \A i \in 1 .. Len(s) : f[i] = queue_char(f[i - 1], s[i])
                /\ \A i \in 0 .. Len(s) : f[i] \in Keeping
<1> DEFINE n == Len(s)
           r0 == [buf |-> key_buffer, head |-> buffer_head]
           F == [p \in Keeping \X (1 .. n) |-> queue_char(p[1], s[p[2]])]
           after[i \in 0 .. n] == IF i = 0 THEN r0 ELSE queue_char(after[i - 1], s[i])
<1>1. n \in Nat /\ \A i \in 1 .. n : s[i] \in Char
  OBVIOUS
<1>2. r0 \in Keeping
  <2>1. r0 \in Rings /\ r0.head = buffer_head /\ r0.buf = key_buffer
    BY DEF RingOK, Rings
  <2>2. Held(buffer_head) >= Held(buffer_head)
    BY RingFact DEF RingOK
  <2>3. QED
    BY <2>1, <2>2 DEF Keeping
<1>9. key_buffer' = after[n].buf /\ buffer_head' = after[n].head
  BY DEF queue_str
<1> HIDE DEF n, r0
<1>3. IsBody(F, Keeping, n)
  BY <1>1, QueueCharKeeps DEF IsBody
<1>4. \A x \in Keeping, i \in 1 .. n : F[<<x, i>>] = queue_char(x, s[i])
  OBVIOUS
<1> HIDE DEF F
<1>5. PICK f \in [0 .. n -> Keeping] : IsRun(f, F, r0, n)
  BY <1>1, <1>2, <1>3, RunExists
<1>6. f[0] = r0 /\ \A i \in 1 .. n : f[i] = F[<<f[i - 1], i>>]
  BY <1>5 DEF IsRun
<1>7. f = [i \in 0 .. n |-> IF i = 0 THEN r0 ELSE queue_char(f[i - 1], s[i])]
  <2>1. ASSUME NEW i \in 0 .. n
        PROVE  f[i] = IF i = 0 THEN r0 ELSE queue_char(f[i - 1], s[i])
    <3>1. CASE i = 0
      BY <1>6, <3>1
    <3>2. CASE i # 0
      <4>1. i \in 1 .. n /\ i - 1 \in 0 .. n
        BY <1>1, <3>2
      <4>2. QED
        BY <1>4, <1>6, <3>2, <4>1
    <3>3. QED
      BY <3>1, <3>2
  <2>2. QED
    BY <2>1
<1>8. after = [i \in 0 .. n |-> IF i = 0 THEN r0 ELSE queue_char(after[i - 1], s[i])]
  BY <1>7
<1> HIDE DEF after
<1>11. after[0] = r0 /\ \A i \in 1 .. n : after[i] = queue_char(after[i - 1], s[i])
  <2>1. 0 \in 0 .. n /\ \A i \in 1 .. n : i \in 0 .. n /\ i # 0
    BY <1>1
  <2>2. QED
    BY <1>8, <2>1
<1>12. \A i \in 1 .. n : after[i - 1] \in Keeping => after[i] \in Keeping
  BY <1>1, <1>11, QueueCharKeeps
<1>13. \A i \in 0 .. n : after[i] \in Keeping
  BY <1>1, <1>2, <1>11, <1>12, RunKeeps
<1>14. after[n] \in Keeping
  BY <1>1, <1>13
<1>15. [buf |-> key_buffer', head |-> buffer_head'] = after[n]
  <2>1. after[n] \in Rings
    BY <1>14 DEF Keeping
  <2>2. QED
    BY <1>9, <2>1 DEF Rings
<1>16. QED
  BY <1>11, <1>13, <1>15 DEF n, r0

\* What queue_str makes of the ring.
LEMMA QueueStrKeeps ==
  ASSUME RingOK, NEW s \in Seq(Char), queue_str(s)
  PROVE  /\ [buf |-> key_buffer', head |-> buffer_head'] \in Keeping
         /\ buffer_tail' = buffer_tail
         /\ torn \in BOOLEAN => torn' \in BOOLEAN
<1>1. PICK f : /\ f[Len(s)] = [buf |-> key_buffer', head |-> buffer_head']
               /\ \A i \in 0 .. Len(s) : f[i] \in Keeping
  BY QueueRun
<1>2. Len(s) \in 0 .. Len(s)
  OBVIOUS
<1>3. QED
  BY <1>1, <1>2 DEF queue_str

---------------------------------------------------------------------------
(* The line editor *)

LEMMA MaxFact ==
  ASSUME NEW n \in Nat, NEW T \in SUBSET (1 .. n)
  PROVE  Max({0} \cup T) \in 0 .. n
<1> DEFINE U == {0} \cup T
           D == {m \in 0 .. n : n - m \in U}
<1>1. \A u \in U : u \in Nat /\ u <= n /\ n - u \in 0 .. n /\ n - (n - u) = u
  OBVIOUS
<1>2. D \in SUBSET Nat /\ n \in D
  OBVIOUS
<1> HIDE DEF U
<1>3. \A u \in U : n - u \in D
  BY <1>1
<1>4. \A m \in D : m \in Nat /\ m <= n /\ n - m \in U
  OBVIOUS
<1> HIDE DEF D
<1>5. PICK m \in D : \A j \in D : m <= j
  BY <1>2, LeastExists
<1>6. \A u \in U : n - m >= u
  <2> SUFFICES ASSUME NEW u \in U PROVE n - m >= u
    OBVIOUS
  <2>1. m <= n - u /\ u \in Nat /\ m \in Nat
    BY <1>1, <1>3, <1>4, <1>5
  <2>2. QED
    BY <2>1
<1>7. \E x \in U : \A y \in U : x >= y
  BY <1>4, <1>6
<1>8. Max(U) \in U
  BY <1>7 DEF Max
<1>9. QED
  <2>1. Max(U) \in Nat /\ Max(U) <= n
    BY <1>1, <1>8
  <2>2. Max(U) \in 0 .. n
    BY <2>1
  <2>3. QED
    BY <2>2 DEF U

LEMMA WordFact ==
  ASSUME NEW l \in Seq(Char)
  PROVE  word_start(l) \in 0 .. Len(l)
<1> DEFINE word == Max({0} \cup {i \in DOMAIN l : l[i] # BLANK})
           m == Max({0} \cup {i \in 1 .. word : l[i] = BLANK})
<1>1. Len(l) \in Nat /\ DOMAIN l = 1 .. Len(l)
  OBVIOUS
<1>2. word \in 0 .. Len(l)
  <2>1. {i \in DOMAIN l : l[i] # BLANK} \in SUBSET (1 .. Len(l))
    BY <1>1
  <2>2. QED
    BY <1>1, <2>1, MaxFact
<1>3. m \in 0 .. word
  <2> HIDE DEF word
  <2>1. {i \in 1 .. word : l[i] = BLANK} \in SUBSET (1 .. word) /\ word \in Nat
    BY <1>2
  <2>2. QED
    BY <2>1, MaxFact
<1>4. m \in 0 .. Len(l)
  <2> HIDE DEF m, word
  <2>1. QED
    BY <1>1, <1>2, <1>3
<1>5. QED
  BY <1>4, Zenon DEF word_start

LEMMA EditFact ==
  ASSUME NEW l \in Seq(Char), NEW c \in Char
  PROVE  /\ edit(l, c) \in Seq(Char)
         /\ Len(edit(l, c)) \in Nat
         /\ c \in {BS, DEL, 21, 23} => Len(l) - Len(edit(l, c)) \in Nat
<1>1. Len(l) \in Nat /\ DOMAIN l = 1 .. Len(l)
  OBVIOUS
<1>2. CASE c \in {BS, DEL}
  <2>1. edit(l, c) = IF l = << >> THEN l ELSE Front(l)
    BY <1>2 DEF edit, BS, DEL
  <2>2. CASE l = << >>
    BY <1>1, <2>1, <2>2
  <2>3. CASE l # << >>
    <3>1. Len(l) >= 1
      BY <2>3
    <3>2. Front(l) \in Seq(Char) /\ Len(Front(l)) = Len(l) - 1
      <4> DEFINE m == Len(l) - 1
      <4>1. m \in Nat /\ m <= Len(l)
        BY <1>1, <3>1
      <4>2. Front(l) = SubSeq(l, 1, m)
        BY DEF Front
      <4> HIDE DEF m
      <4>3. SubSeq(l, 1, m) \in Seq(Char) /\ Len(SubSeq(l, 1, m)) = m
        BY <1>1, <4>1
      <4>4. QED
        BY <4>2, <4>3 DEF m
    <3>3. QED
      BY <1>1, <2>1, <2>3, <3>1, <3>2
  <2>4. QED
    BY <2>2, <2>3
<1>3. CASE c = 21
  <2>1. edit(l, c) = << >>
    BY <1>3 DEF edit, BS, DEL
  <2>2. QED
    BY <1>1, <2>1
<1>4. CASE c = 23
  <2> DEFINE m == word_start(l)
  <2>1. edit(l, c) = SubSeq(l, 1, m)
    BY <1>4, WordFact DEF edit, BS, DEL
  <2>2. m \in 0 .. Len(l)
    BY WordFact
  <2> HIDE DEF m
  <2>3. m \in Nat /\ m <= Len(l)
    BY <1>1, <2>2
  <2>4. SubSeq(l, 1, m) \in Seq(Char) /\ Len(SubSeq(l, 1, m)) = m
    BY <1>1, <2>3
  <2>5. QED
    BY <1>1, <2>1, <2>3, <2>4
<1>5. CASE c = 12
  <2>1. edit(l, c) = l
    BY <1>5 DEF edit, BS, DEL
  <2>2. QED
    BY <1>1, <1>5, <2>1 DEF BS, DEL
<1>6. CASE c \notin {BS, DEL, 21, 23, 12}
  <2>1. edit(l, c) = Append(l, c)
    BY <1>6 DEF edit
  <2>2. QED
    BY <1>1, <1>6, <2>1
<1>7. QED
  BY <1>2, <1>3, <1>4, <1>5, <1>6

\* Rubbing out n characters is three bytes for each.
LEMMA RuboutFact ==
  ASSUME NEW n \in Nat
  PROVE  /\ rubout(n) \in Seq(Byte) /\ Len(rubout(n)) = 3 * n
         /\ \A j \in 1 .. n : /\ rubout(n)[3 * j - 2] = BS
                             /\ rubout(n)[3 * j - 1] = BLANK
                             /\ rubout(n)[3 * j] = BS
<1> DEFINE e(i) == IF i % 3 = 2 THEN BLANK ELSE BS
<1>1. rubout(n) = [i \in 1 .. 3 * n |-> e(i)] /\ 3 * n \in Nat
  BY DEF rubout
<1>2. \A i : e(i) \in Byte
  BY DEF Byte, BS, BLANK
<1>3. ASSUME NEW j \in 1 .. n
      PROVE  /\ 3 * j - 2 \in 1 .. 3 * n /\ 3 * j - 1 \in 1 .. 3 * n /\ 3 * j \in 1 .. 3 * n
             /\ e(3 * j - 2) = BS /\ e(3 * j - 1) = BLANK /\ e(3 * j) = BS
  <2>1. (3 * j - 2) % 3 = 1 /\ (3 * j - 1) % 3 = 2 /\ (3 * j) % 3 = 0
    OBVIOUS
  <2>2. QED
    BY <2>1
<1> HIDE DEF e
<1>4. QED
  BY <1>1, <1>2, <1>3

---------------------------------------------------------------------------
(* The modifiers *)

KeyCodes == {k \in 1 .. 511 : k % 256 \in (1 .. 127) \ {96}}
Mods == {LSHIFT, RSHIFT, CTRL, RCTRL, ALT, RALT}

\* The scan code of a key, without its E0.
Code(k, up) == (k % EXT) + (IF up THEN BREAK ELSE 0)

\* Codes that touch no flag when they come after an E0.
Quiet == {c \in 1 .. 255 : c % 128 \notin {CTRL, ALT} /\ c # E0}

\* The flags are the modifiers in h.
Follows(h) ==
  /\ shift_down <=> LSHIFT \in h \/ RSHIFT \in h
  /\ ctrl_down <=> CTRL \in h \/ RCTRL \in h
  /\ alt_down <=> ALT \in h \/ RALT \in h

NoPair(h) ==
  /\ ~(LSHIFT \in h /\ RSHIFT \in h)
  /\ ~(CTRL \in h /\ RCTRL \in h)
  /\ ~(ALT \in h /\ RALT \in h)

\* What is held once k went down or came up, when h was held before.
Moved(h, k, up) == IF up THEN h \ {k} ELSE h \cup ({k} \cap Mods)

\* Every code has been delivered.
Idle ==
  /\ wire = << >> /\ ~e0_prefix
  /\ twins \/ Follows(held)

\* The code of a key is on its way, with the E0 before it or without: the
\* flags are behind by this key.
Behind(h, k, up) ==
  /\ \/ wire = <<Code(k, up)>> /\ (e0_prefix <=> k >= EXT)
     \/ wire = <<E0, Code(k, up)>> /\ k >= EXT /\ ~e0_prefix
  /\ held = Moved(h, k, up)
  /\ up /\ k \in Mods => k \in h
  /\ twins \/ (Follows(h) /\ NoPair(h))

\* A navigation key and the shift that the keyboard pretends to move.
Faking(c, d) ==
  /\ \/ wire = <<d>> /\ e0_prefix
     \/ wire = <<E0, d>> /\ ~e0_prefix
     \/ wire = <<c, E0, d>> /\ e0_prefix
     \/ wire = <<E0, c, E0, d>> /\ ~e0_prefix
  /\ twins \/ Follows(held)

KeysInv ==
  /\ held \subseteq Keys /\ held \subseteq Mods
  /\ twins \/ NoPair(held)
  /\ \/ Idle
     \/ \E k \in KeyCodes, up \in BOOLEAN : \E h \in SUBSET Mods : Behind(h, k, up)
     \/ \E c, d \in Quiet : Faking(c, d)

LEMMA ModsFact ==
  /\ UNION Modifiers = Mods
  /\ Mods \subseteq KeyCodes
  /\ \A h : (\E M \in Modifiers : M \subseteq h) <=> ~NoPair(h)
<1>1. UNION Modifiers = Mods
  BY DEF Modifiers, Mods
<1>2. Mods \subseteq KeyCodes
  BY DEF Mods, KeyCodes, LSHIFT, RSHIFT, CTRL, RCTRL, ALT, RALT, EXT
<1>3. ASSUME NEW h PROVE (\E M \in Modifiers : M \subseteq h) <=> ~NoPair(h)
  BY Zenon DEF Modifiers, NoPair
<1>4. QED
  BY <1>1, <1>2, <1>3

\* The flags of a key: k goes down, or comes up.
FlagsDown(k) ==
  /\ shift_down' <=> shift_down \/ k = LSHIFT \/ k = RSHIFT
  /\ ctrl_down' <=> ctrl_down \/ k = CTRL \/ k = RCTRL
  /\ alt_down' <=> alt_down \/ k = ALT \/ k = RALT

FlagsUp(k) ==
  /\ shift_down' <=> shift_down /\ k # LSHIFT /\ k # RSHIFT
  /\ ctrl_down' <=> ctrl_down /\ k # CTRL /\ k # RCTRL
  /\ alt_down' <=> alt_down /\ k # ALT /\ k # RALT

Flags == {shift_down, ctrl_down, alt_down, caps_lock, e0_prefix}

LEMMA CodeFact ==
  ASSUME NEW k \in KeyCodes
  PROVE  /\ k < EXT => /\ Code(k, FALSE) = k /\ Code(k, TRUE) = k + BREAK
                       /\ k \in 1 .. 127 /\ k # RCTRL /\ k # RALT
         /\ k >= EXT => /\ Code(k, FALSE) = k - EXT /\ Code(k, TRUE) = (k - EXT) + BREAK
                        /\ k - EXT \in 1 .. 127
                        /\ k # LSHIFT /\ k # RSHIFT /\ k # CTRL /\ k # ALT
                        /\ (k - EXT = CTRL <=> k = RCTRL)
                        /\ (k - EXT = ALT <=> k = RALT)
         /\ Code(k, FALSE) \in 1 .. 127 /\ Code(k, TRUE) \in 129 .. 255
         /\ Code(k, FALSE) # E0 /\ Code(k, TRUE) # E0
<1>1. k \in 1 .. 511 /\ k % 256 \in 1 .. 127 /\ k % 256 # 96
  BY DEF KeyCodes
<1>2. /\ k < 256 => k % 256 = k
      /\ k >= 256 => k % 256 = k - 256
  BY <1>1, SMTT(40)
<1>3. Code(k, FALSE) = k % 256 /\ Code(k, TRUE) = (k % 256) + 128
  BY <1>1 DEF Code, EXT, BREAK
<1> DEFINE c == Code(k, FALSE)
           d == Code(k, TRUE)
<1> HIDE DEF c, d
<1>4. c = k % 256 /\ d = (k % 256) + 128
  BY <1>3 DEF c, d
<1>5. /\ k < EXT => c = k /\ d = k + BREAK /\ k \in 1 .. 127 /\ k # RCTRL /\ k # RALT
      /\ k >= EXT => /\ c = k - EXT /\ d = (k - EXT) + BREAK
                     /\ k - EXT \in 1 .. 127
                     /\ k # LSHIFT /\ k # RSHIFT /\ k # CTRL /\ k # ALT
                     /\ (k - EXT = CTRL <=> k = RCTRL)
                     /\ (k - EXT = ALT <=> k = RALT)
      /\ c \in 1 .. 127 /\ d \in 129 .. 255 /\ c # E0 /\ d # E0
  BY <1>1, <1>2, <1>4 DEF EXT, BREAK, LSHIFT, RSHIFT, CTRL, RCTRL, ALT, RALT, E0
<1>6. QED
  BY <1>5, Zenon DEF c, d

LEMMA CodeOf ==
  ASSUME NEW k \in KeyCodes, NEW up \in BOOLEAN, NEW c, c = Code(k, up)
  PROVE  /\ c \in Nat /\ c # E0 /\ (c >= BREAK <=> up)
         /\ k < EXT \/ k >= EXT
         /\ k < EXT => ~(k >= EXT)
         /\ ~up /\ k < EXT => c = k
         /\ ~up /\ k >= EXT => c = k - EXT
         /\ up /\ k < EXT => c - BREAK = k
         /\ up /\ k >= EXT => c - BREAK = k - EXT
<1>0. k \in Nat
  BY DEF KeyCodes
<1>1. CASE up
  <2>1. c = Code(k, TRUE)
    BY <1>1
  <2>2. /\ Code(k, TRUE) \in 129 .. 255 /\ Code(k, TRUE) # E0
        /\ k < EXT => Code(k, TRUE) = k + BREAK
        /\ k >= EXT => Code(k, TRUE) = (k - EXT) + BREAK
    BY CodeFact, ZenonT(90)
  <2>3. /\ c \in 129 .. 255 /\ c # E0
        /\ k < EXT => c = k + BREAK
        /\ k >= EXT => c = (k - EXT) + BREAK
    BY <2>1, <2>2, Zenon
  <2>4. QED
    <3>1. c >= BREAK /\ (k < EXT \/ k >= EXT) /\ c \in Nat
      BY <1>0, <2>3 DEF BREAK, EXT
    <3>2. k < EXT => ~(k >= EXT) /\ c - BREAK = k
      BY <1>0, <2>3 DEF BREAK, EXT
    <3>3. k >= EXT => c - BREAK = k - EXT
      BY <1>0, <2>3 DEF BREAK, EXT
    <3>4. QED
      BY <1>1, <2>3, <3>1, <3>2, <3>3, Zenon
<1>2. CASE ~up
  <2>1. c = Code(k, FALSE)
    BY <1>2
  <2>2. /\ Code(k, FALSE) \in 1 .. 127 /\ Code(k, FALSE) # E0
        /\ k < EXT => Code(k, FALSE) = k
        /\ k >= EXT => Code(k, FALSE) = k - EXT
    BY CodeFact, ZenonT(90)
  <2>3. /\ c \in 1 .. 127 /\ c # E0
        /\ k < EXT => c = k
        /\ k >= EXT => c = k - EXT
    BY <2>1, <2>2, Zenon
  <2>4. QED
    <3>1. ~(c >= BREAK) /\ (k < EXT \/ k >= EXT) /\ c \in Nat
      BY <1>0, <2>3 DEF BREAK, EXT
    <3>2. k < EXT => ~(k >= EXT)
      BY <1>0 DEF EXT
    <3>3. QED
      BY <1>2, <2>3, <3>1, <3>2, Zenon
<1>3. QED
  BY <1>1, <1>2

LEMMA FlagFacts ==
  ASSUME NEW k \in KeyCodes
  PROVE  /\ k < EXT /\ press(k) => FlagsDown(k)
         /\ k >= EXT /\ ext_press(k - EXT) => FlagsDown(k)
         /\ k < EXT /\ release(k) => FlagsUp(k)
         /\ k >= EXT /\ ext_release(k - EXT) => FlagsUp(k)
<1>1. ASSUME k < EXT, press(k) PROVE FlagsDown(k)
  <2>1. k # RCTRL /\ k # RALT
    BY <1>1, CodeFact
  <2>2. QED
    BY <1>1, <2>1, Zenon DEF press, FlagsDown
<1>2. ASSUME k >= EXT, ext_press(k - EXT) PROVE FlagsDown(k)
  <2>1. /\ k # LSHIFT /\ k # RSHIFT /\ k # CTRL /\ k # ALT
        /\ (k - EXT = CTRL <=> k = RCTRL) /\ (k - EXT = ALT <=> k = RALT)
    BY <1>2, CodeFact, ZenonT(40)
  <2>2. QED
    BY <1>2, <2>1, Zenon DEF ext_press, FlagsDown
<1>3. ASSUME k < EXT, release(k) PROVE FlagsUp(k)
  <2>1. k # RCTRL /\ k # RALT
    BY <1>3, CodeFact
  <2>2. QED
    BY <1>3, <2>1, Zenon DEF release, FlagsUp
<1>4. ASSUME k >= EXT, ext_release(k - EXT) PROVE FlagsUp(k)
  <2>1. /\ k # LSHIFT /\ k # RSHIFT /\ k # CTRL /\ k # ALT
        /\ (k - EXT = CTRL <=> k = RCTRL) /\ (k - EXT = ALT <=> k = RALT)
    BY <1>4, CodeFact, ZenonT(40)
  <2>2. QED
    BY <1>4, <2>1, Zenon DEF ext_release, FlagsUp
<1>5. QED
  BY <1>1, <1>2, <1>3, <1>4

\* Once the code of a key arrives the flags have caught up.
LEMMA FlagsCatchUp ==
  ASSUME NEW k \in KeyCodes, NEW up \in BOOLEAN, NEW h \in SUBSET Mods,
         Follows(h), NoPair(h), up /\ k \in Mods => k \in h,
         ~up => FlagsDown(k), up => FlagsUp(k)
  PROVE  Follows(Moved(h, k, up))'
<1> DEFINE g == Moved(h, k, up)
<1>1. CASE ~up
  <2>1. \A x \in Mods : x \in g <=> x \in h \/ x = k
    BY <1>1 DEF Moved
  <2>2. /\ LSHIFT \in g <=> LSHIFT \in h \/ k = LSHIFT
        /\ RSHIFT \in g <=> RSHIFT \in h \/ k = RSHIFT
        /\ CTRL \in g <=> CTRL \in h \/ k = CTRL
        /\ RCTRL \in g <=> RCTRL \in h \/ k = RCTRL
        /\ ALT \in g <=> ALT \in h \/ k = ALT
        /\ RALT \in g <=> RALT \in h \/ k = RALT
    BY <2>1, Zenon DEF Mods
  <2> HIDE DEF g
  <2>3. Follows(g)'
    BY <1>1, <2>2, Zenon DEF Follows, FlagsDown
  <2>4. QED
    BY <2>3 DEF g
<1>2. CASE up
  <2>1. \A x \in Mods : x \in g <=> x \in h /\ x # k
    BY <1>2 DEF Moved
  <2>2. /\ LSHIFT \in g <=> LSHIFT \in h /\ k # LSHIFT
        /\ RSHIFT \in g <=> RSHIFT \in h /\ k # RSHIFT
        /\ CTRL \in g <=> CTRL \in h /\ k # CTRL
        /\ RCTRL \in g <=> RCTRL \in h /\ k # RCTRL
        /\ ALT \in g <=> ALT \in h /\ k # ALT
        /\ RALT \in g <=> RALT \in h /\ k # RALT
    BY <2>1, Zenon DEF Mods
  <2> HIDE DEF g
  <2>3. Follows(g)'
    <3>1. /\ k = LSHIFT => LSHIFT \in h /\ ~(RSHIFT \in h)
          /\ k = RSHIFT => RSHIFT \in h /\ ~(LSHIFT \in h)
          /\ k = CTRL => CTRL \in h /\ ~(RCTRL \in h)
          /\ k = RCTRL => RCTRL \in h /\ ~(CTRL \in h)
          /\ k = ALT => ALT \in h /\ ~(RALT \in h)
          /\ k = RALT => RALT \in h /\ ~(ALT \in h)
      BY <1>2, Zenon DEF Mods, NoPair
    <3>2. shift_down' <=> LSHIFT \in g \/ RSHIFT \in g
      BY <1>2, <2>2, <3>1, Zenon DEF Follows, FlagsUp
    <3>3. ctrl_down' <=> CTRL \in g \/ RCTRL \in g
      BY <1>2, <2>2, <3>1, Zenon DEF Follows, FlagsUp
    <3>4. alt_down' <=> ALT \in g \/ RALT \in g
      BY <1>2, <2>2, <3>1, Zenon DEF Follows, FlagsUp
    <3>5. QED
      BY <3>2, <3>3, <3>4, Zenon DEF Follows
  <2>4. QED
    BY <2>3 DEF g
<1>3. QED
  BY <1>1, <1>2

\* The handler's step on scan code c.
Handled(c) ==
  /\ e0_prefix' <=> c = E0
  /\ c = E0 => UNCHANGED <<shift_down, ctrl_down, alt_down>>
  /\ c # E0 /\ c >= BREAK /\ e0_prefix => ext_release(c - BREAK)
  /\ c # E0 /\ c >= BREAK /\ ~e0_prefix => release(c - BREAK)
  /\ c # E0 /\ ~(c >= BREAK) /\ e0_prefix => ext_press(c)
  /\ c # E0 /\ ~(c >= BREAK) /\ ~e0_prefix => press(c)
  /\ held' = held /\ twins' = twins

LEMMA HandlerFact ==
  ASSUME keyboard_handler, NEW c, Head(wire) = c
  PROVE  Handled(c) /\ wire' = Tail(wire)
BY Zenon DEF keyboard_handler, Handled

LEMMA FollowsKept ==
  ASSUME NEW h, Follows(h),
         shift_down' <=> shift_down, ctrl_down' <=> ctrl_down, alt_down' <=> alt_down
  PROVE  Follows(h)'
BY Zenon DEF Follows

LEMMA KeysIrq ==
  ASSUME KeysInv, keyboard_handler
  PROVE  KeysInv'
<1>1. held' = held /\ twins' = twins /\ wire # << >>
  BY Zenon DEF keyboard_handler
<1>2. (held \subseteq Keys)' /\ (held \subseteq Mods)' /\ (twins \/ NoPair(held))'
  BY <1>1, Zenon DEF KeysInv, NoPair
<1>3. ASSUME NEW k \in KeyCodes, NEW up \in BOOLEAN, NEW h \in SUBSET Mods, Behind(h, k, up)
      PROVE  KeysInv'
  <2> DEFINE c == Code(k, up)
  <2> HIDE DEF c
  <2>1. /\ c \in Nat /\ c # E0 /\ (c >= BREAK <=> up)
        /\ k < EXT \/ k >= EXT
        /\ k < EXT => ~(k >= EXT)
        /\ ~up /\ k < EXT => c = k
        /\ ~up /\ k >= EXT => c = k - EXT
        /\ up /\ k < EXT => c - BREAK = k
        /\ up /\ k >= EXT => c - BREAK = k - EXT
    <3>1. c = Code(k, up)
      BY DEF c
    <3>2. QED
      BY <3>1, CodeOf, Zenon
  <2>2. CASE wire = <<c>> /\ (e0_prefix <=> k >= EXT)
    <3>1. Head(wire) = c /\ Tail(wire) = << >>
      BY <2>1, <2>2
    <3>2. Handled(c) /\ wire' = << >>
      BY <3>1, HandlerFact
    <3>3. ASSUME ~up PROVE FlagsDown(k)
      <4>1. CASE k < EXT
        <5>1. press(c)
          BY <2>1, <2>2, <3>2, <3>3, <4>1, Zenon DEF Handled
        <5>2. press(k)
          BY <2>1, <3>3, <4>1, <5>1, Zenon
        <5>3. QED
          BY <4>1, <5>2, FlagFacts
      <4>2. CASE k >= EXT
        <5>1. ext_press(c)
          BY <2>1, <2>2, <3>2, <3>3, <4>2, Zenon DEF Handled
        <5>2. ext_press(k - EXT)
          BY <2>1, <3>3, <4>2, <5>1, Zenon
        <5>3. QED
          BY <4>2, <5>2, FlagFacts
      <4>3. QED
        BY <2>1, <4>1, <4>2, Zenon
    <3>4. ASSUME up PROVE FlagsUp(k)
      <4>1. CASE k < EXT
        <5>1. release(c - BREAK)
          BY <2>1, <2>2, <3>2, <3>4, <4>1, Zenon DEF Handled
        <5>2. release(k)
          BY <2>1, <3>4, <4>1, <5>1, Zenon
        <5>3. QED
          BY <4>1, <5>2, FlagFacts
      <4>2. CASE k >= EXT
        <5>1. ext_release(c - BREAK)
          BY <2>1, <2>2, <3>2, <3>4, <4>2, Zenon DEF Handled
        <5>2. ext_release(k - EXT)
          BY <2>1, <3>4, <4>2, <5>1, Zenon
        <5>3. QED
          BY <4>2, <5>2, FlagFacts
      <4>3. QED
        BY <2>1, <4>1, <4>2, Zenon
    <3>5. ~e0_prefix'
      BY <2>1, <3>2, Zenon DEF Handled
    <3>6. twins' \/ Follows(held)'
      <4>1. CASE twins
        BY <1>1, <4>1
      <4>2. CASE ~twins
        <5>1. Follows(h) /\ NoPair(h) /\ (up /\ k \in Mods => k \in h) /\ held = Moved(h, k, up)
          BY <1>3, <4>2, Zenon DEF Behind
        <5>2. Follows(Moved(h, k, up))'
          BY <3>3, <3>4, <5>1, FlagsCatchUp
        <5>3. held' = Moved(h, k, up)
          BY <1>1, <5>1
        <5>4. QED
          BY <5>2, <5>3, Zenon DEF Follows
      <4>3. QED
        BY <4>1, <4>2
    <3>7. Idle'
      BY <3>2, <3>5, <3>6, Zenon DEF Idle
    <3>8. QED
      BY <1>2, <3>7, Zenon DEF KeysInv
  <2>3. CASE wire = <<E0, c>> /\ k >= EXT /\ ~e0_prefix
    <3>1. Head(wire) = E0 /\ Tail(wire) = <<c>>
      BY <2>1, <2>3 DEF E0
    <3>2. Handled(E0) /\ wire' = <<c>>
      BY <3>1, HandlerFact
    <3>3. e0_prefix' /\ UNCHANGED <<shift_down, ctrl_down, alt_down>>
      BY <3>2, Zenon DEF Handled
    <3>4. twins' \/ (Follows(h)' /\ NoPair(h))
      BY <1>1, <1>3, <3>3, Zenon DEF Behind, Follows
    <3>5. Behind(h, k, up)'
      BY <1>1, <1>3, <2>3, <3>2, <3>3, <3>4, Zenon DEF Behind, c
    <3>6. QED
      BY <1>2, <3>5, Zenon DEF KeysInv
  <2>4. QED
    BY <1>3, <2>2, <2>3, Zenon DEF Behind, c
<1>4. ASSUME NEW c \in Quiet, NEW d \in Quiet, Faking(c, d)
      PROVE  KeysInv'
  <2>0. ASSUME NEW x \in Quiet, Handled(x), e0_prefix
        PROVE  ~e0_prefix' /\ (twins' \/ Follows(held)')
    <3>1. x \in Nat /\ x # E0 /\ (x >= BREAK => x - BREAK # CTRL /\ x - BREAK # ALT)
          /\ (~(x >= BREAK) => x # CTRL /\ x # ALT)
      BY DEF Quiet, BREAK, E0, CTRL, ALT
    <3>2. ~e0_prefix'
      BY <2>0, <3>1, Zenon DEF Handled
    <3>3. /\ shift_down' <=> shift_down
          /\ ctrl_down' <=> ctrl_down
          /\ alt_down' <=> alt_down
      <4>1. CASE x >= BREAK
        <5>1. ext_release(x - BREAK)
          BY <2>0, <3>1, <4>1, Zenon DEF Handled
        <5>2. QED
          BY <3>1, <4>1, <5>1, Zenon DEF ext_release
      <4>2. CASE ~(x >= BREAK)
        <5>1. ext_press(x)
          BY <2>0, <3>1, <4>2, Zenon DEF Handled
        <5>2. QED
          BY <3>1, <4>2, <5>1, Zenon DEF ext_press
      <4>3. QED
        BY <4>1, <4>2
    <3>4. twins' \/ Follows(held)'
      BY <1>1, <1>4, <3>3, Zenon DEF Faking, Follows
    <3>5. QED
      BY <3>2, <3>4
  <2>1. ASSUME Handled(E0)
        PROVE  e0_prefix' /\ (twins' \/ Follows(held)')
    <3>1. e0_prefix' /\ UNCHANGED <<shift_down, ctrl_down, alt_down>>
      BY <2>1, Zenon DEF Handled
    <3>2. QED
      BY <1>1, <1>4, <3>1, Zenon DEF Faking, Follows
  <2>2. CASE wire = <<d>> /\ e0_prefix
    <3>1. Head(wire) = d /\ Tail(wire) = << >>
      BY <2>2
    <3>2. Handled(d) /\ wire' = << >>
      BY <3>1, HandlerFact
    <3>3. Idle'
      BY <2>0, <2>2, <3>2, Zenon DEF Idle
    <3>4. QED
      BY <1>2, <3>3, Zenon DEF KeysInv
  <2>3. CASE wire = <<E0, d>> /\ ~e0_prefix
    <3>1. Head(wire) = E0 /\ Tail(wire) = <<d>>
      BY <2>3 DEF E0, Quiet
    <3>2. Handled(E0) /\ wire' = <<d>>
      BY <3>1, HandlerFact
    <3>3. Faking(c, d)'
      BY <2>1, <3>2, Zenon DEF Faking
    <3>4. QED
      BY <1>2, <3>3, Zenon DEF KeysInv
  <2>4. CASE wire = <<c, E0, d>> /\ e0_prefix
    <3>1. Head(wire) = c /\ Tail(wire) = <<E0, d>>
      BY <2>4 DEF E0, Quiet
    <3>2. Handled(c) /\ wire' = <<E0, d>>
      BY <3>1, HandlerFact
    <3>3. Faking(c, d)'
      BY <2>0, <2>4, <3>2, Zenon DEF Faking
    <3>4. QED
      BY <1>2, <3>3, Zenon DEF KeysInv
  <2>5. CASE wire = <<E0, c, E0, d>> /\ ~e0_prefix
    <3>1. Head(wire) = E0 /\ Tail(wire) = <<c, E0, d>>
      BY <2>5 DEF E0, Quiet
    <3>2. Handled(E0) /\ wire' = <<c, E0, d>>
      BY <3>1, HandlerFact
    <3>3. Faking(c, d)'
      BY <2>1, <3>2, Zenon DEF Faking
    <3>4. QED
      BY <1>2, <3>3, Zenon DEF KeysInv
  <2>6. QED
    BY <1>4, <2>2, <2>3, <2>4, <2>5, Zenon DEF Faking
<1>5. QED
  BY <1>1, <1>3, <1>4, Zenon DEF KeysInv, Idle

LEMMA KeysStay ==
  ASSUME KeysInv, UNCHANGED <<shift_down, ctrl_down, alt_down, e0_prefix, held, wire, twins>>
  PROVE  KeysInv'
<1>1. /\ shift_down' = shift_down /\ ctrl_down' = ctrl_down /\ alt_down' = alt_down
      /\ e0_prefix' = e0_prefix /\ held' = held /\ wire' = wire /\ twins' = twins
  OBVIOUS
<1>0. /\ shift_down' <=> shift_down
      /\ ctrl_down' <=> ctrl_down
      /\ alt_down' <=> alt_down
      /\ e0_prefix' <=> e0_prefix
      /\ twins' <=> twins
  BY <1>1
<1>2. Idle => Idle'
  BY <1>0, <1>1, Zenon DEF Idle, Follows
<1>3. ASSUME NEW k, NEW up, NEW h PROVE Behind(h, k, up) => Behind(h, k, up)'
  <2>1. Follows(h) => Follows(h)'
    BY <1>0, <1>1, Zenon DEF Follows
  <2>2. QED
    BY <1>0, <1>1, <2>1, Zenon DEF Behind
<1>4. ASSUME NEW c, NEW d PROVE Faking(c, d) => Faking(c, d)'
  <2>1. Follows(held) => Follows(held)'
    BY <1>0, <1>1, Zenon DEF Follows
  <2>2. QED
    BY <1>0, <1>1, <2>1, Zenon DEF Faking
<1>5. (held \subseteq Keys)' /\ (held \subseteq Mods)' /\ (twins \/ NoPair(held))'
  BY <1>0, <1>1, Zenon DEF KeysInv, NoPair
<1>6. QED
  BY <1>2, <1>3, <1>4, <1>5, Zenon DEF KeysInv

LEMMA CodesFact ==
  ASSUME NEW k \in KeyCodes, NEW up \in BOOLEAN
  PROVE  \/ k < EXT /\ Codes(k, up) = <<Code(k, up)>>
         \/ k >= EXT /\ Codes(k, up) = <<E0, Code(k, up)>>
         \/ k >= EXT /\ k \notin Mods /\ \E c, d \in Quiet : Codes(k, up) = <<E0, c, E0, d>>
<1> DEFINE code == (k % EXT) + (IF up THEN BREAK ELSE 0)
           fake == k - EXT \in Nav /\ {LSHIFT, RSHIFT} \cap held # {}
<1>1. code = Code(k, up)
  BY DEF Code
<1>2. Codes(k, up) = IF k < EXT THEN <<code>>
                     ELSE IF ~fake THEN <<E0, code>>
                     ELSE IF up THEN <<E0, code, E0, LSHIFT>> ELSE <<E0, LSHIFT + BREAK, E0, code>>
  BY Zenon DEF Codes
<1>3. code \in Nat /\ (k < EXT \/ k >= EXT) /\ (k < EXT => ~(k >= EXT))
  BY <1>1, CodeOf
<1>4. ASSUME fake, k >= EXT PROVE code \in Quiet /\ k \notin Mods
  <2>1. k - EXT \in {72, 80, 77, 75, 71, 79, 73, 81, 82, 83}
    BY <1>4 DEF Nav, Arrow, HomeEnd, Paging
  <2> HIDE DEF code, fake
  <2>2. code = k - EXT \/ code = (k - EXT) + BREAK
    <3>1. ~up => code = k - EXT
      BY <1>1, <1>4, CodeOf
    <3>2. up => code - BREAK = k - EXT
      BY <1>1, <1>4, CodeOf
    <3>3. k \in Nat
      BY DEF KeyCodes
    <3>4. QED
      BY <1>3, <3>1, <3>2, <3>3 DEF EXT, BREAK
  <2>3. \A x \in {72, 80, 77, 75, 71, 79, 73, 81, 82, 83} : x \in Quiet /\ x + BREAK \in Quiet
    BY DEF Quiet, CTRL, ALT, BREAK, E0
  <2>4. k \in Nat
    BY DEF KeyCodes
  <2>5. k \notin Mods
    BY <2>1, <2>4 DEF Mods, LSHIFT, RSHIFT, CTRL, RCTRL, ALT, RALT, EXT
  <2>6. code \in Quiet
    BY <2>1, <2>2, <2>3
  <2>7. QED
    BY <2>5, <2>6
<1>5. LSHIFT \in Quiet /\ LSHIFT + BREAK \in Quiet
  BY DEF LSHIFT, BREAK, Quiet, CTRL, ALT, E0
<1> HIDE DEF code, fake
<1>6. CASE k < EXT
  <2>1. Codes(k, up) = <<code>>
    BY <1>2, <1>6, Zenon
  <2>2. QED
    BY <1>1, <1>6, <2>1, Zenon
<1>7. CASE ~(k < EXT) /\ ~fake
  <2>1. Codes(k, up) = <<E0, code>>
    BY <1>2, <1>7, Zenon
  <2>2. QED
    BY <1>1, <1>3, <1>7, <2>1, Zenon
<1>8. CASE ~(k < EXT) /\ fake
  <2>1. Codes(k, up) = <<E0, code, E0, LSHIFT>> \/ Codes(k, up) = <<E0, LSHIFT + BREAK, E0, code>>
    BY <1>2, <1>8, Zenon
  <2>2. QED
    BY <1>3, <1>4, <1>5, <1>8, <2>1, Zenon
<1>9. QED
  BY <1>6, <1>7, <1>8

LEMMA IdleFact ==
  ASSUME KeysInv, wire = << >>
  PROVE  Idle
<1>1. ASSUME NEW k \in KeyCodes, NEW up \in BOOLEAN, NEW h \in SUBSET Mods, Behind(h, k, up)
      PROVE  FALSE
  <2>1. wire = <<Code(k, up)>> \/ wire = <<E0, Code(k, up)>>
    BY <1>1, Zenon DEF Behind
  <2> DEFINE c == Code(k, up)
  <2> HIDE DEF c
  <2>2. wire = <<c>> \/ wire = <<E0, c>>
    BY <2>1 DEF c
  <2>3. QED
    BY <2>2
<1>2. ASSUME NEW c \in Quiet, NEW d \in Quiet, Faking(c, d)
      PROVE  FALSE
  <2>1. \/ wire = <<d>>
        \/ wire = <<E0, d>>
        \/ wire = <<c, E0, d>>
        \/ wire = <<E0, c, E0, d>>
    BY <1>2, Zenon DEF Faking
  <2>2. QED
    BY <2>1
<1>3. QED
  BY <1>1, <1>2, Zenon DEF KeysInv

\* A key that moves puts the flags behind, or is a navigation key.
LEMMA KeyMoves ==
  ASSUME KeysInv, NEW k \in KeyCodes, NEW up \in BOOLEAN, wire = << >>,
         held' = Moved(held, k, up), (held \subseteq Keys)', wire' = Codes(k, up),
         up /\ k \in Mods => k \in held,
         twins => twins', twins' \/ NoPair(held)',
         UNCHANGED <<shift_down, ctrl_down, alt_down, e0_prefix>>
  PROVE  KeysInv'
<1>1. PICK h : h = held
  OBVIOUS
<1>2. h \in SUBSET Mods /\ ~e0_prefix /\ (twins \/ (Follows(h) /\ NoPair(h)))
  <2>1. Idle
    BY IdleFact
  <2>2. QED
    BY <1>1, <2>1, Zenon DEF Idle, KeysInv
<1>3. held' = Moved(h, k, up) /\ (up /\ k \in Mods => k \in h)
  BY <1>1
<1>4. ~e0_prefix' /\ (twins' \/ (Follows(h)' /\ NoPair(h)))
  BY <1>2, Zenon DEF Follows
<1>5. (held \subseteq Mods)'
  BY <1>2, <1>3 DEF Moved
<1>6. CASE k < EXT /\ wire' = <<Code(k, up)>>
  <2>1. ~(k >= EXT)
    BY <1>6 DEF KeyCodes, EXT
  <2>2. Behind(h, k, up)'
    BY <1>3, <1>4, <1>6, <2>1, Zenon DEF Behind
  <2>3. QED
    BY <1>2, <1>5, <2>2, Zenon DEF KeysInv
<1>7. CASE k >= EXT /\ wire' = <<E0, Code(k, up)>>
  <2>1. Behind(h, k, up)'
    BY <1>3, <1>4, <1>7, Zenon DEF Behind
  <2>2. QED
    BY <1>2, <1>5, <2>1, Zenon DEF KeysInv
<1>8. ASSUME k \notin Mods, NEW c \in Quiet, NEW d \in Quiet, wire' = <<E0, c, E0, d>>
      PROVE  KeysInv'
  <2>1. held' = h
    BY <1>2, <1>3, <1>8 DEF Moved
  <2>2. twins' \/ Follows(held)'
    BY <1>4, <2>1, Zenon DEF Follows
  <2>3. Faking(c, d)'
    BY <1>4, <1>8, <2>2, Zenon DEF Faking
  <2>4. QED
    BY <1>5, <2>3, Zenon DEF KeysInv
<1>9. QED
  BY <1>6, <1>7, <1>8, CodesFact, Zenon

LEMMA KeysPerson ==
  ASSUME KeysInv, NEW k \in Keys, Press(k) \/ Release(k)
  PROVE  KeysInv' /\ UNCHANGED <<ringVars, flagVars, torn>>
<1>1. k \in KeyCodes
  BY KeyboardAssumption DEF KeyCodes
<1>2. held \subseteq Keys
  BY DEF KeysInv
<1>3. CASE Press(k)
  <2>1. /\ wire = << >> /\ wire' = Codes(k, FALSE)
        /\ UNCHANGED <<ringVars, flagVars, torn>>
    BY <1>3, Zenon DEF Press
  <2>2. held' = Moved(held, k, FALSE)
    BY <1>3, ModsFact DEF Press, Moved
  <2>3. (held \subseteq Keys)'
    BY <1>2, <2>2 DEF Moved
  <2>4. (twins => twins') /\ (twins' \/ NoPair(held)')
    <3>1. PICK h : h = held'
      OBVIOUS
    <3>2. twins' = (twins \/ \E M \in Modifiers : M \subseteq h)
      BY <1>3, <3>1, Zenon DEF Press
    <3>3. twins' <=> twins \/ ~NoPair(h)
      BY <3>2, ModsFact, Zenon
    <3>4. QED
      BY <3>1, <3>3, Zenon DEF NoPair
  <2>5. UNCHANGED <<shift_down, ctrl_down, alt_down, e0_prefix>>
    BY <2>1 DEF flagVars
  <2>6. KeysInv'
    BY <1>1, <2>1, <2>2, <2>3, <2>4, <2>5, KeyMoves
  <2>7. QED
    BY <2>1, <2>6
<1>4. CASE Release(k)
  <2>1. /\ wire = << >> /\ wire' = Codes(k, TRUE) /\ twins' = twins
        /\ UNCHANGED <<ringVars, flagVars, torn>>
        /\ k \in UNION Modifiers => k \in held
        /\ held' = held \ {k}
    BY <1>4, Zenon DEF Release
  <2>2. held' = Moved(held, k, TRUE) /\ (k \in Mods => k \in held)
    BY <2>1, ModsFact DEF Moved
  <2>3. (held \subseteq Keys)'
    BY <1>2, <2>1
  <2>4. (twins => twins') /\ (twins' \/ NoPair(held)')
    <3>1. twins \/ NoPair(held)
      BY Zenon DEF KeysInv
    <3>2. NoPair(held) => NoPair(held \ {k})
      BY Zenon DEF NoPair
    <3>3. QED
      BY <2>1, <3>1, <3>2, Zenon DEF NoPair
  <2>5. UNCHANGED <<shift_down, ctrl_down, alt_down, e0_prefix>>
    BY <2>1 DEF flagVars
  <2>6. KeysInv'
    BY <1>1, <2>1, <2>2, <2>3, <2>4, <2>5, KeyMoves
  <2>7. QED
    BY <2>1, <2>6
<1>5. QED
  BY <1>3, <1>4

---------------------------------------------------------------------------
(* The invariant *)

Bools ==
  /\ shift_down \in BOOLEAN /\ ctrl_down \in BOOLEAN /\ alt_down \in BOOLEAN
  /\ caps_lock \in BOOLEAN /\ e0_prefix \in BOOLEAN
  /\ twins \in BOOLEAN /\ torn \in BOOLEAN

KeyboardInv == RingOK /\ Bools /\ KeysInv

Termios == [icanon : BOOLEAN, echo : BOOLEAN, vmin : {0, 1}]
Places == {"user", "line", "esc", "seq", "raw0", "raw"}

\* The call that is under way has room for one more byte.
ReadOK ==
  /\ pc \in Places
  /\ buf \in Seq(Char) /\ count \in Nat
  /\ pc # "user" => Len(buf) < count

\* What every state of the console satisfies.
ConsoleInv == KeyboardInv /\ tty \in Terminals /\ con \in Termios /\ ReadOK

LEMMA WireFact ==
  ASSUME KeysInv
  PROVE  /\ wire # << >> => Head(wire) \in 1 .. 255
         /\ Len(wire) <= 4
<1>1. ASSUME NEW k \in KeyCodes, NEW up \in BOOLEAN, NEW h \in SUBSET Mods, Behind(h, k, up)
      PROVE  (wire # << >> => Head(wire) \in 1 .. 255) /\ Len(wire) <= 4
  <2> DEFINE c == Code(k, up)
  <2>1. wire = <<c>> \/ wire = <<E0, c>>
    BY <1>1, Zenon DEF Behind
  <2>2. c \in 1 .. 255
    <3>1. CASE up
      <4>1. c = Code(k, TRUE)
        BY <3>1
      <4>2. Code(k, TRUE) \in 129 .. 255
        BY CodeFact, ZenonT(40)
      <4> HIDE DEF c
      <4>3. c \in 129 .. 255
        BY <4>1, <4>2, Zenon
      <4>4. QED
        BY <4>3
    <3>2. CASE ~up
      <4>1. c = Code(k, FALSE)
        BY <3>2
      <4>2. Code(k, FALSE) \in 1 .. 127
        BY CodeFact, ZenonT(40)
      <4> HIDE DEF c
      <4>3. c \in 1 .. 127
        BY <4>1, <4>2, Zenon
      <4>4. QED
        BY <4>3
    <3>3. QED
      BY <3>1, <3>2
  <2> HIDE DEF c
  <2>3. CASE wire = <<c>>
    BY <2>2, <2>3
  <2>4. CASE wire = <<E0, c>>
    <3>1. E0 \in 1 .. 255
      BY DEF E0
    <3>2. QED
      BY <2>2, <2>4, <3>1
  <2>5. QED
    BY <2>1, <2>3, <2>4
<1>2. ASSUME NEW c \in Quiet, NEW d \in Quiet, Faking(c, d)
      PROVE  (wire # << >> => Head(wire) \in 1 .. 255) /\ Len(wire) <= 4
  <2>1. \/ wire = <<d>>
        \/ wire = <<E0, d>>
        \/ wire = <<c, E0, d>>
        \/ wire = <<E0, c, E0, d>>
    BY <1>2, Zenon DEF Faking
  <2>2. E0 \in 1 .. 255 /\ c \in 1 .. 255 /\ d \in 1 .. 255
    BY DEF E0, Quiet
  <2>3. CASE wire = <<d>>
    BY <2>2, <2>3
  <2>4. CASE wire = <<E0, d>>
    BY <2>2, <2>4
  <2>5. CASE wire = <<c, E0, d>>
    BY <2>2, <2>5
  <2>6. CASE wire = <<E0, c, E0, d>>
    BY <2>2, <2>6
  <2>7. QED
    BY <2>1, <2>3, <2>4, <2>5, <2>6
<1>3. ASSUME Idle
      PROVE  (wire # << >> => Head(wire) \in 1 .. 255) /\ Len(wire) <= 4
  BY <1>3 DEF Idle
<1>4. QED
  BY <1>1, <1>2, <1>3, Zenon DEF KeysInv

LEMMA RingTake ==
  ASSUME RingOK, TakeByte
  PROVE  RingOK' /\ NextByte \in Char
<1>1. buffer_tail \in Slots
  BY DEF RingOK
<1>2. /\ KEYBUF \in Nat /\ KEYBUF > 1 /\ buffer_tail \in Nat
      /\ (buffer_tail + 1) % KEYBUF = IF buffer_tail + 1 < KEYBUF THEN buffer_tail + 1 ELSE 0
  BY <1>1, RingFact
<1>3. buffer_tail' = IF buffer_tail + 1 < KEYBUF THEN buffer_tail + 1 ELSE 0
  BY <1>2 DEF TakeByte
<1>4. buffer_tail' \in Slots
  BY <1>2, <1>3 DEF Slots
<1>5. QED
  BY <1>1, <1>4 DEF RingOK, TakeByte, NextByte

\* The interrupt leaves the bytes that wait in their place.
LEMMA IrqKeeps ==
  ASSUME KeyboardInv, keyboard_handler
  PROVE  /\ [buf |-> key_buffer', head |-> buffer_head'] \in Keeping
         /\ buffer_tail' = buffer_tail
         /\ Bools'
<1> DEFINE c == Head(wire)
<1>1. RingOK /\ c \in 1 .. 255
  BY WireFact DEF KeyboardInv, keyboard_handler
<1>2. [buf |-> key_buffer, head |-> buffer_head] \in Keeping
  <2>1. Held(buffer_head) >= Held(buffer_head)
    BY <1>1, RingFact DEF RingOK
  <2>2. QED
    BY <1>1, <2>1 DEF Keeping, RingOK, Rings
<1>3. Bools
  BY DEF KeyboardInv
<1>4. (e0_prefix \in BOOLEAN)' /\ (twins \in BOOLEAN)'
  BY <1>3 DEF keyboard_handler, Bools
<1>5. CASE c = E0
  <2>1. UNCHANGED <<ringVars, shift_down, ctrl_down, alt_down, caps_lock, torn>>
    BY <1>5, Zenon DEF keyboard_handler
  <2>2. QED
    BY <1>2, <1>3, <1>4, <2>1 DEF ringVars, Bools
<1>6. CASE c # E0 /\ c >= BREAK
  <2>1. /\ UNCHANGED <<ringVars, torn>>
        /\ ext_release(c - BREAK) \/ release(c - BREAK)
    BY <1>6, Zenon DEF keyboard_handler
  <2>2. /\ shift_down' \in BOOLEAN /\ ctrl_down' \in BOOLEAN
        /\ alt_down' \in BOOLEAN /\ caps_lock' \in BOOLEAN
    <3>1. CASE ext_release(c - BREAK)
      BY <1>3, <3>1 DEF ext_release, Bools
    <3>2. CASE release(c - BREAK)
      BY <1>3, <3>2 DEF release, Bools
    <3>3. QED
      BY <2>1, <3>1, <3>2
  <2>3. torn' = torn /\ UNCHANGED <<key_buffer, buffer_head, buffer_tail>>
    BY <2>1 DEF ringVars
  <2>4. Bools'
    BY <1>3, <1>4, <2>2, <2>3 DEF Bools
  <2>5. QED
    BY <1>2, <2>3, <2>4
<1>7. CASE c # E0 /\ ~(c >= BREAK)
  <2>1. c \in 1 .. 127
    BY <1>1, <1>7 DEF BREAK
  <2>2. ext_press(c) \/ press(c)
    BY <1>7, Zenon DEF keyboard_handler
  <2> HIDE DEF c
  <2>3. KeyBytes(c) \in Seq(Char) /\ ExtBytes(c) \in Seq(Char) /\ << >> \in Seq(Char)
    <3>1. << >> \in Seq(Char)
      OBVIOUS
    <3>2. QED
      BY <2>1, <3>1, KeyBytesChars, Zenon
  <2>4. PICK s \in Seq(Char) : queue_str(s)
    <3>1. CASE ext_press(c)
      BY <2>3, <3>1, Zenon DEF ext_press
    <3>2. CASE press(c)
      BY <2>3, <3>2, Zenon DEF press
    <3>3. QED
      BY <2>2, <3>1, <3>2
  <2>5. /\ [buf |-> key_buffer', head |-> buffer_head'] \in Keeping
        /\ buffer_tail' = buffer_tail
        /\ torn' \in BOOLEAN
    BY <1>1, <1>3, <2>4, QueueStrKeeps DEF Bools
  <2>6. /\ shift_down' \in BOOLEAN /\ ctrl_down' \in BOOLEAN
        /\ alt_down' \in BOOLEAN /\ caps_lock' \in BOOLEAN
    <3>1. CASE ext_press(c)
      BY <1>3, <3>1 DEF ext_press, Bools
    <3>2. CASE press(c)
      BY <1>3, <3>2 DEF press, Bools
    <3>3. QED
      BY <2>2, <3>1, <3>2
  <2>7. QED
    BY <1>4, <2>5, <2>6 DEF Bools
<1>8. QED
  BY <1>5, <1>6, <1>7

LEMMA IrqStep ==
  ASSUME KeyboardInv, keyboard_handler
  PROVE  KeyboardInv'
<1>1. RingOK'
  <2>1. RingOK
    BY DEF KeyboardInv
  <2>2. [buf |-> key_buffer', head |-> buffer_head'] \in Rings /\ buffer_tail' = buffer_tail
    BY IrqKeeps DEF Keeping
  <2>3. QED
    BY <2>1, <2>2 DEF RingOK, Rings
<1>2. KeysInv'
  BY KeysIrq DEF KeyboardInv
<1>3. QED
  BY <1>1, <1>2, IrqKeeps DEF KeyboardInv

\* A step of sys_read leaves the keys alone.
LEMMA TookStep ==
  ASSUME KeyboardInv, Took, torn' \in BOOLEAN
  PROVE  KeyboardInv' /\ NextByte \in Char /\ con' = con
<1>1. RingOK' /\ NextByte \in Char
  BY RingTake DEF KeyboardInv, Took
<1>2. /\ UNCHANGED <<shift_down, ctrl_down, alt_down, caps_lock, e0_prefix, held, wire, twins>>
      /\ con' = con
  BY DEF Took, flagVars
<1>3. KeysInv'
  BY <1>2, KeysStay DEF KeyboardInv
<1>4. Bools'
  BY <1>2 DEF Bools, KeyboardInv
<1>5. QED
  BY <1>1, <1>2, <1>3, <1>4 DEF KeyboardInv

LEMMA NoByteStep ==
  ASSUME KeyboardInv, NoByte, torn' \in BOOLEAN
  PROVE  KeyboardInv' /\ con' = con
<1>1. RingOK'
  BY DEF KeyboardInv, NoByte, ringVars, RingOK
<1>2. /\ UNCHANGED <<shift_down, ctrl_down, alt_down, caps_lock, e0_prefix, held, wire, twins>>
      /\ con' = con
  BY DEF NoByte, flagVars
<1>3. KeysInv'
  BY <1>2, KeysStay DEF KeyboardInv
<1>4. Bools'
  BY <1>2 DEF Bools, KeyboardInv
<1>5. QED
  BY <1>1, <1>2, <1>3, <1>4 DEF KeyboardInv

LEMMA IdleKeyboard ==
  ASSUME KeyboardInv, UNCHANGED keyVars
  PROVE  KeyboardInv'
<1>1. /\ UNCHANGED <<shift_down, ctrl_down, alt_down, caps_lock, e0_prefix, held, wire, twins>>
      /\ UNCHANGED <<key_buffer, buffer_head, buffer_tail, torn>>
  BY DEF keyVars, flagVars, ringVars
<1>2. KeysInv'
  BY <1>1, KeysStay DEF KeyboardInv
<1>3. RingOK' /\ Bools'
  BY <1>1 DEF KeyboardInv, RingOK, Bools
<1>4. QED
  BY <1>2, <1>3 DEF KeyboardInv

LEMMA EchoStays ==
  ASSUME tty \in Terminals, NEW s \in Seq(Byte)
  PROVE  Echo(s) \in Terminals
BY PrintStays DEF Echo

LEMMA CharBytes ==
  /\ Seq(Char) \subseteq Seq(Byte)
  /\ \A c \in Char : <<c>> \in Seq(Byte)
  /\ \A c : EndEcho(c) \in Seq(Byte)
<1>1. Char \subseteq Byte
  BY DEF Char, Byte
<1>2. Seq(Char) \subseteq Seq(Byte)
  BY <1>1
<1>3. \A c \in Char : <<c>> \in Seq(Byte)
  BY <1>1
<1>4. <<94, 67, LF>> \in Seq(Byte) /\ << >> \in Seq(Byte) /\ <<LF>> \in Seq(Byte)
  BY DEF Byte, LF
<1>5. ASSUME NEW c PROVE EndEcho(c) \in Seq(Byte)
  <2>1. EndEcho(c) \in {<<94, 67, LF>>, << >>, <<LF>>}
    BY DEF EndEcho
  <2>2. QED
    BY <1>4, <2>1
<1>6. QED
  BY <1>2, <1>3, <1>5

LEMMA EditEchoStays ==
  ASSUME tty \in Terminals, NEW l \in Seq(Char), NEW c \in Char
  PROVE  edit_echo(l, c) \in Terminals
<1>1. l \in Seq(Byte) /\ <<c>> \in Seq(Byte)
  BY CharBytes
<1>2. clear(tty) \in Terminals
  BY ClearStays
<1> DEFINE A == IF con.echo THEN print(clear(tty), l) ELSE clear(tty)
           n == Len(l) - Len(edit(l, c))
           B == Echo(rubout(n))
           D == Echo(<<c>>)
<1>3. edit_echo(l, c) = CASE c = 12 -> A [] c \in {BS, DEL, 21, 23} -> B [] OTHER -> D
  BY Zenon DEF edit_echo
<1>4. A \in Terminals
  <2>1. print(clear(tty), l) \in Terminals
    BY <1>1, <1>2, PrintStays
  <2>2. QED
    BY <1>2, <2>1
<1>5. c \in {BS, DEL, 21, 23} => B \in Terminals
  <2> SUFFICES ASSUME c \in {BS, DEL, 21, 23} PROVE B \in Terminals
    OBVIOUS
  <2>1. n \in Nat
    BY EditFact
  <2> HIDE DEF n
  <2>2. rubout(n) \in Seq(Byte)
    BY <2>1, RuboutFact
  <2>3. QED
    BY <2>2, EchoStays
<1>6. D \in Terminals
  BY <1>1, EchoStays
<1> HIDE DEF A, B, D
<1>7. QED
  BY <1>3, <1>4, <1>5, <1>6 DEF BS, DEL

LEMMA ReturnOK ==
  ASSUME NEW s, Return(s)
  PROVE  ReadOK'
BY DEF Return, ReadOK, Places

LEMMA ContinueOK ==
  ASSUME ReadOK, NEW l \in Seq(Char), Len(l) < count, NEW where \in Places, Continue(l, where)
  PROVE  ReadOK'
BY DEF Continue, ReadOK

LEMMA MendsFact ==
  ASSUME Mends
  PROVE  torn' \in BOOLEAN
BY DEF Mends

LEMMA ConsoleInit ==
  ASSUME Init
  PROVE  ConsoleInv
<1>1. RingOK
  <2>1. KEYBUF \in Nat /\ KEYBUF > 1
    BY KeyboardAssumption
  <2>2. 0 \in Slots /\ 0 \in Char
    BY <2>1 DEF Slots, Char
  <2>3. key_buffer = [i \in Slots |-> 0] /\ buffer_head = 0 /\ buffer_tail = 0
    BY DEF Init, keyboard_init, Slots
  <2>4. QED
    BY <2>2, <2>3 DEF RingOK
<1>2. Bools
  BY DEF Init, keyboard_init, Bools
<1>3. KeysInv
  <2>1. /\ shift_down = FALSE /\ ctrl_down = FALSE /\ alt_down = FALSE
        /\ e0_prefix = FALSE /\ held = {} /\ wire = << >>
    BY DEF Init, keyboard_init
  <2>2. NoPair(held) /\ Follows(held)
    BY <2>1 DEF NoPair, Follows
  <2>3. Idle
    BY <2>1, <2>2 DEF Idle
  <2>4. held \subseteq Keys /\ held \subseteq Mods
    BY <2>1
  <2>5. QED
    BY <2>2, <2>3, <2>4, Zenon DEF KeysInv
<1>4. tty \in Terminals
  <2>1. BlankGrid \in Grids /\ 0 \in Row /\ 0 \in Col /\ 0 \in 0 .. 2 /\ 0 \in 0 .. MAX_PARAM
        /\ 0 \in 0 .. ANSI_PARAMS - 1
    BY BlankFact, ScreenFact DEF MAX_PARAM
  <2>2. NoParams \in [0 .. ANSI_PARAMS - 1 -> 0 .. MAX_PARAM]
    BY <2>1 DEF NoParams
  <2>3. Terminal0 \in Terminals
    BY <2>1, <2>2 DEF Terminals, Terminal0, Grids
  <2>4. QED
    BY <2>3 DEF Init
<1>5. con \in Termios
  BY ConsoleAssumption DEF Init, Termios
<1>6. ReadOK
  BY DEF Init, ReadOK, Places
<1>7. QED
  BY <1>1, <1>2, <1>3, <1>4, <1>5, <1>6 DEF ConsoleInv, KeyboardInv

LEMMA ReadBegins ==
  ASSUME ConsoleInv, NEW n \in Counts, ReadLine(n) \/ ReadRaw(n)
  PROVE  ConsoleInv'
<1>1. n \in Nat /\ n > 0
  BY ConsoleAssumption
<1>2. UNCHANGED keyVars /\ UNCHANGED <<tty, con>>
  BY Zenon DEF ReadLine, ReadRaw
<1>3. KeyboardInv'
  BY <1>2, IdleKeyboard DEF ConsoleInv
<1>4. ReadOK'
  <2>1. CASE ReadLine(n)
    <3>1. CASE n = 1
      <4>1. Return(<< >>)
        BY <2>1, <3>1 DEF ReadLine
      <4>2. QED
        BY <4>1, ReturnOK
    <3>2. CASE n # 1
      BY <1>1, <2>1, <3>2 DEF ReadLine, ReadOK, Places
    <3>3. QED
      BY <3>1, <3>2
  <2>2. CASE ReadRaw(n)
    BY <1>1, <2>2 DEF ReadRaw, ReadOK, Places
  <2>3. QED
    BY <2>1, <2>2
<1>5. QED
  BY <1>2, <1>3, <1>4 DEF ConsoleInv

LEMMA EndLineStep ==
  ASSUME ConsoleInv, EndLine
  PROVE  ConsoleInv'
<1>1. KeyboardInv' /\ con' = con
  <2>1. torn' \in BOOLEAN
    BY MendsFact DEF EndLine
  <2>2. QED
    BY <2>1, TookStep DEF ConsoleInv, EndLine
<1>2. ReadOK'
  BY ReturnOK DEF EndLine
<1>3. tty' \in Terminals
  <2>1. EndEcho(NextByte) \in Seq(Byte)
    BY CharBytes
  <2>2. Echo(EndEcho(NextByte)) \in Terminals
    BY <2>1, EchoStays DEF ConsoleInv
  <2>3. QED
    BY <2>2 DEF EndLine
<1>4. QED
  BY <1>1, <1>2, <1>3 DEF ConsoleInv

LEMMA EditByteStep ==
  ASSUME ConsoleInv, EditByte
  PROVE  ConsoleInv'
<1> DEFINE l == edit(buf, NextByte)
<1>1. KeyboardInv' /\ con' = con /\ NextByte \in Char
  <2>1. torn' \in BOOLEAN
    BY MendsFact DEF EditByte
  <2>2. QED
    BY <2>1, TookStep DEF ConsoleInv, EditByte
<1>2. ReadOK /\ buf \in Seq(Char) /\ count \in Nat /\ tty \in Terminals
  BY DEF ConsoleInv, ReadOK
<1>3. l \in Seq(Char) /\ Len(l) \in Nat
  BY <1>1, <1>2, EditFact
<1>4. IF Len(l) < count - 1 THEN Continue(l, "line") ELSE Return(l)
  BY Zenon DEF EditByte
<1>5. tty' = edit_echo(buf, NextByte)
  BY Zenon DEF EditByte
<1>6. tty' \in Terminals
  BY <1>1, <1>2, <1>5, EditEchoStays
<1>7. ReadOK'
  <2> HIDE DEF l
  <2>1. CASE Len(l) < count - 1
    <3>1. Len(l) < count
      BY <1>2, <1>3, <2>1
    <3>2. Continue(l, "line") /\ "line" \in Places
      BY <1>4, <2>1 DEF Places
    <3>3. QED
      BY <1>2, <1>3, <3>1, <3>2, ContinueOK
  <2>2. CASE ~(Len(l) < count - 1)
    <3>1. Return(l)
      BY <1>4, <2>2
    <3>2. QED
      BY <3>1, ReturnOK
  <2>3. QED
    BY <2>1, <2>2
<1>8. QED
  BY <1>1, <1>2, <1>6, <1>7 DEF ConsoleInv

LEMMA SwallowStep ==
  ASSUME ConsoleInv, EscByte \/ SwallowByte \/ SwallowEnds
  PROVE  ConsoleInv'
<1>1. ReadOK /\ buf \in Seq(Char) /\ (pc # "user" => Len(buf) < count)
  BY DEF ConsoleInv, ReadOK
<1>2. torn' \in BOOLEAN /\ UNCHANGED tty
  BY MendsFact DEF EscByte, SwallowByte, SwallowEnds
<1>3. KeyboardInv' /\ con' = con
  BY <1>2, TookStep, NoByteStep DEF ConsoleInv, EscByte, SwallowByte, SwallowEnds
<1>4. PICK where \in Places : Continue(buf, where)
  <2>1. CASE EscByte
    BY <2>1 DEF EscByte, Places
  <2>2. CASE SwallowByte
    BY <2>2 DEF SwallowByte, after_esc, Places
  <2>3. CASE SwallowEnds
    BY <2>3 DEF SwallowEnds, Places
  <2>4. QED
    BY <2>1, <2>2, <2>3
<1>5. pc # "user"
  BY DEF EscByte, SwallowByte, SwallowEnds
<1>6. ReadOK'
  BY <1>1, <1>4, <1>5, ContinueOK
<1>7. QED
  BY <1>2, <1>3, <1>6 DEF ConsoleInv

LEMMA WaitStep ==
  ASSUME ConsoleInv, GetcharWaits
  PROVE  ConsoleInv'
<1>1. torn' \in BOOLEAN
  BY DEF ConsoleInv, KeyboardInv, Bools, GetcharWaits
<1>2. KeyboardInv' /\ con' = con
  BY <1>1, NoByteStep DEF ConsoleInv, GetcharWaits
<1>3. UNCHANGED <<pc, count, buf, tty>>
  BY DEF GetcharWaits
<1>4. QED
  BY <1>2, <1>3 DEF ConsoleInv, ReadOK

LEMMA RawStep ==
  ASSUME ConsoleInv, RawByte \/ RawDone
  PROVE  ConsoleInv'
<1>1. ReadOK /\ buf \in Seq(Char) /\ count \in Nat /\ tty \in Terminals /\ torn \in BOOLEAN
  BY DEF ConsoleInv, ReadOK, KeyboardInv, Bools
<1>2. CASE RawByte
  <2> DEFINE l == Append(buf, NextByte)
  <2>1. torn' \in BOOLEAN
    BY <1>2 DEF RawByte
  <2>2. KeyboardInv' /\ con' = con /\ NextByte \in Char
    BY <1>2, <2>1, TookStep DEF ConsoleInv, RawByte
  <2>3. l \in Seq(Char)
    BY <1>1, <2>2
  <2>4. /\ IF Len(l) < count THEN Continue(l, "raw") ELSE Return(l)
        /\ tty' = Echo(<<NextByte>>)
    BY <1>2, Zenon DEF RawByte
  <2> HIDE DEF l
  <2>5. ReadOK'
    <3>1. CASE Len(l) < count
      <4>1. Continue(l, "raw") /\ "raw" \in Places
        BY <2>4, <3>1 DEF Places
      <4>2. QED
        BY <1>1, <2>3, <3>1, <4>1, ContinueOK
    <3>2. CASE ~(Len(l) < count)
      <4>1. Return(l)
        BY <2>4, <3>2
      <4>2. QED
        BY <4>1, ReturnOK
    <3>3. QED
      BY <3>1, <3>2
  <2>6. tty' \in Terminals
    <3>1. <<NextByte>> \in Seq(Byte)
      BY <2>2, CharBytes
    <3>2. QED
      BY <1>1, <2>4, <3>1, EchoStays
  <2>7. QED
    BY <2>2, <2>5, <2>6 DEF ConsoleInv
<1>3. CASE RawDone
  <2>1. torn' \in BOOLEAN /\ UNCHANGED tty
    BY <1>1, <1>3 DEF RawDone
  <2>2. KeyboardInv' /\ con' = con
    BY <1>3, <2>1, NoByteStep DEF ConsoleInv, RawDone
  <2>3. ReadOK'
    BY <1>3, ReturnOK DEF RawDone
  <2>4. QED
    BY <2>1, <2>2, <2>3 DEF ConsoleInv
<1>4. QED
  BY <1>2, <1>3

LEMMA OtherStep ==
  ASSUME ConsoleInv,
         \/ \E s \in Outputs : Write(s)
         \/ \E mode \in Modes, flush \in BOOLEAN : Tcset(mode, flush)
         \/ KeyboardIrq \/ Person \/ UNCHANGED vars
  PROVE  ConsoleInv'
<1>1. KeyboardInv /\ tty \in Terminals /\ con \in Termios /\ ReadOK
  BY DEF ConsoleInv
<1>2. UNCHANGED readVars => ReadOK'
  BY <1>1 DEF readVars, ReadOK
<1>3. ASSUME NEW s \in Outputs, Write(s) PROVE ConsoleInv'
  <2>1. s \in Seq(Byte)
    BY ConsoleAssumption DEF Byte
  <2>2. tty' \in Terminals
    BY <1>1, <1>3, <2>1, PrintStays DEF Write
  <2>3. KeyboardInv' /\ con' = con /\ UNCHANGED readVars
    BY <1>1, <1>3, IdleKeyboard DEF Write
  <2>4. QED
    BY <1>1, <1>2, <2>2, <2>3 DEF ConsoleInv
<1>4. ASSUME NEW mode \in Modes, NEW flush \in BOOLEAN, Tcset(mode, flush) PROVE ConsoleInv'
  <2>1. /\ con' = mode /\ UNCHANGED tty /\ UNCHANGED readVars
        /\ UNCHANGED <<shift_down, ctrl_down, alt_down, caps_lock, e0_prefix, held, wire, twins>>
    BY <1>4 DEF Tcset, flagVars
  <2>2. mode \in Termios
    BY ConsoleAssumption DEF Termios
  <2>3. RingOK' /\ torn' \in BOOLEAN
    <3>1. RingOK /\ torn \in BOOLEAN
      BY <1>1 DEF KeyboardInv, Bools
    <3>2. CASE keyboard_flush
      BY <3>1, <3>2 DEF keyboard_flush, RingOK
    <3>3. CASE UNCHANGED <<ringVars, torn>>
      BY <3>1, <3>3 DEF ringVars, RingOK
    <3>4. QED
      BY <1>4, <3>2, <3>3 DEF Tcset
  <2>4. KeysInv'
    BY <1>1, <2>1, KeysStay DEF KeyboardInv
  <2>5. Bools'
    BY <1>1, <2>1, <2>3 DEF KeyboardInv, Bools
  <2>6. QED
    BY <1>1, <1>2, <2>1, <2>2, <2>3, <2>4, <2>5 DEF ConsoleInv, KeyboardInv
<1>5. CASE KeyboardIrq
  <2>1. keyboard_handler /\ UNCHANGED <<tty, con>> /\ UNCHANGED readVars
    BY <1>5 DEF KeyboardIrq
  <2>2. KeyboardInv'
    BY <1>1, <2>1, IrqStep
  <2>3. QED
    BY <1>1, <1>2, <2>1, <2>2 DEF ConsoleInv
<1>6. CASE Person
  <2>1. PICK k \in Keys : Press(k) \/ Release(k)
    BY <1>6 DEF Person
  <2>2. UNCHANGED <<tty, con>> /\ UNCHANGED readVars
    BY <1>6 DEF Person
  <2>3. KeysInv' /\ UNCHANGED <<ringVars, flagVars, torn>>
    BY <1>1, <2>1, KeysPerson DEF KeyboardInv
  <2>4. twins' \in BOOLEAN
    <3>1. CASE Press(k)
      BY <3>1 DEF Press
    <3>2. CASE Release(k)
      BY <1>1, <3>2 DEF Release, KeyboardInv, Bools
    <3>3. QED
      BY <2>1, <3>1, <3>2
  <2>5. RingOK' /\ Bools'
    BY <1>1, <2>3, <2>4 DEF KeyboardInv, ringVars, flagVars, RingOK, Bools
  <2>6. QED
    BY <1>1, <1>2, <2>2, <2>3, <2>5 DEF ConsoleInv, KeyboardInv
<1>7. CASE UNCHANGED vars
  <2>1. UNCHANGED keyVars /\ UNCHANGED <<tty, con>> /\ UNCHANGED readVars
    BY <1>7 DEF vars
  <2>2. KeyboardInv'
    BY <1>1, <2>1, IdleKeyboard
  <2>3. QED
    BY <1>1, <1>2, <2>1, <2>2 DEF ConsoleInv
<1>8. QED
  BY <1>3, <1>4, <1>5, <1>6, <1>7

LEMMA ConsoleStep ==
  ASSUME ConsoleInv, [Next]_vars
  PROVE  ConsoleInv'
BY ReadBegins, EndLineStep, EditByteStep, SwallowStep, WaitStep, RawStep, OtherStep
   DEF Next, ReadStep

\* The inductive invariant of the console: terminal, ring, modifiers and the read
\* under way, through every step of sys_read, sys_write and the interrupt.
THEOREM ConsoleInvariant == Spec => []ConsoleInv
<1>1. Init => ConsoleInv
  BY ConsoleInit
<1>2. ConsoleInv /\ [Next]_vars => ConsoleInv'
  BY ConsoleStep
<1>3. QED
  BY <1>1, <1>2, PTL DEF Spec

\* In every state of the console: the cursor, the saved cursors and the parameter
\* that is read are inside their arrays, the ring's indices inside the ring, and a
\* read that goes on has room for a byte (sys_read, print_char, queue_char).
THEOREM ConsoleTypes == Spec => []ConsoleTypeOK
<1>1. ConsoleInv => ConsoleTypeOK
  <2> SUFFICES ASSUME ConsoleInv PROVE ConsoleTypeOK
    OBVIOUS
  <2>1. KeyTypeOK
    <3>1. RingOK /\ Bools /\ KeysInv
      BY DEF ConsoleInv, KeyboardInv
    <3>2. held \subseteq Keys /\ Len(wire) <= 4
      BY <3>1, WireFact DEF KeysInv
    <3>3. {shift_down, ctrl_down, alt_down, caps_lock, e0_prefix, twins, torn} \subseteq BOOLEAN
      BY <3>1, Zenon DEF Bools
    <3>4. /\ key_buffer \in [0 .. KEYBUF - 1 -> 0 .. 127]
          /\ buffer_head \in 0 .. KEYBUF - 1 /\ buffer_tail \in 0 .. KEYBUF - 1
      BY <3>1 DEF RingOK, Slots, Char
    <3>5. QED
      BY <3>2, <3>3, <3>4, Zenon DEF KeyTypeOK
  <2>2. TerminalOK(tty)
    <3>1. tty \in Terminals
      BY DEF ConsoleInv
    <3>2. /\ tty.row \in Row /\ tty.col \in Col /\ tty.grid \in Grids
          /\ tty.ansi_state \in 0 .. 2
          /\ tty.params \in [0 .. ANSI_PARAMS - 1 -> 0 .. MAX_PARAM]
          /\ tty.nparams \in 0 .. ANSI_PARAMS - 1
          /\ tty.saved \in Row \X Col /\ tty.alt_saved \in Row \X Col
      BY <3>1, TermFact
    <3>3. DOMAIN tty.grid = Row /\ \A r \in Row : DOMAIN tty.grid[r] = Col
      BY <3>2 DEF Grids
    <3>4. QED
      BY <3>2, <3>3 DEF TerminalOK
  <2>3. QED
    BY <2>1, <2>2 DEF ConsoleTypeOK, ConsoleInv, Termios, ReadOK, Places
<1>2. QED
  BY <1>1, ConsoleInvariant, PTL

\* Whichever keys a person presses and however the scan codes are spread over
\* interrupts, the modifier flags of keyboard_handler are what is held down.
THEOREM ModifiersAlwaysFollow == Spec => []ModifiersFollowKeys
<1>1. ConsoleInv => ModifiersFollowKeys
  <2> SUFFICES ASSUME ConsoleInv, wire = << >>, ~twins
               PROVE  /\ ~e0_prefix
                      /\ shift_down <=> {LSHIFT, RSHIFT} \cap held # {}
                      /\ ctrl_down <=> {CTRL, RCTRL} \cap held # {}
                      /\ alt_down <=> {ALT, RALT} \cap held # {}
    BY Zenon DEF ModifiersFollowKeys
  <2>1. ~e0_prefix /\ Follows(held)
    BY IdleFact, Zenon DEF ConsoleInv, KeyboardInv, Idle
  <2>2. \A a, b : a \in held \/ b \in held <=> {a, b} \cap held # {}
    OBVIOUS
  <2>3. QED
    BY <2>1, <2>2, Zenon DEF Follows
<1>2. QED
  BY <1>1, ConsoleInvariant, PTL

\* An interrupt of keyboard_handler, whatever it queues, leaves the bytes that wait
\* where they are: only the newest are dropped, and a full ring never looks empty.
THEOREM OverrunsDropNewest == Spec => OverrunDropsNewest
<1>1. ASSUME ConsoleInv, KeyboardIrq PROVE IsPrefix(Waiting, Waiting')
  <2>1. KeyboardInv /\ keyboard_handler
    BY <1>1 DEF ConsoleInv, KeyboardIrq
  <2>2. RingOK /\ RingOK'
    BY <2>1, IrqStep DEF KeyboardInv
  <2>3. /\ [buf |-> key_buffer', head |-> buffer_head'] \in Keeping
        /\ buffer_tail' = buffer_tail
    BY <2>1, IrqKeeps
  <2> DEFINE n == Held(buffer_head)
             m == Held(buffer_head')
  <2>4. m >= n /\ \A i \in 1 .. n : key_buffer'[Slot(i)] = key_buffer[Slot(i)]
    BY <2>3 DEF Keeping
  <2>5. buffer_tail \in Slots /\ buffer_head \in Slots /\ buffer_head' \in Slots
    BY <2>2 DEF RingOK
  <2>6. /\ n \in Nat /\ n < KEYBUF /\ m \in Nat /\ m < KEYBUF /\ KEYBUF \in Nat
        /\ keyboard_available = n
        /\ (buffer_head' - buffer_tail + KEYBUF) % KEYBUF = m
        /\ \A i \in 1 .. KEYBUF : (buffer_tail + i - 1) % KEYBUF = Slot(i)
    BY <2>5, RingFact DEF keyboard_available
  <2>7. keyboard_available' = m
    BY <2>3, <2>6 DEF keyboard_available
  <2> HIDE DEF n, m
  <2> DEFINE w == [i \in 1 .. n |-> key_buffer[Slot(i)]]
             v == [i \in 1 .. m |-> key_buffer'[Slot(i)]]
  <2>8. \A i \in 1 .. m : i \in 1 .. KEYBUF
    BY <2>6
  <2>9. \A i \in 1 .. n : i \in 1 .. m
    BY <2>4, <2>6
  <2>10. Waiting = w
    BY <2>6, <2>8, <2>9 DEF Waiting
  <2>11. Waiting' = v
    BY <2>3, <2>6, <2>7, <2>8 DEF Waiting
  <2>12. \A i \in 1 .. n : v[i] = w[i]
    BY <2>4, <2>9
  <2>13. Len(w) = n /\ Len(v) = m
    BY <2>6
  <2>14. SubSeq(w, 1, n) = [i \in 1 .. n |-> w[i]] /\ SubSeq(v, 1, n) = [i \in 1 .. n |-> v[i]]
    BY <2>4, <2>6, <2>13
  <2> HIDE DEF w, v
  <2>15. SubSeq(w, 1, n) = SubSeq(v, 1, n)
    BY <2>12, <2>14
  <2>16. IsPrefix(w, v)
    BY <2>4, <2>6, <2>13, <2>15 DEF IsPrefix
  <2>17. QED
    BY <2>10, <2>11, <2>16
<1>2. ConsoleInv /\ [Next]_vars => [KeyboardIrq => IsPrefix(Waiting, Waiting')]_vars
  BY <1>1
<1>3. QED
  BY <1>2, ConsoleInvariant, PTL DEF Spec, OverrunDropsNewest
---------------------------------------------------------------------------
(* The screen as a row of cells *)

\* The cell under the cursor, what a cell holds and how many there are.
At(t) == t.row * screen_width + t.col
On(t, i) == t.grid[i \div screen_width][i % screen_width]
Size == screen_height * screen_width

\* A cell and its number.
LEMMA CellFact ==
  ASSUME NEW r \in Row, NEW c \in Col
  PROVE  LET i == r * screen_width + c
         IN  /\ i \in Nat /\ i < Size
             /\ i \div screen_width = r /\ i % screen_width = c
<1> DEFINE w == screen_width
           h == screen_height
           i == r * w + c
           d == i \div w
           m == i % w
<1>1. w \in Nat /\ w >= 1 /\ h \in Nat /\ r \in Nat /\ r <= h - 1 /\ c \in Nat /\ c < w
  BY ScreenFact
<1> HIDE DEF w, h
<1>2. r * w \in Nat /\ i \in Nat
  BY <1>1
<1>a. i = r * w + c
  OBVIOUS
<1> HIDE DEF i
<1>3. d \in Nat /\ m \in Nat /\ m < w /\ i = w * d + m
  BY <1>1, <1>2
<1> HIDE DEF d, m
<1>4. d = r
  <2>1. ASSUME NEW x \in Nat, NEW y \in Nat, x < y PROVE w * x + w <= w * y
    <3>1. PICK z \in Nat : y = x + 1 + z
      <4>1. y - x - 1 \in Nat /\ y = x + 1 + (y - x - 1)
        BY <2>1
      <4>2. QED
        BY <4>1
    <3>2. w * (x + 1 + z) = w * x + w + w * z
      BY <1>1
    <3>3. w * z \in Nat /\ w * x \in Nat
      BY <1>1
    <3>4. QED
      BY <1>1, <3>1, <3>2, <3>3
  <2>2. w * r = r * w /\ w * r \in Nat /\ w * d \in Nat
    BY <1>1, <1>3
  <2>3. CASE d < r
    <3>1. w * d + w <= w * r
      BY <1>1, <1>3, <2>1, <2>3
    <3>2. QED
      BY <1>1, <1>2, <1>a, <1>3, <2>2, <3>1
  <2>4. CASE r < d
    <3>1. w * r + w <= w * d
      BY <1>1, <1>3, <2>1, <2>4
    <3>2. QED
      BY <1>1, <1>2, <1>a, <1>3, <2>2, <3>1
  <2>5. QED
    BY <1>1, <1>3, <2>3, <2>4
<1>5. m = c
  <2>1. w * d = r * w
    BY <1>1, <1>4
  <2>2. QED
    BY <1>1, <1>2, <1>a, <1>3, <2>1
<1>6. i < h * w
  <2>1. PICK z \in Nat : h = r + 1 + z
    <3>1. h - r - 1 \in Nat /\ h = r + 1 + (h - r - 1)
      BY <1>1
    <3>2. QED
      BY <3>1
  <2>2. (r + 1 + z) * w = r * w + w + z * w
    BY <1>1
  <2>3. z * w \in Nat
    BY <1>1
  <2>4. QED
    BY <1>1, <1>2, <1>a, <2>1, <2>2, <2>3
<1>7. QED
  BY <1>2, <1>4, <1>5, <1>6, Zenon DEF Size, i, d, m, w, h

\* Every number below Size is a cell's.
LEMMA CellOf ==
  ASSUME NEW i \in Nat, i < Size
  PROVE  /\ i \div screen_width \in Row /\ i % screen_width \in Col
         /\ i = (i \div screen_width) * screen_width + (i % screen_width)
<1> DEFINE w == screen_width
           h == screen_height
           d == i \div w
           m == i % w
<1>1. w \in Nat /\ w >= 1 /\ h \in Nat /\ i < h * w
  BY ScreenFact DEF Size
<1> HIDE DEF w, h
<1>2. d \in Nat /\ m \in Nat /\ m < w /\ i = d * w + m
  <2>1. d \in Nat /\ m \in Nat /\ m < w /\ i = w * d + m
    BY <1>1
  <2> HIDE DEF d, m
  <2>2. w * d = d * w
    BY <1>1, <2>1
  <2>3. QED
    BY <2>1, <2>2
<1> HIDE DEF d, m
<1>3. d < h
  <2> SUFFICES ASSUME h <= d PROVE FALSE
    BY <1>1, <1>2
  <2>1. PICK z \in Nat : d = h + z
    <3>1. d - h \in Nat /\ d = h + (d - h)
      BY <1>1, <1>2
    <3>2. QED
      BY <3>1
  <2>2. (h + z) * w = h * w + z * w
    BY <1>1
  <2>3. z * w \in Nat /\ h * w \in Nat
    BY <1>1
  <2>4. QED
    BY <1>1, <1>2, <2>1, <2>2, <2>3
<1>4. d \in Row /\ m \in Col
  BY <1>2, <1>3, ScreenFact DEF w, h
<1>5. QED
  BY <1>2, <1>4, Zenon DEF d, m, w

\* The screen has a finite number of cells.
LEMMA SizeFact == Size \in Nat
<1>1. screen_height \in Nat /\ screen_width \in Nat
  BY ScreenFact
<1>2. QED
  BY <1>1 DEF Size

\* The cursor is on a cell.
LEMMA AtFact ==
  ASSUME NEW t \in Terminals
  PROVE  /\ At(t) \in Nat /\ At(t) < Size
         /\ At(t) \div screen_width = t.row /\ At(t) % screen_width = t.col
<1>1. t.row \in Row /\ t.col \in Col
  BY TermFact
<1>2. QED
  BY <1>1, CellFact DEF At

\* Backspace moves the cursor by one cell, across rows.
LEMMA BackFact ==
  ASSUME NEW t \in Terminals
  PROVE  LET u == backspace(t)
         IN  /\ u \in Terminals /\ u.ansi_state = t.ansi_state /\ u.grid = t.grid
             /\ At(u) = IF At(t) > 0 THEN At(t) - 1 ELSE 0
<1> DEFINE u == backspace(t)
           w == screen_width
<1>1. u \in Terminals
  BY BackspaceStays
<1>2. t.row \in Nat /\ t.col \in Nat
  <2>1. t.row \in Row /\ t.col \in Col
    BY TermFact
  <2>2. QED
    BY <2>1, ScreenFact
<1>3. w \in Nat /\ w >= 1
  BY ScreenFact
<1>4. CASE t.col > 0
  <2>1. u = [t EXCEPT !.col = @ - 1]
    BY <1>4 DEF backspace
  <2>2. u.ansi_state = t.ansi_state /\ u.grid = t.grid /\ u.row = t.row /\ u.col = t.col - 1
    BY <2>1 DEF Terminals
  <2> HIDE DEF u, w
  <2>3. t.row * w \in Nat
    BY <1>2, <1>3
  <2>4. At(t) = t.row * w + t.col /\ At(u) = t.row * w + (t.col - 1)
    BY <2>2 DEF At, w
  <2>5. At(t) > 0 /\ At(u) = At(t) - 1
    BY <1>2, <1>4, <2>3, <2>4
  <2>6. QED
    BY <1>1, <2>2, <2>5 DEF u
<1>5. CASE ~(t.col > 0) /\ t.row > 0
  <2>1. u = [t EXCEPT !.row = @ - 1, !.col = screen_width - 1]
    BY <1>5 DEF backspace
  <2>2. u.ansi_state = t.ansi_state /\ u.grid = t.grid /\ u.row = t.row - 1 /\ u.col = w - 1
    BY <2>1 DEF Terminals
  <2> HIDE DEF u, w
  <2>3. t.row * w \in Nat /\ (t.row - 1) * w = t.row * w - w /\ t.col = 0
    BY <1>2, <1>3, <1>5
  <2>4. t.row * w >= w
    <3>1. (t.row - 1) * w \in Nat
      BY <1>2, <1>3, <1>5
    <3>2. QED
      BY <1>3, <2>3, <3>1
  <2>5. At(t) = t.row * w + t.col /\ At(u) = (t.row - 1) * w + (w - 1)
    BY <2>2 DEF At, w
  <2>6. At(t) > 0 /\ At(u) = At(t) - 1
    BY <1>3, <2>3, <2>4, <2>5
  <2>7. QED
    BY <1>1, <2>2, <2>6 DEF u
<1>6. CASE ~(t.col > 0) /\ ~(t.row > 0)
  <2>1. u = t
    BY <1>6 DEF backspace
  <2>2. t.row = 0 /\ t.col = 0
    BY <1>2, <1>6
  <2>3. At(t) = 0
    BY <1>3, <2>2 DEF At
  <2>4. QED
    BY <1>1, <2>1, <2>3
<1>7. QED
  BY <1>4, <1>5, <1>6

\* The screen after a character at the cursor: the cursor is on the next cell,
\* and if there was none, everything has moved up by one row of d cells.
Shifted(t, u, c, d) ==
  /\ At(u) = At(t) + 1 - d
  /\ \A i \in d .. At(t) - 1 : On(u, i - d) = On(t, i)
  /\ d <= At(t) => On(u, At(t) - d) = c

\* put writes the cell under the cursor and moves on, over the end of a row
\* (new_line) and of the screen (scroll_screen).
LEMMA PutCells ==
  ASSUME NEW t \in Terminals, NEW c \in Nat
  PROVE  /\ put(t, c) \in Terminals /\ put(t, c).ansi_state = t.ansi_state
         /\ Shifted(t, put(t, c), c, IF At(t) < Size - 1 THEN 0 ELSE screen_width)
<1> DEFINE w == screen_width
           h == screen_height
           P == At(t)
           g == [t.grid EXCEPT ![t.row][t.col] = c]
           n == [t EXCEPT !.grid = g, !.col = t.col + 1]
           u == put(t, c)
<1>1. u \in Terminals
  BY PutStays
<1>2. /\ t.row \in Row /\ t.col \in Col /\ t.grid \in [Row -> [Col -> Nat]]
      /\ t.row \in Nat /\ t.col \in Nat /\ t.row <= h - 1 /\ t.col <= w - 1
      /\ h \in Nat /\ w \in Nat /\ w >= 1 /\ h >= 1
  <2>1. t.row \in Row /\ t.col \in Col /\ t.grid \in [Row -> [Col -> Nat]]
    BY TermFact DEF Grids
  <2>2. QED
    BY <2>1, ScreenFact
<1>3. P \in Nat /\ P < Size /\ P = t.row * w + t.col /\ t.row * w \in Nat /\ Size \in Nat
  <2>1. P \in Nat /\ P < Size
    BY AtFact
  <2>2. P = t.row * w + t.col
    BY DEF At
  <2> HIDE DEF w, P
  <2>3. t.row * w \in Nat
    BY <1>2
  <2>4. QED
    BY <2>1, <2>2, <2>3, SizeFact
<1>4. g \in [Row -> [Col -> Nat]]
      /\ \A r \in Row, k \in Col : g[r][k] = IF r = t.row /\ k = t.col THEN c ELSE t.grid[r][k]
  BY <1>2
<1>5. n.row = t.row /\ n.col = t.col + 1 /\ n.grid = g /\ n.ansi_state = t.ansi_state
      /\ n = [t EXCEPT !.grid[t.row][t.col] = c, !.col = @ + 1]
  BY DEF Terminals
<1>6. u = IF n.col >= w THEN new_line(n) ELSE n
  BY <1>5 DEF put
<1>7. ASSUME NEW i \in Nat, i <= P
      PROVE  g[i \div w][i % w] = IF i = P THEN c ELSE On(t, i)
  <2>1. i < Size
    BY <1>3, <1>7
  <2>2. i \div w \in Row /\ i % w \in Col /\ i = (i \div w) * w + (i % w)
    BY <2>1, CellOf
  <2>3. P \div w = t.row /\ P % w = t.col
    BY AtFact
  <2> HIDE DEF P, g
  <2>4. CASE i = P
    BY <1>4, <2>2, <2>3, <2>4
  <2>5. CASE i # P
    <3>1. ~(i \div w = t.row /\ i % w = t.col)
      BY <1>3, <2>2, <2>5
    <3>2. QED
      BY <1>4, <2>2, <2>5, <3>1 DEF On
  <2>6. QED
    BY <2>4, <2>5
<1> HIDE DEF g, n, u
<1>8. ASSUME u.grid = g, At(u) = P + 1, P < Size - 1
      PROVE  Shifted(t, u, c, 0)
  <2>1. \A i \in 0 .. P - 1 : i \in Nat /\ i <= P /\ i # P /\ i - 0 = i
    BY <1>3
  <2>2. P - 0 = P /\ P + 1 - 0 = P + 1 /\ P <= P
    BY <1>3
  <2>3. \A i \in 0 .. P - 1 : On(u, i - 0) = On(t, i)
    BY <1>7, <1>8, <2>1 DEF On
  <2>4. On(u, P - 0) = c
    <3>1. g[P \div w][P % w] = c
      BY <1>3, <1>7, <2>2
    <3>2. QED
      BY <1>8, <2>2, <3>1 DEF On
  <2>5. QED
    BY <1>8, <2>2, <2>3, <2>4 DEF Shifted
<1>9. CASE t.col + 1 < w
  <2>1. u = n
    BY <1>2, <1>5, <1>6, <1>9
  <2>2. At(u) = t.row * w + (t.col + 1)
    BY <1>5, <2>1 DEF At
  <2>3. At(u) = P + 1
    BY <1>2, <1>3, <2>2
  <2>4. P + 1 < Size
    BY <1>1, <2>3, AtFact DEF u
  <2>5. P < Size - 1
    BY <1>2, <1>3, <2>4 DEF Size
  <2>6. Shifted(t, u, c, 0)
    BY <1>5, <1>8, <2>1, <2>3, <2>5
  <2>7. QED
    BY <1>1, <1>5, <2>1, <2>5, <2>6 DEF u
<1>10. CASE ~(t.col + 1 < w)
  <2> DEFINE m == [n EXCEPT !.col = 0, !.row = n.row + 1]
  <2>1. u = new_line(n) /\ t.col = w - 1
    BY <1>2, <1>5, <1>6, <1>10
  <2>2. m \in Loose /\ m.row = t.row + 1 /\ m.col = 0 /\ m.grid = g /\ m.ansi_state = t.ansi_state
        /\ m = [n EXCEPT !.col = 0, !.row = @ + 1]
    <3>1. n \in Loose
      <4>1. t \in Loose /\ t.col + 1 \in Nat
        BY <1>2, TerminalsLoose
      <4>2. QED
        BY <1>4, <4>1 DEF n, Loose
    <3>2. m \in Loose
      <4>1. n.row + 1 \in Nat
        BY <1>2, <1>5
      <4>2. QED
        BY <3>1, <4>1 DEF Loose
    <3>3. QED
      BY <1>5, <3>1, <3>2 DEF Loose
  <2>3. u = IF m.row >= h THEN scroll_screen(m) ELSE m
    BY <2>1, <2>2 DEF new_line
  <2> HIDE DEF m
  <2>4. CASE t.row + 1 < h
    <3>1. u = m
      BY <1>2, <2>2, <2>3, <2>4
    <3>2. At(u) = (t.row + 1) * w + 0
      BY <2>2, <3>1 DEF At
    <3>3. (t.row + 1) * w = t.row * w + w
      BY <1>2
    <3>4. At(u) = P + 1
      BY <1>2, <1>3, <2>1, <3>2, <3>3
    <3>5. P + 1 < Size
      BY <1>1, <3>4, AtFact DEF u
    <3>6. P < Size - 1
      BY <1>2, <1>3, <3>5 DEF Size
    <3>7. Shifted(t, u, c, 0)
      BY <1>8, <2>2, <3>1, <3>4, <3>6
    <3>8. QED
      BY <1>1, <2>2, <3>1, <3>6, <3>7 DEF u
  <2>5. CASE ~(t.row + 1 < h)
    <3> DEFINE up == [r \in Row |-> IF r < h - 1 THEN m.grid[r + 1] ELSE [k \in Col |-> BLANK]]
    <3>1. u = scroll_screen(m) /\ t.row = h - 1
      BY <1>2, <2>2, <2>3, <2>5
    <3>2. u = [m EXCEPT !.grid = up, !.row = h - 1, !.col = 0]
      BY <3>1 DEF scroll_screen
    <3>3. u.row = h - 1 /\ u.col = 0 /\ u.grid = up /\ u.ansi_state = t.ansi_state
      BY <2>2, <3>2 DEF Loose
    <3> HIDE DEF up
    <3>4. (h - 1) * w = h * w - w /\ h * w \in Nat /\ (h - 1) * w \in Nat
      BY <1>2
    <3>5. P = Size - 1 /\ At(u) = P + 1 - w
      BY <1>2, <1>3, <2>1, <3>1, <3>3, <3>4 DEF At, Size
    <3>6. ASSUME NEW i \in Nat, w <= i, i <= P PROVE On(u, i - w) = g[i \div w][i % w]
      <4> DEFINE r == i \div w
                 k == i % w
      <4>1. r \in Row /\ k \in Col /\ i = r * w + k
        BY <1>3, <1>2, <3>6, CellOf DEF Size
      <4> HIDE DEF r, k
      <4>2. r \in Nat /\ k \in Nat /\ k < w /\ r <= h - 1
        BY <4>1, ScreenFact
      <4>3. r # 0
        BY <1>2, <3>6, <4>1, <4>2
      <4>4. r - 1 \in Row /\ r - 1 < h - 1 /\ (r - 1) + 1 = r
        BY <1>2, <4>2, <4>3, ScreenFact
      <4>5. (r - 1) * w + k = i - w
        <5>1. (r - 1) * w = r * w - w /\ r * w \in Nat
          BY <1>2, <4>2
        <5>2. QED
          BY <1>2, <4>1, <4>2, <5>1
      <4>6. (i - w) \div w = r - 1 /\ (i - w) % w = k
        BY <4>1, <4>4, <4>5, CellFact
      <4>7. up[r - 1] = g[r]
        BY <2>2, <4>4 DEF up
      <4>8. QED
        BY <3>3, <4>6, <4>7 DEF On, r, k
    <3>7. \A i \in w .. P - 1 : On(u, i - w) = On(t, i)
      <4>1. \A i \in w .. P - 1 : i \in Nat /\ w <= i /\ i <= P /\ i # P
        BY <1>2, <1>3
      <4>2. QED
        BY <1>7, <3>6, <4>1
    <3>8. w <= P => On(u, P - w) = c
      BY <1>3, <1>7, <3>6
    <3>9. Shifted(t, u, c, w)
      BY <3>5, <3>7, <3>8 DEF Shifted
    <3>10. ~(P < Size - 1)
      BY <1>3, <3>5
    <3>11. QED
      BY <1>1, <3>3, <3>9, <3>10 DEF u
  <2>6. QED
    BY <2>4, <2>5
<1>11. QED
  BY <1>9, <1>10
---------------------------------------------------------------------------
(* What the screen shows of a line *)

\* The characters that take one cell.
Shown == Char \ {7, BS, 9, LF, 13, ESC}

\* The line is in the cells before the cursor, unless its first part has
\* scrolled off.
Shows(t, l) ==
  /\ t.ansi_state = 0
  /\ Len(l) <= At(t) => \A i \in 1 .. Len(l) : On(t, At(t) - Len(l) + i - 1) = l[i]

\* A character more.
LEMMA ShowsMore ==
  ASSUME NEW t \in Terminals, NEW l \in Seq(Char), Shows(t, l), NEW c \in Shown
  PROVE  print_char(t, c) \in Terminals /\ Shows(print_char(t, c), Append(l, c))
<1> DEFINE u == put(t, c)
           d == IF At(t) < Size - 1 THEN 0 ELSE screen_width
           k == Append(l, c)
           L == Len(l)
           P == At(t)
<1>1. c \in Nat /\ c \in Char
  BY DEF Shown, Char
<1>2. print_char(t, c) = u
  BY DEF print_char, Shows, Shown, BS, LF, ESC
<1>3. u \in Terminals /\ u.ansi_state = t.ansi_state /\ Shifted(t, u, c, d)
  BY <1>1, PutCells
<1>4. P \in Nat /\ d \in Nat /\ L \in Nat
  BY AtFact, ScreenFact
<1>5. k \in Seq(Char) /\ Len(k) = L + 1 /\ k[L + 1] = c /\ \A i \in 1 .. L : k[i] = l[i]
  BY <1>1
<1> HIDE DEF u, d, k
<1>6. ASSUME L + 1 <= P + 1 - d, NEW i \in 1 .. L + 1
      PROVE  On(u, (P + 1 - d) - (L + 1) + i - 1) = k[i]
  <2>1. L <= P /\ d <= P
    BY <1>4, <1>6
  <2>2. CASE i = L + 1
    <3>1. (P + 1 - d) - (L + 1) + i - 1 = P - d
      BY <1>4, <2>2
    <3>2. QED
      BY <1>3, <1>5, <2>1, <2>2, <3>1 DEF Shifted
  <2>3. CASE i # L + 1
    <3> DEFINE x == P - L + i - 1
    <3>1. i \in 1 .. L /\ x \in d .. P - 1 /\ (P + 1 - d) - (L + 1) + i - 1 = x - d
      <4> HIDE DEF P, L
      <4>1. i \in 1 .. L /\ i >= 1 /\ i <= L /\ i \in Nat
        BY <1>4, <2>3
      <4>2. P - L >= d
        BY <1>4, <1>6
      <4>3. QED
        BY <1>4, <4>1, <4>2
    <3>2. On(t, x) = l[i]
      BY <2>1, <3>1 DEF Shows
    <3> HIDE DEF x
    <3>3. On(u, x - d) = On(t, x)
      BY <1>3, <3>1 DEF Shifted
    <3>4. QED
      BY <1>5, <3>1, <3>2, <3>3
  <2>4. QED
    BY <2>2, <2>3
<1>7. At(u) = P + 1 - d
  BY <1>3 DEF Shifted
<1>8. Shows(u, k)
  <2>1. u.ansi_state = 0
    BY <1>3 DEF Shows
  <2>2. QED
    BY <1>5, <1>6, <1>7, <2>1 DEF Shows
<1>9. QED
  BY <1>2, <1>3, <1>8 DEF k

\* The screen after n characters were rubbed out.
Rubbed(t, u, n) ==
  /\ u.ansi_state = 0
  /\ At(u) = IF n <= At(t) THEN At(t) - n ELSE 0
  /\ \A i \in 0 .. At(t) - n - 1 : On(u, i) = On(t, i)

\* Backspace, blank, backspace: one cell less, also across rows and in the
\* first cell, where the cursor stays.
LEMMA RubOne ==
  ASSUME NEW t \in Terminals, t.ansi_state = 0
  PROVE  LET a == print_char(t, BS)
             b == print_char(a, BLANK)
             u == print_char(b, BS)
         IN  u \in Terminals /\ Rubbed(t, u, 1)
<1> DEFINE a == print_char(t, BS)
           b == print_char(a, BLANK)
           u == print_char(b, BS)
           P == At(t)
           Q == At(a)
<1>1. \A x \in Terminals : x.ansi_state = 0 =>
        print_char(x, BS) = backspace(x) /\ print_char(x, BLANK) = put(x, BLANK)
  BY DEF print_char, BS, BLANK
<1>2. a \in Terminals /\ a.ansi_state = 0 /\ a.grid = t.grid /\ Q = IF P > 0 THEN P - 1 ELSE 0
  BY <1>1, BackFact
<1> HIDE DEF a
<1>3. /\ b \in Terminals /\ b.ansi_state = 0
      /\ Shifted(a, b, BLANK, IF Q < Size - 1 THEN 0 ELSE screen_width)
  <2>1. BLANK \in Nat
    BY BlankFact
  <2>2. b = put(a, BLANK)
    BY <1>1, <1>2
  <2> HIDE DEF b
  <2>3. QED
    BY <1>2, <2>1, <2>2, PutCells
<1> HIDE DEF b
<1>4. /\ u \in Terminals /\ u.ansi_state = 0 /\ u.grid = b.grid
      /\ At(u) = IF At(b) > 0 THEN At(b) - 1 ELSE 0
  BY <1>1, <1>3, BackFact
<1> HIDE DEF u
<1>5. P \in Nat /\ Q \in Nat /\ P < Size /\ Size \in Nat /\ At(b) \in Nat
  BY <1>2, <1>3, AtFact, SizeFact
<1>6. ASSUME P > 0 PROVE u \in Terminals /\ Rubbed(t, u, 1)
  <2>1. Q = P - 1 /\ Q < Size - 1
    BY <1>2, <1>5, <1>6
  <2>2. Shifted(a, b, BLANK, 0)
    BY <1>3, <2>1
  <2>3. At(b) = P
    BY <1>5, <2>1, <2>2 DEF Shifted
  <2>4. At(u) = P - 1
    BY <1>4, <1>6, <2>3
  <2>5. ASSUME NEW i \in 0 .. P - 1 - 1 PROVE On(u, i) = On(t, i)
    <3>1. i \in 0 .. Q - 1 /\ i - 0 = i
      BY <1>5, <2>1
    <3>2. On(b, i) = On(a, i)
      BY <2>2, <3>1 DEF Shifted
    <3>3. QED
      BY <1>2, <1>4, <3>2 DEF On
  <2>6. At(u) = IF 1 <= P THEN P - 1 ELSE 0
    BY <1>5, <1>6, <2>4
  <2>7. QED
    BY <1>4, <2>5, <2>6 DEF Rubbed
<1>7. ASSUME ~(P > 0) PROVE u \in Terminals /\ Rubbed(t, u, 1)
  <2>1. P = 0 /\ Q = 0
    BY <1>2, <1>5, <1>7
  <2>2. At(b) <= 1
    <3>1. screen_width \in Nat
      BY ScreenFact
    <3>2. At(b) = 0 + 1 - (IF Q < Size - 1 THEN 0 ELSE screen_width)
      BY <1>3, <2>1 DEF Shifted
    <3>3. QED
      BY <1>5, <3>1, <3>2
  <2>3. At(u) = 0
    BY <1>4, <1>5, <2>2
  <2>4. 0 .. P - 1 - 1 = {}
    BY <2>1
  <2>5. At(u) = IF 1 <= P THEN P - 1 ELSE 0
    BY <2>1, <2>3
  <2>6. QED
    BY <1>4, <2>4, <2>5 DEF Rubbed
<1>8. QED
  BY <1>6, <1>7 DEF u, b, a

\* One character after the other.
LEMMA RubbedMore ==
  ASSUME NEW t \in Terminals, NEW u \in Terminals, NEW v, NEW n \in Nat,
         Rubbed(t, u, n), Rubbed(u, v, 1)
  PROVE  Rubbed(t, v, n + 1)
<1> DEFINE P == At(t)
           Q == At(u)
<1>1. P \in Nat /\ Q \in Nat
  BY AtFact
<1>2. /\ Q = IF n <= P THEN P - n ELSE 0
      /\ At(v) = IF 1 <= Q THEN Q - 1 ELSE 0
      /\ v.ansi_state = 0
  BY DEF Rubbed
<1>3. At(v) = IF n + 1 <= P THEN P - (n + 1) ELSE 0
  <2> HIDE DEF P, Q
  <2>1. QED
    BY <1>1, <1>2
<1>4. ASSUME NEW i \in 0 .. P - (n + 1) - 1 PROVE On(v, i) = On(t, i)
  <2>1. i \in 0 .. P - n - 1 /\ i \in 0 .. Q - 1 - 1
    <3> HIDE DEF P, Q
    <3>1. QED
      BY <1>1, <1>2
  <2>2. QED
    BY <2>1 DEF Rubbed
<1>5. QED
  BY <1>2, <1>3, <1>4 DEF Rubbed

\* Nothing rubbed out.
LEMMA RubNone ==
  ASSUME NEW t \in Terminals, t.ansi_state = 0
  PROVE  Rubbed(t, t, 0)
<1>1. At(t) \in Nat
  BY AtFact
<1>2. At(t) = IF 0 <= At(t) THEN At(t) - 0 ELSE 0
  BY <1>1
<1>3. QED
  BY <1>2 DEF Rubbed

\* The loop of sys_read that rubs out n characters.
LEMMA RubMany ==
  ASSUME NEW t \in Terminals, t.ansi_state = 0, NEW n \in Nat
  PROVE  Rubbed(t, print(t, rubout(n)), n)
<1> DEFINE s == rubout(n)
<1>1. /\ s \in Seq(Byte) /\ Len(s) = 3 * n
      /\ \A j \in 1 .. n : s[3 * j - 2] = BS /\ s[3 * j - 1] = BLANK /\ s[3 * j] = BS
  BY RuboutFact
<1> HIDE DEF s
<1>2. PICK f : /\ f[0] = t /\ f[Len(s)] = print(t, s)
               /\ \A i \in 1 .. Len(s) : f[i] = print_char(f[i - 1], s[i])
               /\ \A i \in 0 .. Len(s) : f[i] \in Terminals
  BY <1>1, PrintRun
<1> DEFINE g == [j \in 0 .. n |-> <<j, f[3 * j]>>]
           S == {p \in (0 .. n) \X Terminals : Rubbed(t, p[2], p[1])}
<1>3. g[0] \in S
  <2>1. 0 \in 0 .. n /\ 3 * 0 = 0
    OBVIOUS
  <2>2. g[0] = <<0, t>>
    BY <1>2, <2>1
  <2>3. Rubbed(t, t, 0)
    BY RubNone
  <2>4. QED
    BY <2>1, <2>2, <2>3
<1>4. ASSUME NEW j \in 1 .. n, g[j - 1] \in S PROVE g[j] \in S
  <2> DEFINE u == f[3 * (j - 1)]
             v == f[3 * j]
  <2>1. j \in 0 .. n /\ j - 1 \in 0 .. n /\ j - 1 \in Nat /\ j - 1 + 1 = j
    OBVIOUS
  <2>2. g[j - 1] = <<j - 1, u>> /\ g[j] = <<j, v>>
    BY <2>1
  <2>3. u \in Terminals /\ Rubbed(t, u, j - 1)
    BY <1>4, <2>2
  <2>4. /\ 3 * j - 2 \in 1 .. Len(s) /\ 3 * j - 1 \in 1 .. Len(s) /\ 3 * j \in 1 .. Len(s)
        /\ 3 * j - 2 - 1 = 3 * (j - 1) /\ 3 * j - 1 - 1 = 3 * j - 2
    BY <1>1
  <2>5. /\ f[3 * j - 2] = print_char(u, BS)
        /\ f[3 * j - 1] = print_char(f[3 * j - 2], BLANK)
        /\ v = print_char(f[3 * j - 1], BS)
    BY <1>1, <1>2, <2>4
  <2> HIDE DEF u, v, g
  <2>6. v \in Terminals /\ Rubbed(u, v, 1)
    <3>1. u.ansi_state = 0
      BY <2>3 DEF Rubbed
    <3>2. QED
      BY <2>3, <2>5, <3>1, RubOne
  <2>7. Rubbed(t, v, j)
    BY <2>1, <2>3, <2>6, RubbedMore
  <2>8. QED
    BY <2>1, <2>2, <2>6, <2>7
<1>5. g[n] = <<n, print(t, s)>>
  <2>1. n \in 0 .. n
    OBVIOUS
  <2>2. QED
    BY <1>1, <1>2, <2>1
<1>6. g[n] \in S
  <2> HIDE DEF g, S
  <2>1. \A i \in 0 .. n : g[i] \in S
    BY <1>3, <1>4, RunKeeps
  <2>2. QED
    BY <2>1
<1>7. QED
  BY <1>5, <1>6 DEF s

\* What is left of the line is still there.
LEMMA ShowsLess ==
  ASSUME NEW t \in Terminals, NEW l \in Seq(Char), Shows(t, l),
         NEW m \in 0 .. Len(l), NEW u, Rubbed(t, u, Len(l) - m)
  PROVE  Shows(u, SubSeq(l, 1, m))
<1> DEFINE P == At(t)
           L == Len(l)
           n == L - m
           k == SubSeq(l, 1, m)
<1>1. P \in Nat /\ L \in Nat /\ m \in Nat /\ m <= L /\ n \in Nat
  BY AtFact
<1>2. Len(k) = m /\ \A i \in 1 .. m : k[i] = l[i]
  BY <1>1
<1>3. u.ansi_state = 0 /\ At(u) = IF n <= P THEN P - n ELSE 0
  BY DEF Rubbed
<1> HIDE DEF k
<1>4. ASSUME m <= At(u), NEW i \in 1 .. m PROVE On(u, At(u) - m + i - 1) = k[i]
  <2> DEFINE x == P - L + i - 1
  <2>1. /\ L <= P /\ At(u) - m + i - 1 = x /\ i \in 1 .. L
        /\ x \in 0 .. P - n - 1
    <3> HIDE DEF P, L
    <3>1. m >= 1 /\ i \in Nat /\ i <= m /\ i >= 1
      BY <1>1
    <3>2. n <= P /\ At(u) = P - n
      BY <1>1, <1>3, <1>4, <3>1
    <3>3. L <= P
      BY <1>1, <1>4, <3>2
    <3>4. QED
      BY <1>1, <3>1, <3>2, <3>3
  <2>2. On(t, x) = l[i]
    BY <2>1 DEF Shows
  <2>3. On(u, x) = On(t, x)
    BY <2>1 DEF Rubbed
  <2>4. QED
    BY <1>2, <2>1, <2>2, <2>3
<1>5. QED
  BY <1>2, <1>3, <1>4 DEF Shows, k

\* Shown characters are characters and bytes.
LEMMA ShownFact == Shown \subseteq Char /\ Shown \subseteq Byte
<1>1. Char \subseteq Byte
  BY DEF Char, Byte
<1>2. Shown \subseteq Char
  BY DEF Shown
<1>3. QED
  BY <1>1, <1>2

\* ^L: the line is printed anew.
LEMMA ShowsAnew ==
  ASSUME NEW t \in Terminals, t.ansi_state = 0, NEW l \in Seq(Shown)
  PROVE  Shows(print(t, l), l)
<1> DEFINE n == Len(l)
<1>1. l \in Seq(Byte) /\ l \in Seq(Char) /\ n \in Nat /\ \A i \in 1 .. n : l[i] \in Shown /\ l[i] \in Char
  <2>1. Shown \subseteq Char /\ Shown \subseteq Byte
    BY ShownFact
  <2>2. n \in Nat /\ \A i \in 1 .. n : l[i] \in Shown
    OBVIOUS
  <2>3. Seq(Shown) \subseteq Seq(Char) /\ Seq(Shown) \subseteq Seq(Byte)
    BY <2>1
  <2>4. QED
    BY <2>1, <2>2, <2>3
<1>2. PICK f : /\ f[0] = t /\ f[n] = print(t, l)
               /\ \A i \in 1 .. n : f[i] = print_char(f[i - 1], l[i])
               /\ \A i \in 0 .. n : f[i] \in Terminals
  BY <1>1, PrintRun
<1> HIDE DEF n
<1> DEFINE pre(i) == SubSeq(l, 1, i)
           g == [i \in 0 .. n |-> <<i, f[i]>>]
           S == {p \in (0 .. n) \X Terminals : Shows(p[2], pre(p[1]))}
<1>3. /\ pre(0) = << >> /\ pre(n) = l /\ \A i \in 0 .. n : pre(i) \in Seq(Char)
      /\ \A i \in 1 .. n : pre(i) = Append(pre(i - 1), l[i])
  <2>1. pre(0) = << >>
    BY <1>1 DEF n
  <2>2. pre(n) = l
    BY <1>1 DEF n
  <2>3. \A i \in 0 .. n : pre(i) \in Seq(Char)
    BY <1>1 DEF n
  <2>4. \A i \in 1 .. n : pre(i) = Append(pre(i - 1), l[i])
    BY <1>1 DEF n
  <2>5. QED
    BY <2>1, <2>2, <2>3, <2>4
<1> HIDE DEF pre
<1>4. g[0] \in S
  <2>1. 0 \in 0 .. n
    BY <1>1
  <2>2. g[0] = <<0, t>>
    BY <1>2, <2>1
  <2>3. Shows(t, pre(0))
    <3>1. Len(pre(0)) = 0
      BY <1>3
    <3>2. QED
      BY <3>1 DEF Shows
  <2>4. QED
    BY <2>1, <2>2, <2>3
<1>5. ASSUME NEW i \in 1 .. n, g[i - 1] \in S PROVE g[i] \in S
  <2>1. i \in 0 .. n /\ i - 1 \in 0 .. n
    BY <1>1
  <2>2. g[i - 1] = <<i - 1, f[i - 1]>> /\ g[i] = <<i, f[i]>>
    BY <2>1
  <2>3. f[i - 1] \in Terminals /\ Shows(f[i - 1], pre(i - 1))
    BY <1>5, <2>2
  <2> HIDE DEF g
  <2>4. Shows(f[i], Append(pre(i - 1), l[i]))
    <3>1. pre(i - 1) \in Seq(Char) /\ l[i] \in Shown /\ f[i] = print_char(f[i - 1], l[i])
      BY <1>1, <1>2, <1>3, <2>1
    <3>2. QED
      BY <2>3, <3>1, ShowsMore
  <2>5. Shows(f[i], pre(i)) /\ f[i] \in Terminals
    BY <1>2, <1>3, <2>1, <2>4
  <2>6. QED
    BY <2>1, <2>2, <2>5
<1>6. g[n] = <<n, print(t, l)>>
  BY <1>1, <1>2
<1>7. g[n] \in S
  <2> HIDE DEF g, S
  <2>1. \A i \in 0 .. n : g[i] \in S
    BY <1>1, <1>4, <1>5, RunKeeps
  <2>2. QED
    BY <1>1, <2>1
<1>8. QED
  BY <1>3, <1>6, <1>7
---------------------------------------------------------------------------
(* The echo *)

\* Erasing keys leave a prefix.
LEMMA EditCuts ==
  ASSUME NEW l \in Seq(Char), NEW c \in {BS, DEL, 21, 23}
  PROVE  \E m \in 0 .. Len(l) : edit(l, c) = SubSeq(l, 1, m) /\ Len(edit(l, c)) = m
<1>1. Len(l) \in Nat
  OBVIOUS
<1>2. ASSUME NEW m \in 0 .. Len(l), edit(l, c) = SubSeq(l, 1, m) PROVE Len(edit(l, c)) = m
  BY <1>1, <1>2
<1>3. CASE c \in {BS, DEL}
  <2>1. edit(l, c) = IF l = << >> THEN l ELSE Front(l)
    BY <1>3 DEF edit, BS, DEL
  <2>2. CASE l = << >>
    <3>1. edit(l, c) = SubSeq(l, 1, 0) /\ 0 \in 0 .. Len(l)
      BY <2>1, <2>2
    <3>2. QED
      BY <1>2, <3>1
  <2>3. CASE l # << >>
    <3>1. Len(l) - 1 \in 0 .. Len(l)
      BY <1>1, <2>3
    <3>2. edit(l, c) = SubSeq(l, 1, Len(l) - 1)
      BY <2>1, <2>3 DEF Front
    <3>3. QED
      BY <1>2, <3>1, <3>2
  <2>4. QED
    BY <2>2, <2>3
<1>4. CASE c = 21
  <2>1. edit(l, c) = << >>
    BY <1>4 DEF edit, BS, DEL
  <2>2. SubSeq(l, 1, 0) = << >> /\ 0 \in 0 .. Len(l)
    BY <1>1
  <2>3. QED
    BY <1>2, <2>1, <2>2
<1>5. CASE c = 23
  <2>1. edit(l, c) = SubSeq(l, 1, word_start(l))
    BY <1>5, WordFact DEF edit, BS, DEL
  <2>2. word_start(l) \in 0 .. Len(l)
    BY WordFact
  <2>3. QED
    BY <1>2, <2>1, <2>2
<1>6. QED
  BY <1>3, <1>4, <1>5

\* What sys_read puts into a line, and a line that the screen shows.
Kept == Char \ {BS, LF, 13, ESC}
Echoed(t, l) == l \in Seq(Shown) /\ Shows(t, l)

\* The inductive invariant: with echo on, a plain line is shown.
EchoInv ==
  /\ InLine => buf \in Seq(Kept)
  /\ InLine /\ con.echo /\ plain => Echoed(tty, buf)

\* No byte of the editor puts a control character of the terminal into the line,
\* bell and tab aside.
LEMMA EditKept ==
  ASSUME NEW l \in Seq(Char), l \in Seq(Kept), NEW c \in Char \ (Ends \cup {ESC})
  PROVE  edit(l, c) \in Seq(Kept)
<1>1. CASE c = 12
  BY <1>1 DEF edit, BS, DEL
<1>2. CASE c \in {BS, DEL, 21, 23}
  <2>1. PICK m \in 0 .. Len(l) : edit(l, c) = SubSeq(l, 1, m)
    BY <1>2, EditCuts
  <2>2. SubSeq(l, 1, m) \in Seq(Kept)
    OBVIOUS
  <2>3. QED
    BY <2>1, <2>2
<1>3. CASE c \notin {12, BS, DEL, 21, 23}
  <2>1. edit(l, c) = Append(l, c)
    BY <1>3 DEF edit
  <2>2. c \in Kept
    BY <1>3 DEF Kept, Ends
  <2>3. QED
    BY <2>1, <2>2
<1>4. QED
  BY <1>1, <1>2, <1>3

\* A byte of the line editor.
LEMMA EditShows ==
  ASSUME tty \in Terminals, buf \in Seq(Char), buf \in Seq(Kept),
         NEW c \in Char \ (Ends \cup {ESC}),
         con.echo, plain => Echoed(tty, buf), StaysPlain(c)
  PROVE  Echoed(edit_echo(buf, c), edit(buf, c))
<1>1. CASE c = 12
  <2>1. edit_echo(buf, c) = print(clear(tty), buf) /\ edit(buf, c) = buf
    BY <1>1 DEF edit_echo, edit, BS, DEL
  <2>2. tty.ansi_state = 0 /\ clear(tty).ansi_state = 0
    BY <1>1 DEF StaysPlain, clear, Terminals
  <2>3. buf \in Seq(Shown)
    <3>1. ASSUME NEW i \in 1 .. Len(buf) PROVE buf[i] \in Shown
      <4>1. buf[i] \in ToSet(buf) /\ buf[i] \in Kept
        BY DEF ToSet
      <4>2. buf[i] \notin Uneven
        BY <1>1, <4>1 DEF StaysPlain
      <4>3. QED
        BY <4>1, <4>2 DEF Shown, Kept, Uneven
    <3>2. QED
      BY <3>1
  <2>4. QED
    BY <2>1, <2>2, <2>3, ClearStays, ShowsAnew DEF Echoed
<1>2. CASE c \in {BS, DEL, 21, 23}
  <2>1. PICK m \in 0 .. Len(buf) : edit(buf, c) = SubSeq(buf, 1, m) /\ Len(edit(buf, c)) = m
    BY <1>2, EditCuts
  <2>2. edit_echo(buf, c) = print(tty, rubout(Len(buf) - m))
    BY <1>2, <2>1 DEF edit_echo, Echo, BS, DEL
  <2>3. Echoed(tty, buf)
    BY <1>2 DEF StaysPlain, BS, DEL
  <2>4. Len(buf) - m \in Nat
    OBVIOUS
  <2>5. Rubbed(tty, print(tty, rubout(Len(buf) - m)), Len(buf) - m)
    BY <2>3, <2>4, RubMany DEF Echoed, Shows
  <2>6. Shows(print(tty, rubout(Len(buf) - m)), SubSeq(buf, 1, m))
    BY <2>3, <2>5, ShowsLess DEF Echoed
  <2>7. SubSeq(buf, 1, m) \in Seq(Shown)
    BY <2>3 DEF Echoed
  <2>8. QED
    BY <2>1, <2>2, <2>6, <2>7 DEF Echoed
<1>3. CASE c \notin {12, BS, DEL, 21, 23}
  <2>1. edit_echo(buf, c) = print(tty, <<c>>) /\ edit(buf, c) = Append(buf, c)
    BY <1>3 DEF edit_echo, edit, Echo
  <2>2. Echoed(tty, buf) /\ c \notin {7, 9}
    BY <1>3 DEF StaysPlain, Uneven
  <2>3. c \in Shown
    BY <1>3, <2>2 DEF Shown, Ends
  <2>4. print(tty, <<c>>) = print_char(tty, c)
    <3> DEFINE s == <<c>>
    <3>1. s \in Seq(Byte) /\ Len(s) = 1 /\ s[1] = c
      <4>1. c \in Byte
        BY <2>3, ShownFact
      <4>2. QED
        BY <4>1
    <3> HIDE DEF s
    <3>2. PICK f : /\ f[0] = tty /\ f[Len(s)] = print(tty, s)
                   /\ \A i \in 1 .. Len(s) : f[i] = print_char(f[i - 1], s[i])
      BY <3>1, PrintRun
    <3>3. print(tty, s) = print_char(tty, c)
      BY <3>1, <3>2
    <3>4. QED
      BY <3>3 DEF s
  <2>5. Shows(print_char(tty, c), Append(buf, c))
    BY <2>2, <2>3, ShowsMore DEF Echoed
  <2>6. Append(buf, c) \in Seq(Shown)
    BY <2>2, <2>3 DEF Echoed
  <2>7. QED
    BY <2>1, <2>4, <2>5, <2>6 DEF Echoed
<1>4. QED
  BY <1>1, <1>2, <1>3

\* A step that leaves line, screen and termios alone.
LEMMA EchoSame ==
  ASSUME EchoInv, InLine' => InLine, UNCHANGED <<buf, tty, con, plain>>
  PROVE  EchoInv'
<1>1. Echoed(tty, buf)' = Echoed(tty, buf)
  BY DEF Echoed, Shows, At, On
<1>2. QED
  BY <1>1 DEF EchoInv

\* Outside a canonical read nothing is promised.
LEMMA EchoNone ==
  ASSUME pc' \notin {"line", "esc", "seq"}
  PROVE  EchoInv'
BY DEF EchoInv, InLine

\* The editor keeps the line on the screen.
LEMMA EchoEdit ==
  ASSUME ConsoleInv, EchoInv, EditByte
  PROVE  EchoInv'
<1> DEFINE c == NextByte
           l == edit(buf, c)
<1>1. tty \in Terminals /\ buf \in Seq(Char) /\ InLine
  BY DEF ConsoleInv, ReadOK, EditByte, InLine
<1>2. c \in Char /\ con' = con
  <2>1. torn' \in BOOLEAN
    BY MendsFact DEF EditByte
  <2>2. QED
    BY <2>1, TookStep DEF ConsoleInv, EditByte
<1>3. c \in Char \ (Ends \cup {ESC})
  BY <1>2 DEF EditByte
<1>4. /\ IF Len(l) < count - 1 THEN Continue(l, "line") ELSE Return(l)
      /\ tty' = edit_echo(buf, c) /\ plain' = StaysPlain(c)
  BY Zenon DEF EditByte
<1>5. buf \in Seq(Kept) /\ (con.echo /\ plain => Echoed(tty, buf))
  BY <1>1 DEF EchoInv
<1>6. l \in Seq(Kept)
  BY <1>1, <1>3, <1>5, EditKept
<1>7. con.echo /\ StaysPlain(c) => Echoed(edit_echo(buf, c), l)
  BY <1>1, <1>3, <1>5, EditShows
<1> HIDE DEF c, l
<1>8. CASE Continue(l, "line")
  <2>1. buf' = l
    BY <1>8 DEF Continue
  <2>2. buf' \in Seq(Kept)
    BY <1>6, <2>1
  <2>3. con'.echo /\ plain' => Echoed(tty', buf')
    BY <1>2, <1>4, <1>7, <2>1
  <2>4. Echoed(tty, buf)' = Echoed(tty', buf')
    BY DEF Echoed, Shows, At, On
  <2>5. QED
    BY <2>2, <2>3, <2>4 DEF EchoInv
<1>9. CASE Return(l)
  BY <1>9, EchoNone DEF Return
<1>10. QED
  BY <1>4, <1>8, <1>9

\* Every step keeps the line on the screen.
LEMMA EchoStep ==
  ASSUME ConsoleInv, EchoInv, [Next]_vars
  PROVE  EchoInv'
<1>1. ASSUME NEW n \in Counts, ReadLine(n) PROVE EchoInv'
  <2>1. CASE n = 1
    <3>1. Return(<< >>)
      BY <1>1, <2>1 DEF ReadLine
    <3>2. QED
      BY <3>1, EchoNone DEF Return
  <2>2. CASE n # 1
    <3>1. buf' = << >> /\ tty' = tty /\ plain' = (tty.ansi_state = 0)
      BY <1>1, <2>2 DEF ReadLine
    <3>2. << >> \in Seq(Kept) /\ << >> \in Seq(Shown) /\ Len(<< >>) = 0
      OBVIOUS
    <3>3. Echoed(tty, buf)' = Echoed(tty', buf')
      BY DEF Echoed, Shows, At, On
    <3>4. tty.ansi_state = 0 => Shows(tty, << >>)
      <4>1. 1 .. Len(<< >>) = {}
        BY <3>2
      <4>2. QED
        BY <4>1, Zenon DEF Shows
    <3>5. plain' => Echoed(tty', buf')
      BY <3>1, <3>2, <3>4 DEF Echoed
    <3>6. buf' \in Seq(Kept)
      BY <3>1, <3>2
    <3>7. QED
      BY <3>3, <3>5, <3>6 DEF EchoInv
  <2>3. QED
    BY <2>1, <2>2
<1>2. ASSUME NEW n \in Counts, ReadRaw(n) PROVE EchoInv'
  <2>1. pc' \in {"raw0", "raw"}
    BY <1>2 DEF ReadRaw
  <2>2. QED
    BY <2>1, EchoNone
<1>3. CASE EndLine
  BY <1>3, EchoNone DEF EndLine, Return
<1>4. CASE EditByte
  BY <1>4, EchoEdit
<1>5. CASE EscByte \/ SwallowByte \/ SwallowEnds
  <2>1. UNCHANGED <<buf, tty, plain>> /\ InLine
    BY <1>5 DEF EscByte, SwallowByte, SwallowEnds, NoByte, Continue, InLine
  <2>2. con' = con
    BY <1>5 DEF EscByte, SwallowByte, SwallowEnds, NoByte, Took
  <2>3. QED
    BY <2>1, <2>2, EchoSame
<1>6. CASE GetcharWaits
  <2>1. UNCHANGED <<pc, buf, tty, con, plain>>
    BY <1>6 DEF GetcharWaits, NoByte
  <2>2. InLine' => InLine
    BY <2>1 DEF InLine
  <2>3. QED
    BY <2>1, <2>2, EchoSame
<1>7. CASE RawByte \/ RawDone
  <2>1. pc' \in {"raw", "user"}
    BY <1>7 DEF RawByte, RawDone, Continue, Return
  <2>2. QED
    BY <2>1, EchoNone
<1>8. ASSUME NEW s \in Outputs, Write(s) PROVE EchoInv'
  <2>1. pc' = "user"
    BY <1>8 DEF Write, readVars
  <2>2. QED
    BY <2>1, EchoNone
<1>9. ASSUME NEW mode \in Modes, NEW flush \in BOOLEAN, Tcset(mode, flush) PROVE EchoInv'
  <2>1. pc' = "user"
    BY <1>9 DEF Tcset, readVars
  <2>2. QED
    BY <2>1, EchoNone
<1>10. CASE KeyboardIrq \/ Person \/ UNCHANGED vars
  <2>1. UNCHANGED <<pc, buf, tty, con, plain>>
    BY <1>10 DEF KeyboardIrq, Person, vars, readVars
  <2>2. InLine' => InLine
    BY <2>1 DEF InLine
  <2>3. QED
    BY <2>1, <2>2, EchoSame
<1>11. QED
  BY <1>1, <1>2, <1>3, <1>4, <1>5, <1>6, <1>7, <1>8, <1>9, <1>10, Zenon DEF Next, ReadStep

\* What a person sees is what the program will get: while a line is edited with echo on,
\* the cells before the cursor show it, through the wrapping and scrolling
\* of print_char and the rubbing out of sys_read, for every screen.
THEOREM EchoAlwaysMatches == Spec => []EchoMatchesLine
<1>1. Init => EchoInv
  BY DEF Init, EchoInv, InLine
<1>2. EchoInv => EchoMatchesLine
  <2> SUFFICES ASSUME EchoInv, InLine, con.echo, plain, Len(buf) <= Position,
                      NEW i \in DOMAIN buf
               PROVE  Cell(Position - Len(buf) + i - 1) = buf[i]
    BY DEF EchoMatchesLine
  <2>1. buf \in Seq(Shown) /\ Shows(tty, buf)
    BY DEF EchoInv, Echoed
  <2>2. i \in 1 .. Len(buf) /\ Position = At(tty)
    BY <2>1 DEF Position, At
  <2>3. On(tty, At(tty) - Len(buf) + i - 1) = buf[i]
    BY <2>1, <2>2 DEF Shows
  <2>4. QED
    BY <2>2, <2>3 DEF Cell, On
<1>3. ConsoleInv /\ EchoInv /\ [Next]_vars => EchoInv'
  BY EchoStep
<1>4. QED
  BY <1>1, <1>2, <1>3, ConsoleInvariant, PTL DEF Spec
---------------------------------------------------------------------------
(* Reading bytes *)

\* Who reads: at a place, with what was heard.
Readers == [at : {"line", "esc", "seq"}, text : Seq(Char)]

\* A byte.
LEMMA HearStays ==
  ASSUME NEW r \in Readers, NEW c \in Char
  PROVE  hear(r, c) \in Readers
<1>1. r.text \in Seq(Char) /\ Append(r.text, c) \in Seq(Char)
  BY DEF Readers
<1>2. hear(r, c).at \in {"line", "esc", "seq"}
  BY DEF hear
<1>3. hear(r, c).text \in Seq(Char)
  BY <1>1 DEF hear
<1>4. QED
  BY <1>2, <1>3 DEF hear, Readers

\* What is heard of a string, byte by byte.
LEMMA HearsRun ==
  ASSUME NEW r \in Readers, NEW s \in Seq(Char)
  PROVE  \E f : /\ f[0] = r /\ f[Len(s)] = hears(r, s)
                /\ \A i \in 1 .. Len(s) : f[i] = hear(f[i - 1], s[i])
                /\ \A i \in 0 .. Len(s) : f[i] \in Readers
<1> DEFINE n == Len(s)
           F == [p \in Readers \X (1 .. n) |-> hear(p[1], s[p[2]])]
           after[i \in 0 .. n] == IF i = 0 THEN r ELSE hear(after[i - 1], s[i])
<1>1. n \in Nat /\ \A i \in 1 .. n : s[i] \in Char
  OBVIOUS
<1> HIDE DEF n
<1>2. IsBody(F, Readers, n)
  BY <1>1, HearStays DEF IsBody
<1>3. \A x \in Readers, i \in 1 .. n : F[<<x, i>>] = hear(x, s[i])
  OBVIOUS
<1> HIDE DEF F
<1>4. PICK f \in [0 .. n -> Readers] : IsRun(f, F, r, n)
  BY <1>1, <1>2, RunExists
<1>5. f[0] = r /\ \A i \in 1 .. n : f[i] = F[<<f[i - 1], i>>]
  BY <1>4 DEF IsRun
<1>6. f = [i \in 0 .. n |-> IF i = 0 THEN r ELSE hear(f[i - 1], s[i])]
  <2>1. ASSUME NEW i \in 0 .. n
        PROVE  f[i] = IF i = 0 THEN r ELSE hear(f[i - 1], s[i])
    <3>1. CASE i = 0
      BY <1>5, <3>1
    <3>2. CASE i # 0
      <4>1. i \in 1 .. n /\ i - 1 \in 0 .. n
        BY <1>1, <3>2
      <4>2. QED
        BY <1>3, <1>5, <3>2, <4>1
    <3>3. QED
      BY <3>1, <3>2
  <2>2. QED
    BY <2>1
<1>7. after = [i \in 0 .. n |-> IF i = 0 THEN r ELSE hear(after[i - 1], s[i])]
  BY <1>6
<1>8. hears(r, s) = after[n]
  BY DEF hears, n
<1> HIDE DEF after
<1>9. after[0] = r /\ \A i \in 1 .. n : after[i] = hear(after[i - 1], s[i])
  <2>1. 0 \in 0 .. n /\ \A i \in 1 .. n : i \in 0 .. n /\ i # 0
    BY <1>1
  <2>2. QED
    BY <1>7, <2>1
<1>10. \A i \in 1 .. n : after[i - 1] \in Readers => after[i] \in Readers
  BY <1>1, <1>9, HearStays
<1>11. \A i \in 0 .. n : after[i] \in Readers
  BY <1>1, <1>9, <1>10, RunKeeps
<1>12. QED
  BY <1>8, <1>9, <1>11 DEF n

\* There is one way to read.
LEMMA HearsOnce ==
  ASSUME NEW r \in Readers, NEW s \in Seq(Char), NEW f, f[0] = r,
         \A i \in 1 .. Len(s) : f[i] = hear(f[i - 1], s[i])
  PROVE  f[Len(s)] = hears(r, s)
<1> DEFINE n == Len(s)
<1>1. PICK g : /\ g[0] = r /\ g[n] = hears(r, s)
               /\ \A i \in 1 .. n : g[i] = hear(g[i - 1], s[i])
  BY HearsRun
<1>2. n \in Nat /\ \A i \in 1 .. n : f[i] = hear(f[i - 1], s[i])
  OBVIOUS
<1> DEFINE h == [i \in 0 .. n |-> {f[i], g[i]}]
           S == {{x} : x \in {g[i] : i \in 0 .. n}}
<1> HIDE DEF n
<1>3. h[0] \in S
  <2>1. 0 \in 0 .. n
    BY <1>2
  <2>2. h[0] = {g[0]}
    BY <1>1, <2>1
  <2>3. QED
    BY <2>1, <2>2
<1>4. ASSUME NEW i \in 1 .. n, h[i - 1] \in S PROVE h[i] \in S
  <2>1. i \in 0 .. n /\ i - 1 \in 0 .. n
    BY <1>2
  <2>2. h[i - 1] = {f[i - 1], g[i - 1]} /\ h[i] = {f[i], g[i]}
    BY <2>1
  <2>3. f[i - 1] = g[i - 1]
    <3>1. PICK j \in 0 .. n : h[i - 1] = {g[j]}
      BY <1>4
    <3> HIDE DEF h
    <3>2. f[i - 1] \in {g[j]} /\ g[i - 1] \in {g[j]}
      BY <2>2, <3>1
    <3>3. QED
      BY <3>2
  <2>4. f[i] = g[i]
    BY <1>1, <1>2, <2>3
  <2>5. h[i] = {g[i]}
    BY <2>2, <2>4
  <2>6. QED
    BY <2>1, <2>5
<1>5. h[n] \in S
  <2> HIDE DEF h, S
  <2>1. \A i \in 0 .. n : h[i] \in S
    BY <1>2, <1>3, <1>4, RunKeeps
  <2>2. QED
    BY <1>2, <2>1
<1>6. h[n] = {f[n], g[n]}
  BY <1>2
<1>7. f[n] = g[n]
  BY <1>5, <1>6
<1>8. QED
  BY <1>1, <1>7 DEF n

\* What was heard is a reader's.
LEMMA HearsStays ==
  ASSUME NEW r \in Readers, NEW s \in Seq(Char)
  PROVE  hears(r, s) \in Readers
<1>1. PICK f : f[Len(s)] = hears(r, s) /\ \A i \in 0 .. Len(s) : f[i] \in Readers
  BY HearsRun
<1>2. Len(s) \in 0 .. Len(s)
  OBVIOUS
<1>3. QED
  BY <1>1, <1>2

\* One string after the other.
LEMMA HearsCat ==
  ASSUME NEW r \in Readers, NEW s \in Seq(Char), NEW t \in Seq(Char)
  PROVE  hears(r, s \o t) = hears(hears(r, s), t)
<1> DEFINE m == Len(s)
           n == Len(t)
           q == hears(r, s)
           st == s \o t
<1>1. q \in Readers
  BY HearsStays
<1>2. PICK f : f[0] = r /\ f[m] = q /\ \A i \in 1 .. m : f[i] = hear(f[i - 1], s[i])
  BY HearsRun
<1>3. PICK g : g[0] = q /\ g[n] = hears(q, t) /\ \A i \in 1 .. n : g[i] = hear(g[i - 1], t[i])
  BY <1>1, HearsRun
<1>4. /\ m \in Nat /\ n \in Nat /\ st \in Seq(Char) /\ Len(st) = m + n
      /\ \A i \in 1 .. m : st[i] = s[i]
      /\ \A i \in m + 1 .. m + n : st[i] = t[i - m]
  OBVIOUS
<1> HIDE DEF m, n, q, st
<1> DEFINE h == [i \in 0 .. m + n |-> IF i <= m THEN f[i] ELSE g[i - m]]
<1>5. ASSUME NEW i \in 1 .. m + n PROVE h[i] = hear(h[i - 1], st[i])
  <2>1. i \in 0 .. m + n /\ i - 1 \in 0 .. m + n
    BY <1>4
  <2>2. CASE i <= m
    <3>1. i \in 1 .. m /\ i - 1 <= m
      BY <1>4, <2>2
    <3>2. QED
      BY <1>2, <1>4, <2>1, <2>2, <3>1
  <2>3. CASE ~(i <= m)
    <3>1. i \in m + 1 .. m + n /\ i - m \in 1 .. n /\ i - 1 - m = i - m - 1
      BY <1>4, <2>3
    <3>2. h[i] = hear(g[i - m - 1], st[i])
      BY <1>3, <1>4, <2>1, <2>3, <3>1
    <3>3. h[i - 1] = g[i - m - 1]
      <4>1. CASE i - 1 <= m
        <5>1. i - 1 = m /\ i - m - 1 = 0
          BY <1>4, <2>3, <4>1
        <5>2. QED
          BY <1>2, <1>3, <2>1, <4>1, <5>1
      <4>2. CASE ~(i - 1 <= m)
        BY <2>1, <3>1, <4>2
      <4>3. QED
        BY <4>1, <4>2
    <3>4. QED
      BY <3>2, <3>3
  <2>4. QED
    BY <2>2, <2>3
<1>6. h[0] = r
  BY <1>2, <1>4
<1>7. h[m + n] = hears(q, t)
  <2>1. m + n \in 0 .. m + n /\ (m + n) - m = n
    BY <1>4
  <2>2. CASE n = 0
    <3>1. m + n = m /\ m <= m
      BY <1>4, <2>2
    <3>2. QED
      BY <1>2, <1>3, <2>1, <2>2, <3>1
  <2>3. CASE n # 0
    <3>1. ~(m + n <= m)
      BY <1>4, <2>3
    <3>2. QED
      BY <1>3, <2>1, <3>1
  <2>4. QED
    BY <2>2, <2>3
<1> HIDE DEF h
<1>8. h[Len(st)] = hears(r, st)
  <2>1. \A i \in 1 .. Len(st) : h[i] = hear(h[i - 1], st[i])
    BY <1>4, <1>5
  <2>2. QED
    BY <1>4, <1>6, <2>1, HearsOnce
<1>9. QED
  BY <1>4, <1>7, <1>8 DEF st, q

\* A string of one byte.
LEMMA HearsOne ==
  ASSUME NEW r \in Readers, NEW c \in Char
  PROVE  hears(r, <<c>>) = hear(r, c)
<1> DEFINE s == <<c>>
           f == [i \in 0 .. 1 |-> IF i = 0 THEN r ELSE hear(r, c)]
<1>1. s \in Seq(Char) /\ Len(s) = 1 /\ s[1] = c
  OBVIOUS
<1>2. f[0] = r /\ f[1] = hear(r, c)
  OBVIOUS
<1> HIDE DEF s, f
<1>3. \A i \in 1 .. Len(s) : f[i] = hear(f[i - 1], s[i])
  BY <1>1, <1>2
<1>4. f[Len(s)] = hears(r, s)
  BY <1>1, <1>2, <1>3, HearsOnce
<1>5. QED
  BY <1>1, <1>2, <1>4 DEF s

\* The empty string.
LEMMA HearsNone ==
  ASSUME NEW r \in Readers
  PROVE  hears(r, << >>) = r
<1> DEFINE s == << >>
<1>1. s \in Seq(Char) /\ Len(s) = 0
  OBVIOUS
<1> HIDE DEF s
<1>2. PICK f : /\ f[0] = r /\ f[Len(s)] = hears(r, s)
               /\ \A i \in 1 .. Len(s) : f[i] = hear(f[i - 1], s[i])
               /\ \A i \in 0 .. Len(s) : f[i] \in Readers
  BY <1>1, HearsRun, Zenon
<1>3. QED
  BY <1>1, <1>2 DEF s

\* Sequences of equal length with equal bytes.
LEMMA SameSeq ==
  ASSUME NEW x \in Seq(Char), NEW y \in Seq(Char), Len(x) = Len(y),
         \A i \in 1 .. Len(x) : x[i] = y[i]
  PROVE  x = y
<1> DEFINE n == Len(x)
<1>1. x \in [1 .. n -> Char] /\ y \in [1 .. n -> Char]
  OBVIOUS
<1>2. \A i \in 1 .. n : x[i] = y[i]
  OBVIOUS
<1> HIDE DEF n
<1>3. x = [i \in 1 .. n |-> x[i]] /\ y = [i \in 1 .. n |-> y[i]]
  BY <1>1
<1>4. [i \in 1 .. n |-> x[i]] = [i \in 1 .. n |-> y[i]]
  BY <1>2
<1>5. QED
  BY <1>3, <1>4

\* Appending to a concatenation.
LEMMA CatAppend ==
  ASSUME NEW a \in Seq(Char), NEW b \in Seq(Char), NEW c \in Char
  PROVE  Append(a \o b, c) = a \o Append(b, c)
<1> DEFINE x == Append(a \o b, c)
           y == a \o Append(b, c)
           n == Len(a) + Len(b) + 1
<1>1. x \in Seq(Char) /\ y \in Seq(Char) /\ Len(x) = n /\ Len(y) = n /\ n \in Nat
  OBVIOUS
<1>2. ASSUME NEW i \in 1 .. n PROVE x[i] = y[i]
  <2>1. CASE i = n
    BY <2>1
  <2>2. CASE i # n /\ i <= Len(a)
    BY <2>2
  <2>3. CASE i # n /\ i > Len(a)
    BY <2>3
  <2>4. QED
    BY <2>1, <2>2, <2>3
<1> HIDE DEF x, y, n
<1>3. x = y
  BY <1>1, <1>2, SameSeq
<1>4. QED
  BY <1>3 DEF x, y

\* Concatenation is associative.
LEMMA CatAssoc ==
  ASSUME NEW a \in Seq(Char), NEW b \in Seq(Char), NEW c \in Seq(Char)
  PROVE  (a \o b) \o c = a \o (b \o c)
<1> DEFINE x == (a \o b) \o c
           y == a \o (b \o c)
           n == Len(a) + Len(b) + Len(c)
<1>1. x \in Seq(Char) /\ y \in Seq(Char) /\ Len(x) = n /\ Len(y) = n /\ n \in Nat
  OBVIOUS
<1>2. ASSUME NEW i \in 1 .. n PROVE x[i] = y[i]
  <2>1. CASE i <= Len(a)
    BY <2>1
  <2>2. CASE i > Len(a) /\ i <= Len(a) + Len(b)
    BY <2>2
  <2>3. CASE i > Len(a) + Len(b)
    BY <2>3
  <2>4. QED
    BY <2>1, <2>2, <2>3
<1> HIDE DEF x, y, n
<1>3. x = y
  BY <1>1, <1>2, SameSeq
<1>4. QED
  BY <1>3 DEF x, y

\* What was heard before comes first and makes no difference.
LEMMA HearsAfter ==
  ASSUME NEW t \in Seq(Char), NEW r \in Readers, NEW s \in Seq(Char)
  PROVE  hears([at |-> r.at, text |-> t \o r.text], s)
           = [at |-> hears(r, s).at, text |-> t \o hears(r, s).text]
<1> DEFINE n == Len(s)
           behind(x) == [at |-> x.at, text |-> t \o x.text]
<1>1. n \in Nat /\ \A i \in 1 .. n : s[i] \in Char
  OBVIOUS
<1>2. PICK f : /\ f[0] = r /\ f[n] = hears(r, s)
               /\ \A i \in 1 .. n : f[i] = hear(f[i - 1], s[i])
               /\ \A i \in 0 .. n : f[i] \in Readers
  BY HearsRun
<1> HIDE DEF n
<1>3. ASSUME NEW x \in Readers
      PROVE  behind(x) \in Readers /\ x.text \in Seq(Char)
  <2>1. x.text \in Seq(Char) /\ x.at \in {"line", "esc", "seq"}
    BY DEF Readers
  <2>2. t \o x.text \in Seq(Char)
    BY <2>1
  <2>3. QED
    BY <2>1, <2>2 DEF Readers
<1> HIDE DEF behind
<1>4. ASSUME NEW x \in Readers, NEW c \in Char
      PROVE  hear(behind(x), c) = behind(hear(x, c))
  <2> DEFINE y == behind(x)
  <2>1. y.at = x.at /\ y.text = t \o x.text /\ x.text \in Seq(Char)
    BY <1>3 DEF behind
  <2>2. Append(t \o x.text, c) = t \o Append(x.text, c)
    BY <2>1, CatAppend
  <2> HIDE DEF y
  <2>3. hear(y, c).at = hear(x, c).at
    BY <2>1 DEF hear
  <2>4. hear(y, c).text = t \o hear(x, c).text
    BY <2>1, <2>2 DEF hear
  <2>5. hear(y, c) = [at |-> hear(y, c).at, text |-> hear(y, c).text]
    BY DEF hear
  <2>6. behind(hear(x, c)) = [at |-> hear(x, c).at, text |-> t \o hear(x, c).text]
    BY DEF behind
  <2>7. QED
    BY <2>3, <2>4, <2>5, <2>6 DEF y
<1> DEFINE g == [i \in 0 .. n |-> behind(f[i])]
<1>5. g[0] = behind(r) /\ g[n] = behind(hears(r, s))
  <2>1. 0 \in 0 .. n /\ n \in 0 .. n
    BY <1>1
  <2>2. g[0] = behind(f[0]) /\ g[n] = behind(f[n])
    BY <2>1
  <2>3. QED
    BY <1>2, <2>2
<1>6. ASSUME NEW i \in 1 .. n PROVE g[i] = hear(g[i - 1], s[i])
  <2>1. i \in 0 .. n /\ i - 1 \in 0 .. n
    BY <1>1
  <2>2. g[i] = behind(f[i]) /\ g[i - 1] = behind(f[i - 1])
    BY <2>1
  <2> HIDE DEF g
  <2>3. QED
    BY <1>1, <1>2, <1>4, <2>1, <2>2
<1> HIDE DEF g
<1>7. g[n] = hears(behind(r), s)
  <2>1. behind(r) \in Readers
    BY <1>3
  <2>2. QED
    BY <1>5, <1>6, <2>1, HearsOnce DEF n
<1>8. QED
  BY <1>5, <1>7 DEF behind
---------------------------------------------------------------------------
(* What is heard of a key *)

\* The bytes that end a sequence, and those inside it.
Final == {c \in Char : IsLetter(c) \/ c = 126}
Inner == Char \ Final

\* What a key sends: nothing, a character, Alt and a character, or a sequence; or
\* what looks like part of one.
Sends(s) ==
  \/ s = << >>
  \/ \E c \in Char \ {ESC} : s = <<c>>
  \/ \E c \in Char \ {91, 79} : s = <<ESC>> \o <<c>>
  \/ \E m \in Seq(Inner), f \in Final : s = (CSI \o m) \o <<f>>
  \/ s \in Ambiguous

\* The beginning of a sequence is two characters.
LEMMA CharFact ==
  /\ ESC \in Char /\ 91 \in Char /\ CSI = <<ESC>> \o <<91>>
  /\ CSI \in Seq(Char) /\ <<ESC>> \in Seq(Char) /\ <<91>> \in Seq(Char)
  /\ Seq(Inner) \subseteq Seq(Char)
<1>1. ESC \in Char /\ 91 \in Char
  BY DEF ESC, Char
<1>2. CSI = <<ESC>> \o <<91>>
  BY DEF CSI
<1>3. CSI \in Seq(Char) /\ <<ESC>> \in Seq(Char) /\ <<91>> \in Seq(Char)
  BY <1>1 DEF CSI
<1>4. Inner \subseteq Char
  BY DEF Inner
<1>5. Seq(Inner) \subseteq Seq(Char)
  BY <1>4
<1>6. QED
  BY <1>1, <1>2, <1>3, <1>5

\* The inside of a sequence is swallowed.
LEMMA InnerHeard ==
  ASSUME NEW r \in Readers, r.at = "seq", NEW m \in Seq(Inner)
  PROVE  hears(r, m) = r
<1> DEFINE n == Len(m)
<1>1. m \in Seq(Char) /\ n \in Nat /\ \A i \in 1 .. n : m[i] \in Inner
  <2>1. n \in Nat /\ \A i \in 1 .. n : m[i] \in Inner
    OBVIOUS
  <2>2. QED
    BY <2>1, CharFact
<1>2. PICK f : /\ f[0] = r /\ f[n] = hears(r, m)
               /\ \A i \in 1 .. n : f[i] = hear(f[i - 1], m[i])
  BY <1>1, HearsRun
<1> HIDE DEF n
<1>3. ASSUME NEW c \in Inner PROVE hear(r, c) = r
  <2>1. ~(IsLetter(c) \/ c = 126)
    BY DEF Inner, Final
  <2>2. hear(r, c) = [at |-> "seq", text |-> r.text]
    BY <2>1 DEF hear
  <2>3. r = [at |-> r.at, text |-> r.text]
    BY DEF Readers
  <2>4. QED
    BY <2>2, <2>3
<1> DEFINE S == {r}
<1>4. \A i \in 1 .. n : f[i - 1] \in S => f[i] \in S
  BY <1>1, <1>2, <1>3
<1>5. f[0] \in S
  BY <1>2
<1>6. \A i \in 0 .. n : f[i] \in S
  <2> HIDE DEF S
  <2>1. QED
    BY <1>1, <1>4, <1>5, RunKeeps
<1>7. QED
  BY <1>1, <1>2, <1>6

\* A reader between two keys is between two keys afterwards, and has heard
\* at most one character more.
LEMMA KeyHeard ==
  ASSUME NEW r \in Readers, r.at = "line", NEW s, Sends(s), s \notin Ambiguous
  PROVE  /\ s \in Seq(Char) /\ hears(r, s).at = "line"
         /\ \/ hears(r, s).text = r.text
            \/ \E c \in Char : hears(r, s).text = Append(r.text, c)
<1>1. CASE s = << >>
  <2>1. hears(r, s) = r
    BY <1>1, HearsNone
  <2>2. s \in Seq(Char)
    BY <1>1
  <2>3. QED
    BY <2>1, <2>2
<1>2. ASSUME NEW c \in Char \ {ESC}, s = <<c>>
      PROVE  s \in Seq(Char) /\ hears(r, s).at = "line" /\ hears(r, s).text = Append(r.text, c)
  <2>1. hears(r, s) = hear(r, c)
    BY <1>2, HearsOne
  <2>2. hear(r, c).at = "line" /\ hear(r, c).text = Append(r.text, c)
    BY DEF hear
  <2>3. s \in Seq(Char)
    BY <1>2
  <2>4. QED
    BY <2>1, <2>2, <2>3
<1>3. hear(r, ESC) = [r EXCEPT !.at = "esc"]
  BY DEF hear, Readers
<1> DEFINE q == [r EXCEPT !.at = "esc"]
<1>4. q \in Readers /\ q.at = "esc" /\ q.text = r.text /\ hears(r, <<ESC>>) = q
  <2>1. q \in Readers /\ q.at = "esc" /\ q.text = r.text
    BY DEF Readers
  <2>2. hears(r, <<ESC>>) = q
    BY <1>3, CharFact, HearsOne
  <2>3. QED
    BY <2>1, <2>2
<1> HIDE DEF q
<1>5. ASSUME NEW c \in Char \ {91, 79}, s = <<ESC>> \o <<c>>
      PROVE  s \in Seq(Char) /\ hears(r, s).at = "line" /\ hears(r, s).text = r.text
  <2>1. <<ESC>> \in Seq(Char) /\ <<c>> \in Seq(Char)
    BY CharFact
  <2>2. hears(r, s) = hears(q, <<c>>)
    BY <1>4, <1>5, <2>1, HearsCat
  <2>3. hears(q, <<c>>) = hear(q, c)
    BY <1>4, HearsOne
  <2>4. hear(q, c).at = "line" /\ hear(q, c).text = r.text
    BY <1>4 DEF hear
  <2>5. s \in Seq(Char)
    BY <1>5, <2>1
  <2>6. QED
    BY <2>2, <2>3, <2>4, <2>5
<1>6. ASSUME NEW m \in Seq(Inner), NEW f \in Final, s = (CSI \o m) \o <<f>>
      PROVE  s \in Seq(Char) /\ hears(r, s).at = "line" /\ hears(r, s).text = r.text
  <2> DEFINE p == hear(q, 91)
  <2>1. p.at = "seq" /\ p.text = r.text
    BY <1>4 DEF hear
  <2>2. p \in Readers
    BY <1>4, CharFact, HearStays
  <2>3. f \in Char /\ (IsLetter(f) \/ f = 126)
    BY DEF Final
  <2>4. hears(q, <<91>>) = p
    BY <1>4, CharFact, HearsOne
  <2>5. hears(r, CSI) = p
    <3>1. hears(r, <<ESC>> \o <<91>>) = hears(hears(r, <<ESC>>), <<91>>)
      <4> DEFINE a == <<ESC>>
                 b == <<91>>
      <4>1. a \in Seq(Char) /\ b \in Seq(Char)
        BY CharFact
      <4>2. hears(r, a \o b) = hears(hears(r, a), b)
        <5> HIDE DEF a, b
        <5>1. QED
          BY <4>1, HearsCat
      <4>3. QED
        BY <4>2
    <3>2. QED
      BY <1>4, <2>4, <3>1, CharFact
  <2> HIDE DEF p
  <2>6. m \in Seq(Char) /\ CSI \o m \in Seq(Char) /\ <<f>> \in Seq(Char)
    BY <2>3, CharFact
  <2>7. hears(r, CSI \o m) = p
    <3>1. hears(r, CSI \o m) = hears(p, m)
      <4>1. hears(r, CSI \o m) = hears(hears(r, CSI), m)
        <5>1. CSI \in Seq(Char)
          BY CharFact
        <5>2. QED
          BY <2>6, <5>1, HearsCat
      <4>2. QED
        BY <2>5, <4>1
    <3>2. QED
      BY <2>1, <2>2, <3>1, InnerHeard
  <2>8. hears(r, s) = hears(p, <<f>>)
    BY <1>6, <2>6, <2>7, HearsCat
  <2>9. hears(p, <<f>>) = hear(p, f)
    BY <2>2, <2>3, HearsOne
  <2>10. hear(p, f).at = "line" /\ hear(p, f).text = r.text
    BY <2>1, <2>3 DEF hear
  <2>11. s \in Seq(Char)
    BY <1>6, <2>6
  <2>12. QED
    BY <2>8, <2>9, <2>10, <2>11
<1>7. QED
  BY <1>1, <1>2, <1>5, <1>6, Zenon DEF Sends

\* A character, alone and with Alt.
LEMMA CharSends ==
  ASSUME NEW c \in Char
  PROVE  Sends(<<c>>) /\ Sends(<<ESC, c>>)
<1>1. Sends(<<c>>)
  BY Zenon DEF Sends, Ambiguous
<1>2. <<ESC, c>> = <<ESC>> \o <<c>>
  OBVIOUS
<1>3. c \in {91, 79} => <<ESC, c>> \in Ambiguous
  BY DEF Ambiguous, CSI
<1>4. Sends(<<ESC, c>>)
  BY <1>2, <1>3, Zenon DEF Sends
<1>5. QED
  BY <1>1, <1>4

\* The bytes that the navigation keys send inside and at the end of a sequence.
LEMMA FinalFact ==
  /\ {48, 49, 50, 51, 52, 53, 54, 55, 56, 57, 59} \subseteq Inner
  /\ {65, 66, 67, 68, 70, 72, 90, 126} \subseteq Final
BY DEF Inner, Final, Char, IsLetter, IsLower, IsUpper

\* handle_nav_key sends whole sequences.
LEMMA NavSends ==
  ASSUME NEW k \in Nav
  PROVE  Sends(handle_nav_key(k))
<1>1. /\ <<49, 59, 53>> \in Seq(Inner) /\ <<49, 59, 51>> \in Seq(Inner)
      /\ << >> \in Seq(Inner)
  BY FinalFact
<1>2. \A m \in Seq(Inner), f \in Final : Sends(CSI \o m \o <<f>>)
  BY Zenon DEF Sends
<1>3. CASE k \in DOMAIN Arrow
  <2> DEFINE m == IF ctrl_down THEN <<49, 59, 53>> ELSE IF alt_down THEN <<49, 59, 51>> ELSE << >>
  <2>1. Arrow[k] \in Final
    BY <1>3, FinalFact DEF Arrow
  <2>2. k \notin DOMAIN HomeEnd /\ k \notin DOMAIN Paging
    BY <1>3 DEF Arrow, HomeEnd, Paging
  <2>3. handle_nav_key(k) = CSI \o m \o <<Arrow[k]>>
    BY <1>3, <2>2 DEF handle_nav_key
  <2>4. m \in Seq(Inner)
    BY <1>1
  <2> HIDE DEF m
  <2>5. QED
    BY <1>2, <2>1, <2>3, <2>4
<1>4. CASE k \in DOMAIN HomeEnd
  <2> DEFINE m == IF ctrl_down THEN <<49, 59, 53>> ELSE << >>
  <2>1. HomeEnd[k] \in Final
    BY <1>4, FinalFact DEF HomeEnd
  <2>2. k \notin DOMAIN Arrow /\ k \notin DOMAIN Paging
    BY <1>4 DEF Arrow, HomeEnd, Paging
  <2>3. handle_nav_key(k) = CSI \o m \o <<HomeEnd[k]>>
    BY <1>4, <2>2 DEF handle_nav_key
  <2>4. m \in Seq(Inner)
    BY <1>1
  <2> HIDE DEF m
  <2>5. QED
    BY <1>2, <2>1, <2>3, <2>4
<1>5. CASE k \in DOMAIN Paging
  <2> DEFINE e == IF ctrl_down /\ k # 82 THEN <<59, 53>> ELSE << >>
             d == Paging[k]
             m == <<d>> \o e
  <2>1. d \in Inner /\ 126 \in Final
    BY <1>5, FinalFact DEF Paging
  <2>2. k \notin DOMAIN Arrow /\ k \notin DOMAIN HomeEnd
    BY <1>5 DEF Arrow, HomeEnd, Paging
  <2>3. handle_nav_key(k) = CSI \o <<d>> \o e \o <<126>>
    BY <1>5, <2>2 DEF handle_nav_key
  <2> HIDE DEF d
  <2>4. e = <<59, 53>> \/ e = << >>
    OBVIOUS
  <2> HIDE DEF e
  <2>5. m \in Seq(Inner) /\ CSI \o <<d>> \o e = CSI \o m
    <3>1. <<d>> \in Seq(Inner) /\ e \in Seq(Inner)
      <4>1. 59 \in Inner /\ 53 \in Inner
        BY FinalFact
      <4>2. << >> \in Seq(Inner) /\ <<59, 53>> \in Seq(Inner) /\ <<d>> \in Seq(Inner)
        BY <2>1, <4>1
      <4>3. QED
        BY <2>4, <4>2
    <3>2. <<d>> \in Seq(Char) /\ e \in Seq(Char)
      BY <3>1, CharFact
    <3>3. CSI \in Seq(Char)
      BY CharFact
    <3> DEFINE v == <<d>>
    <3>4. v \in Seq(Inner) /\ v \in Seq(Char)
      BY <3>1, <3>2
    <3> HIDE DEF v
    <3>5. (CSI \o v) \o e = CSI \o (v \o e)
      BY <3>2, <3>3, <3>4, CatAssoc
    <3>6. v \o e \in Seq(Inner)
      BY <3>1, <3>4
    <3>7. QED
      BY <3>5, <3>6 DEF v
  <2> HIDE DEF m
  <2>6. QED
    BY <1>2, <2>1, <2>3, <2>5
<1>6. QED
  BY <1>3, <1>4, <1>5 DEF Nav

\* Every key sends nothing, a character, Alt and a character, or a whole sequence,
\* the ambiguous ones aside.
LEMMA KeySends ==
  ASSUME NEW k \in 1 .. 127
  PROVE  Sends(KeyBytes(k)) /\ Sends(ExtBytes(k)) /\ Sends(<< >>)
<1> DEFINE c == KeyChar(k)
           x == CtrlChar(k, c)
<1>1. c \in Char
  BY KeyCharFact
<1> HIDE DEF c
<1>2. x # -1 => x \in Char
  BY <1>1, CtrlCharFact
<1> HIDE DEF x
<1>3. k \in Nav => Sends(handle_nav_key(k))
  BY NavSends
<1>4. Sends(<<45>>) /\ Sends(<<43>>) /\ Sends(<<9>>) /\ Sends(<<LF>>) /\ Sends(<<47>>)
  <2>1. 45 \in Char /\ 43 \in Char /\ 9 \in Char /\ LF \in Char /\ 47 \in Char
    BY DEF Char, LF
  <2>2. QED
    BY <2>1, CharSends
<1>5. Sends(CSI \o <<90>>)
  <2>1. << >> \in Seq(Inner) /\ 90 \in Final
    BY FinalFact
  <2>2. CSI \o << >> = CSI
    BY DEF CSI
  <2>3. Sends((CSI \o << >>) \o <<90>>)
    BY <2>1, Zenon DEF Sends
  <2>4. QED
    BY <2>2, <2>3
<1>6. Sends(<<c>>) /\ Sends(<<ESC, c>>) /\ (x # -1 => Sends(<<x>>)) /\ Sends(<< >>)
  BY <1>1, <1>2, CharSends DEF Sends
<1>7. Sends(KeyBytes(k))
  <2> DEFINE other == IF c = 0 THEN << >>
                      ELSE IF ctrl_down /\ x # -1 THEN <<x>>
                      ELSE IF alt_down THEN <<ESC, c>> ELSE <<c>>
             tabs == IF shift_down THEN CSI \o <<90>> ELSE <<9>>
  <2>1. Sends(other) /\ Sends(tabs)
    BY <1>4, <1>5, <1>6
  <2>2. KeyBytes(k) = CASE k \in Nav -> handle_nav_key(k) [] k = 74 -> <<45>>
                        [] k = 78 -> <<43>> [] k = TAB -> tabs [] OTHER -> other
    BY DEF KeyBytes, c, x
  <2> HIDE DEF other, tabs
  <2>3. k \in Nav => k # 74 /\ k # 78 /\ k # TAB
    BY DEF Nav, Arrow, HomeEnd, Paging, TAB
  <2>4. QED
    BY <1>3, <1>4, <2>1, <2>2, <2>3 DEF TAB
<1>8. Sends(ExtBytes(k))
  <2>1. k \in Nav => k # ENTER /\ k # SLASH
    BY DEF Nav, Arrow, HomeEnd, Paging, ENTER, SLASH
  <2>2. QED
    BY <1>3, <1>4, <1>6, <2>1 DEF ExtBytes, ENTER, SLASH
<1>9. QED
  BY <1>6, <1>7, <1>8
---------------------------------------------------------------------------
(* The bytes of a ring *)

\* The bytes between tail and head, how many there are and where the i-th is.
Ring(b, h, t) == [i \in 1 .. (h - t + KEYBUF) % KEYBUF |-> b[(t + i - 1) % KEYBUF]]
Dist(h, t) == IF h >= t THEN h - t ELSE h - t + KEYBUF
Place(t, i) == IF t + i - 1 < KEYBUF THEN t + i - 1 ELSE t + i - 1 - KEYBUF

\* Indices wrap once.
LEMMA ModFact ==
  ASSUME NEW x \in Nat, x < 2 * KEYBUF
  PROVE  x % KEYBUF = IF x < KEYBUF THEN x ELSE x - KEYBUF
<1>1. KEYBUF \in Nat \ {0}
  BY KeyboardAssumption
<1>2. CASE x < KEYBUF
  BY <1>1, <1>2, Wraps
<1>3. CASE ~(x < KEYBUF)
  <2>1. KEYBUF <= x
    BY <1>1, <1>3
  <2>2. QED
    BY <1>1, <1>3, <2>1, Wraps
<1>4. QED
  BY <1>2, <1>3

\* The slots of the ring.
LEMMA SlotFact ==
  /\ KEYBUF \in Nat /\ KEYBUF > 1
  /\ \A h \in Slots : h \in Nat /\ h < KEYBUF
  /\ \A h \in Nat : h < KEYBUF => h \in Slots
BY KeyboardAssumption DEF Slots

\* The length of a ring and where its bytes are.
LEMMA RingBytes ==
  ASSUME NEW b \in [Slots -> Char], NEW h \in Slots, NEW t \in Slots
  PROVE  /\ Dist(h, t) \in Nat /\ Dist(h, t) < KEYBUF
         /\ (h - t + KEYBUF) % KEYBUF = Dist(h, t)
         /\ Ring(b, h, t) \in Seq(Char) /\ Len(Ring(b, h, t)) = Dist(h, t)
         /\ \A i \in 1 .. Dist(h, t) : Ring(b, h, t)[i] = b[Place(t, i)] /\ Place(t, i) \in Slots
<1> DEFINE n == (h - t + KEYBUF) % KEYBUF
           d == Dist(h, t)
<1>1. KEYBUF \in Nat /\ KEYBUF > 1 /\ h \in Nat /\ h < KEYBUF /\ t \in Nat /\ t < KEYBUF
  BY SlotFact
<1>2. d \in Nat /\ d < KEYBUF
  BY <1>1 DEF Dist
<1>3. n = d
  <2> DEFINE v == h - t + KEYBUF
  <2>1. v \in Nat /\ v < 2 * KEYBUF
    BY <1>1
  <2> HIDE DEF v
  <2>2. v % KEYBUF = IF v < KEYBUF THEN v ELSE v - KEYBUF
    BY <2>1, ModFact
  <2>3. (IF v < KEYBUF THEN v ELSE v - KEYBUF) = d
    BY <1>1 DEF Dist, v
  <2>4. QED
    BY <2>2, <2>3 DEF v
<1>4. Ring(b, h, t) = [i \in 1 .. n |-> b[(t + i - 1) % KEYBUF]]
  BY DEF Ring
<1> HIDE DEF n, d
<1>5. ASSUME NEW i \in 1 .. d PROVE (t + i - 1) % KEYBUF = Place(t, i) /\ Place(t, i) \in Slots
  <2> DEFINE v == t + i - 1
  <2>1. v \in Nat /\ v < 2 * KEYBUF /\ Place(t, i) = IF v < KEYBUF THEN v ELSE v - KEYBUF
    BY <1>1, <1>2 DEF Place
  <2> HIDE DEF v
  <2>a. v % KEYBUF = IF v < KEYBUF THEN v ELSE v - KEYBUF
    BY <2>1, ModFact
  <2>2. (t + i - 1) % KEYBUF = Place(t, i)
    BY <2>1, <2>a DEF v
  <2>3. Place(t, i) \in Nat /\ Place(t, i) < KEYBUF
    BY <1>1, <2>1
  <2>4. QED
    BY <2>2, <2>3, SlotFact
<1>6. Ring(b, h, t) = [i \in 1 .. d |-> b[Place(t, i)]]
  BY <1>3, <1>4, <1>5
<1>7. \A i \in 1 .. d : b[Place(t, i)] \in Char
  BY <1>5
<1>8. Ring(b, h, t) \in Seq(Char) /\ Len(Ring(b, h, t)) = d
  BY <1>2, <1>6, <1>7
<1>9. \A i \in 1 .. d : Ring(b, h, t)[i] = b[Place(t, i)] /\ Place(t, i) \in Slots
  BY <1>5, <1>6
<1>10. QED
  BY <1>2, <1>3, <1>8, <1>9 DEF d, n

\* Taking a byte takes the first.
LEMMA RingTakes ==
  ASSUME NEW b \in [Slots -> Char], NEW h \in Slots, NEW t \in Slots, h # t
  PROVE  LET u == (t + 1) % KEYBUF
         IN  /\ u \in Slots /\ b[t] \in Char
             /\ Ring(b, h, t) = <<b[t]>> \o Ring(b, h, u)
<1> DEFINE u == (t + 1) % KEYBUF
           d == Dist(h, t)
           e == Dist(h, u)
           x == Ring(b, h, t)
           y == Ring(b, h, u)
           z == <<b[t]>> \o y
<1>1. KEYBUF \in Nat /\ KEYBUF > 1 /\ h \in Nat /\ h < KEYBUF /\ t \in Nat /\ t < KEYBUF
  BY SlotFact
<1>2. u = IF t + 1 < KEYBUF THEN t + 1 ELSE 0
  <2> DEFINE v == t + 1
  <2>1. v \in Nat /\ v < 2 * KEYBUF
    BY <1>1
  <2> HIDE DEF v
  <2>2. v % KEYBUF = IF v < KEYBUF THEN v ELSE v - KEYBUF
    BY <2>1, ModFact
  <2>3. (IF v < KEYBUF THEN v ELSE v - KEYBUF) = IF t + 1 < KEYBUF THEN t + 1 ELSE 0
    BY <1>1 DEF v
  <2>4. QED
    BY <2>2, <2>3 DEF v
<1> HIDE DEF u
<1>3. u \in Slots /\ b[t] \in Char
  <2>1. u \in Nat /\ u < KEYBUF
    BY <1>1, <1>2
  <2>2. QED
    BY <2>1, SlotFact
<1>4. /\ d \in Nat /\ x \in Seq(Char) /\ Len(x) = d /\ d < KEYBUF
      /\ \A i \in 1 .. d : x[i] = b[Place(t, i)]
  BY RingBytes
<1>5. /\ e \in Nat /\ y \in Seq(Char) /\ Len(y) = e
      /\ \A i \in 1 .. e : y[i] = b[Place(u, i)]
  BY <1>3, RingBytes
<1>6. d = e + 1
  BY <1>1, <1>2 DEF Dist
<1> HIDE DEF x, y, d, e
<1>7. /\ z \in Seq(Char) /\ Len(z) = d /\ z[1] = b[t]
      /\ \A i \in 2 .. d : z[i] = y[i - 1]
  BY <1>3, <1>4, <1>5, <1>6
<1>8. ASSUME NEW i \in 1 .. d PROVE x[i] = z[i]
  <2>1. CASE i = 1
    <3>1. Place(t, 1) = t
      BY <1>1 DEF Place
    <3>2. QED
      BY <1>4, <1>7, <2>1, <3>1
  <2>2. CASE i # 1
    <3>1. i \in 2 .. d /\ i - 1 \in 1 .. e
      BY <1>4, <1>5, <1>6, <2>2
    <3>2. Place(u, i - 1) = Place(t, i)
      BY <1>1, <1>2, <1>4, <1>5, <1>6, <3>1 DEF Place
    <3>3. QED
      BY <1>4, <1>5, <1>7, <3>1, <3>2
  <2>3. QED
    BY <2>1, <2>2
<1>9. x = z
  <2> HIDE DEF z
  <2>1. QED
    BY <1>4, <1>7, <1>8, SameSeq
<1>10. QED
  BY <1>3, <1>9 DEF x, y, u

\* A byte that finds room is the last.
LEMMA RingQueues ==
  ASSUME buffer_tail \in Slots, NEW r \in Rings, NEW c \in Char,
         Dist(r.head, buffer_tail) + 1 < KEYBUF
  PROVE  LET q == queue_char(r, c)
         IN  /\ q \in Rings
             /\ Dist(q.head, buffer_tail) = Dist(r.head, buffer_tail) + 1
             /\ Ring(q.buf, q.head, buffer_tail) = Append(Ring(r.buf, r.head, buffer_tail), c)
<1> DEFINE t == buffer_tail
           h == r.head
           b == r.buf
           k == (h + 1) % KEYBUF
           a == [b EXCEPT ![h] = c]
           d == Dist(h, t)
           e == Dist(k, t)
           x == Ring(a, k, t)
           y == Ring(b, h, t)
           z == Append(y, c)
<1>1. h \in Slots /\ b \in [Slots -> Char] /\ t \in Slots
  BY DEF Rings
<1>2. KEYBUF \in Nat /\ KEYBUF > 1 /\ h \in Nat /\ h < KEYBUF /\ t \in Nat /\ t < KEYBUF
  BY <1>1, SlotFact
<1>3. k = IF h + 1 < KEYBUF THEN h + 1 ELSE 0
  <2> HIDE DEF h
  <2> DEFINE v == h + 1
  <2>1. v \in Nat /\ v < 2 * KEYBUF
    BY <1>2
  <2> HIDE DEF v
  <2>2. v % KEYBUF = IF v < KEYBUF THEN v ELSE v - KEYBUF
    BY <2>1, ModFact
  <2>3. (IF v < KEYBUF THEN v ELSE v - KEYBUF) = IF h + 1 < KEYBUF THEN h + 1 ELSE 0
    BY <1>2 DEF v
  <2>4. QED
    BY <2>2, <2>3 DEF v
<1>4. d + 1 < KEYBUF
  OBVIOUS
<1>5. queue_char(r, c) = IF k = t THEN r ELSE [buf |-> a, head |-> k]
  BY DEF queue_char
<1> HIDE DEF k, h, b, t
<1>6. k # t /\ e = d + 1
  BY <1>2, <1>3, <1>4 DEF Dist
<1>7. k \in Slots /\ a \in [Slots -> Char] /\ \A i \in Slots : a[i] = IF i = h THEN c ELSE b[i]
  <2>1. k \in Nat /\ k < KEYBUF
    BY <1>2, <1>3
  <2>2. k \in Slots
    BY <2>1, SlotFact
  <2>3. QED
    BY <1>1, <2>2
<1> HIDE DEF a
<1>8. /\ e \in Nat /\ x \in Seq(Char) /\ Len(x) = e
      /\ \A i \in 1 .. e : x[i] = a[Place(t, i)] /\ Place(t, i) \in Slots
  BY <1>1, <1>7, RingBytes
<1>9. /\ d \in Nat /\ y \in Seq(Char) /\ Len(y) = d
      /\ \A i \in 1 .. d : y[i] = b[Place(t, i)]
  BY <1>1, RingBytes
<1> HIDE DEF x, y
<1>10. z \in Seq(Char) /\ Len(z) = d + 1 /\ z[d + 1] = c /\ \A i \in 1 .. d : z[i] = y[i]
  BY <1>9
<1>11. Place(t, d + 1) = h
  BY <1>2, <1>9 DEF Dist, Place
<1>12. ASSUME NEW i \in 1 .. d PROVE Place(t, i) # h
  BY <1>2, <1>4, <1>9 DEF Dist, Place
<1> HIDE DEF d, e, z
<1>13. ASSUME NEW i \in 1 .. e PROVE x[i] = z[i]
  <2>1. CASE i = d + 1
    <3>1. x[i] = a[h]
      BY <1>8, <1>11, <2>1
    <3>2. QED
      BY <1>1, <1>7, <1>10, <2>1, <3>1
  <2>2. CASE i # d + 1
    <3>1. i \in 1 .. d
      BY <1>6, <1>9, <2>2
    <3>2. QED
      BY <1>7, <1>8, <1>9, <1>10, <1>12, <3>1
  <2>3. QED
    BY <2>1, <2>2
<1>14. x = z
  BY <1>6, <1>8, <1>10, <1>13, SameSeq
<1> DEFINE q == [buf |-> a, head |-> k]
<1>15. q \in Rings /\ q.buf = a /\ q.head = k
  BY <1>7 DEF Rings
<1>16. queue_char(r, c) = q
  BY <1>5, <1>6
<1>17. Dist(q.head, t) = Dist(h, t) + 1 /\ Ring(q.buf, q.head, t) = Append(Ring(b, h, t), c)
  BY <1>6, <1>14, <1>15 DEF d, e, x, y, z
<1> HIDE DEF q
<1>18. QED
  BY <1>15, <1>16, <1>17 DEF t, h, b

\* The bytes that wait are the ring's.
LEMMA WaitRing ==
  /\ Waiting = Ring(key_buffer, buffer_head, buffer_tail)
  /\ Waiting' = Ring(key_buffer', buffer_head', buffer_tail')
BY DEF Waiting, keyboard_available, Ring

\* keyboard_available counts the bytes that wait.
LEMMA WaitFact ==
  ASSUME RingOK
  PROVE  Waiting \in Seq(Char) /\ Len(Waiting) = keyboard_available
                               /\ keyboard_available = Dist(buffer_head, buffer_tail)
<1>1. key_buffer \in [Slots -> Char] /\ buffer_head \in Slots /\ buffer_tail \in Slots
  BY DEF RingOK
<1>2. keyboard_available = Dist(buffer_head, buffer_tail)
  BY <1>1, RingBytes DEF keyboard_available
<1>3. QED
  BY <1>1, <1>2, WaitRing, RingBytes

\* getchar takes the first byte.
LEMMA TakeWaits ==
  ASSUME RingOK, TakeByte
  PROVE  /\ Waiting' \in Seq(Char) /\ NextByte \in Char
         /\ Waiting = <<NextByte>> \o Waiting'
<1> DEFINE u == (buffer_tail + 1) % KEYBUF
<1>1. key_buffer \in [Slots -> Char] /\ buffer_head \in Slots /\ buffer_tail \in Slots
  BY DEF RingOK
<1>2. buffer_head # buffer_tail /\ buffer_tail' = u /\ key_buffer' = key_buffer /\ buffer_head' = buffer_head
  BY DEF TakeByte
<1>3. /\ u \in Slots /\ key_buffer[buffer_tail] \in Char
      /\ Ring(key_buffer, buffer_head, buffer_tail)
           = <<key_buffer[buffer_tail]>> \o Ring(key_buffer, buffer_head, u)
  BY <1>1, <1>2, RingTakes
<1> HIDE DEF u
<1>4. Waiting' = Ring(key_buffer, buffer_head, u)
  BY <1>2, WaitRing
<1>5. Ring(key_buffer, buffer_head, u) \in Seq(Char)
  BY <1>1, <1>3, RingBytes
<1>6. QED
  BY <1>3, <1>4, <1>5, WaitRing DEF NextByte

\* A string that fits is queued whole.
LEMMA QueueWaits ==
  ASSUME RingOK, NEW s \in Seq(Char), queue_str(s), keyboard_available + Len(s) < KEYBUF
  PROVE  Waiting' = Waiting \o s
<1> DEFINE n == Len(s)
           t == buffer_tail
           d == Dist(buffer_head, buffer_tail)
           r0 == [buf |-> key_buffer, head |-> buffer_head]
           pre(i) == SubSeq(s, 1, i)
<1>1. key_buffer \in [Slots -> Char] /\ buffer_head \in Slots /\ t \in Slots /\ t' = t
  BY DEF RingOK, queue_str
<1>2. PICK f : /\ f[0] = r0 /\ f[n] = [buf |-> key_buffer', head |-> buffer_head']
               /\ \A i \in 1 .. n : f[i] = queue_char(f[i - 1], s[i])
  BY QueueRun
<1>3. n \in Nat /\ d \in Nat /\ KEYBUF \in Nat /\ d + n < KEYBUF /\ \A i \in 1 .. n : s[i] \in Char
  <2>1. keyboard_available = d /\ d \in Nat
    BY <1>1, WaitFact, RingBytes
  <2>2. QED
    BY <2>1, SlotFact
<1>4. Waiting \in Seq(Char)
  BY WaitFact
<1>5. /\ pre(0) = << >> /\ pre(n) = s /\ \A i \in 0 .. n : pre(i) \in Seq(Char)
      /\ \A i \in 1 .. n : pre(i) = Append(pre(i - 1), s[i])
  <2>1. pre(0) = << >>
    OBVIOUS
  <2>2. pre(n) = s
    OBVIOUS
  <2>3. \A i \in 0 .. n : pre(i) \in Seq(Char)
    OBVIOUS
  <2>4. \A i \in 1 .. n : pre(i) = Append(pre(i - 1), s[i])
    OBVIOUS
  <2>5. QED
    BY <2>1, <2>2, <2>3, <2>4
<1>a. r0 \in Rings /\ r0.head = buffer_head /\ r0.buf = key_buffer
  BY <1>1 DEF Rings
<1> HIDE DEF n, d, pre, r0, t
<1> DEFINE Has(r, i) == Dist(r.head, t) = d + i /\ Ring(r.buf, r.head, t) = Waiting \o pre(i)
           g == [i \in 0 .. n |-> <<i, f[i]>>]
           S == {p \in (0 .. n) \X Rings : Has(p[2], p[1])}
<1>6. g[0] \in S
  <2>1. 0 \in 0 .. n /\ d + 0 = d
    BY <1>3
  <2>2. g[0] = <<0, r0>>
    BY <1>2, <2>1
  <2>3. Has(r0, 0)
    <3>1. Ring(r0.buf, r0.head, t) = Waiting
      BY <1>a, WaitRing DEF t
    <3>2. Waiting \o << >> = Waiting
      BY <1>4
    <3>3. Dist(r0.head, t) = d
      BY <1>a DEF d, t
    <3>4. QED
      BY <1>5, <2>1, <3>1, <3>2, <3>3
  <2>4. QED
    BY <1>a, <2>1, <2>2, <2>3
<1>7. ASSUME NEW i \in 1 .. n, g[i - 1] \in S PROVE g[i] \in S
  <2> DEFINE r == f[i - 1]
             q == f[i]
  <2>1. i \in 0 .. n /\ i - 1 \in 0 .. n /\ (d + (i - 1)) + 1 = d + i /\ d + i < KEYBUF
    BY <1>3
  <2>2. g[i - 1] = <<i - 1, r>> /\ g[i] = <<i, q>>
    BY <2>1
  <2>3. r \in Rings /\ Has(r, i - 1)
    <3>1. <<i - 1, r>> \in S
      BY <1>7, <2>2
    <3> HIDE DEF r, g, Has
    <3>2. QED
      BY <3>1
  <2>4. q = queue_char(r, s[i]) /\ s[i] \in Char
    BY <1>2, <1>3
  <2> HIDE DEF r, q, g
  <2>5. Dist(r.head, t) + 1 < KEYBUF
    BY <2>1, <2>3
  <2>6. /\ q \in Rings /\ Dist(q.head, t) = Dist(r.head, t) + 1
        /\ Ring(q.buf, q.head, t) = Append(Ring(r.buf, r.head, t), s[i])
    BY <1>1, <2>3, <2>4, <2>5, RingQueues DEF t
  <2>7. Append(Waiting \o pre(i - 1), s[i]) = Waiting \o Append(pre(i - 1), s[i])
    BY <1>4, <1>5, <2>1, <2>4, CatAppend
  <2>8. Has(q, i)
    <3>1. Dist(q.head, t) = d + i
      BY <2>1, <2>3, <2>6
    <3>2. Ring(q.buf, q.head, t) = Waiting \o pre(i)
      BY <1>5, <2>3, <2>6, <2>7
    <3>3. QED
      BY <3>1, <3>2
  <2> HIDE DEF Has
  <2>9. QED
    BY <2>1, <2>2, <2>6, <2>8
<1>8. g[n] = <<n, f[n]>>
  BY <1>3
<1>9. g[n] \in S
  <2> HIDE DEF g, S
  <2>1. \A i \in 0 .. n : g[i] \in S
    BY <1>3, <1>6, <1>7, RunKeeps
  <2>2. QED
    BY <1>3, <2>1
<1>10. Has(f[n], n)
  BY <1>8, <1>9
<1>11. Ring(key_buffer', buffer_head', t) = Waiting \o s
  BY <1>2, <1>5, <1>10
<1>12. QED
  BY <1>1, <1>11, WaitRing DEF t

\* An interrupt queues what a key sends, or nothing.
LEMMA HandlerSends ==
  ASSUME KeyboardInv, keyboard_handler
  PROVE  \/ UNCHANGED <<ringVars, torn>>
         \/ \E s : Sends(s) /\ queue_str(s)
<1> DEFINE c == Head(wire)
<1>1. c \in 1 .. 255
  BY WireFact DEF KeyboardInv, keyboard_handler
<1>2. CASE c = E0
  <2>1. UNCHANGED <<ringVars, shift_down, ctrl_down, alt_down, caps_lock, torn>>
    BY <1>2, Zenon DEF keyboard_handler
  <2>2. QED
    BY <2>1
<1>3. CASE c # E0 /\ c >= BREAK
  BY <1>3, Zenon DEF keyboard_handler
<1>4. CASE c # E0 /\ ~(c >= BREAK)
  <2>1. c \in 1 .. 127
    BY <1>1, <1>4 DEF BREAK
  <2>2. ext_press(c) \/ press(c)
    BY <1>4, Zenon DEF keyboard_handler
  <2> HIDE DEF c
  <2>3. Sends(KeyBytes(c)) /\ Sends(ExtBytes(c)) /\ Sends(<< >>)
    BY <2>1, KeySends
  <2>4. CASE ext_press(c)
    BY <2>3, <2>4, Zenon DEF ext_press
  <2>5. CASE press(c)
    BY <2>3, <2>5, Zenon DEF press
  <2>6. QED
    BY <2>2, <2>4, <2>5
<1>5. QED
  BY <1>2, <1>3, <1>4
---------------------------------------------------------------------------
(* Lines *)

\* Whole keys: whoever reads on to the end is between two keys.
Whole == ~torn => hears(Reader, Waiting).at = "line"

\* What a line of LineInput needs: room for a character, and nothing between reads.
LineInv ==
  /\ pc = "user" => buf = << >>
  /\ InLine => Len(buf) < count - 1
  /\ Whole

\* LineInput is silent about torn rings and raw reads.
Silent == torn \/ pc \in {"raw0", "raw"}

\* A step of LineInput, or one of which it says nothing.
LineStep == [Silent \/ Silent' \/ LI!Next]_(LI!vars)

\* The reader at a place.
From(where) == [at |-> where, text |-> << >>]

\* Where sys_read is.
LEMMA ReaderFact ==
  /\ Reader \in Readers /\ Reader = From(Reader.at)
  /\ pc \notin {"esc", "seq"} => Reader = From("line")
  /\ pc \in {"esc", "seq"} => Reader = From(pc)
  /\ pc' \notin {"esc", "seq"} => Reader' = From("line")
  /\ pc' \in {"esc", "seq"} => Reader' = From(pc')
  /\ \A w \in {"line", "esc", "seq"} : From(w) \in Readers /\ From(w).at = w /\ From(w).text = << >>
<1>1. << >> \in Seq(Char)
  OBVIOUS
<1>2. QED
  BY <1>1 DEF Reader, From, Readers

\* What it will hear.
LEMMA TypedFact ==
  /\ Typed = hears(Reader, Waiting).text
  /\ Typed' = hears(Reader', Waiting').text
  /\ Whole' <=> (~torn' => hears(Reader', Waiting').at = "line")
BY DEF Typed, Whole

\* Steps that LineInput does not see,
LEMMA StutterLine ==
  ASSUME UNCHANGED <<buf, answer>>, Typed' = Typed, pc' = pc, count' = count, torn' = torn
  PROVE  LineStep
BY DEF LineStep, LI!vars

\* of which it says nothing,
LEMMA SilentLine ==
  ASSUME Silent \/ Silent'
  PROVE  LineStep
BY DEF LineStep

\* and its own.
LEMMA NextLine ==
  ASSUME LI!Next
  PROVE  LineStep
BY DEF LineStep

\* Waiting and place as they were.
LEMMA SameWhole ==
  ASSUME Waiting' = Waiting, Reader' = Reader, ConsoleInv
  PROVE  Typed' = Typed /\ (torn' = torn /\ Whole => Whole')
BY TypedFact DEF Whole

\* The ring as it was.
LEMMA SameWaiting ==
  ASSUME UNCHANGED ringVars
  PROVE  Waiting' = Waiting
BY DEF ringVars, Waiting, keyboard_available

\* The place as it was.
LEMMA SameReader ==
  ASSUME {pc, pc'} \cap {"esc", "seq"} = {} \/ pc' = pc
  PROVE  Reader' = Reader
BY DEF Reader

\* An empty ring.
LEMMA EmptyWhole ==
  ASSUME ConsoleInv, buffer_head = buffer_tail
  PROVE  hears(Reader, Waiting) = Reader /\ Typed = << >>
<1>1. Waiting = << >>
  <2>1. RingOK
    BY DEF ConsoleInv, KeyboardInv
  <2>2. Dist(buffer_head, buffer_tail) = 0
    BY <2>1, SlotFact DEF Dist, RingOK
  <2>3. Waiting \in Seq(Char) /\ Len(Waiting) = 0
    BY <2>1, <2>2, WaitFact
  <2>4. QED
    BY <2>3
<1>2. hears(Reader, Waiting) = Reader
  BY <1>1, HearsNone, ReaderFact
<1>3. QED
  BY <1>2, TypedFact, ReaderFact

\* The same after a step.
LEMMA EmptyWholeNext ==
  ASSUME RingOK', buffer_head' = buffer_tail', pc' \notin {"esc", "seq"}
  PROVE  Whole' /\ Typed' = << >>
<1>1. Waiting' = << >>
  <2>1. /\ key_buffer' \in [Slots -> Char] /\ buffer_head' \in Slots /\ buffer_tail' \in Slots
    BY DEF RingOK
  <2>2. Dist(buffer_head', buffer_tail') = 0
    BY <2>1, SlotFact DEF Dist
  <2>3. Waiting' \in Seq(Char) /\ Len(Waiting') = 0
    BY <2>1, <2>2, RingBytes, WaitRing
  <2>4. QED
    BY <2>3
<1>2. Reader' = From("line") /\ From("line") \in Readers
  BY ReaderFact
<1>3. hears(Reader', Waiting') = From("line")
  BY <1>1, <1>2, HearsNone
<1>4. QED
  BY <1>3, TypedFact, ReaderFact

\* sys_read takes a byte.
LEMMA TookHears ==
  ASSUME ConsoleInv, Took
  PROVE  /\ NextByte \in Char /\ Waiting' \in Seq(Char)
         /\ hears(Reader, Waiting) = hears(hear(Reader, NextByte), Waiting')
<1>1. /\ Waiting' \in Seq(Char) /\ NextByte \in Char
      /\ Waiting = <<NextByte>> \o Waiting'
  BY TakeWaits DEF ConsoleInv, KeyboardInv, Took
<1>2. Reader \in Readers /\ <<NextByte>> \in Seq(Char)
  BY <1>1, ReaderFact
<1>3. hears(Reader, <<NextByte>>) = hear(Reader, NextByte)
  BY <1>1, <1>2, HearsOne
<1>4. QED
  BY <1>1, <1>2, <1>3, HearsCat

\* A character of the line: the first that was typed.
LEMMA TookChar ==
  ASSUME ConsoleInv, Took, pc = "line", NextByte # ESC, pc' \notin {"esc", "seq"}
  PROVE  /\ Typed = <<NextByte>> \o Typed' /\ Typed' \in Seq(Char)
         /\ hears(Reader', Waiting').at = hears(Reader, Waiting).at
<1> DEFINE c == NextByte
           W == Waiting'
           L == From("line")
           h == hears(L, W)
<1>1. c \in Char /\ W \in Seq(Char) /\ hears(Reader, Waiting) = hears(hear(Reader, c), W)
  BY TookHears
<1>2. Reader = L /\ Reader' = L /\ L \in Readers /\ L.at = "line" /\ L.text = << >>
  BY ReaderFact
<1> HIDE DEF c, W, L
<1>3. hear(L, c) = [at |-> "line", text |-> Append(<< >>, c)]
  BY <1>2 DEF hear, c
<1>4. Append(<< >>, c) = <<c>> /\ <<c>> \o << >> = <<c>> /\ <<c>> \in Seq(Char)
  BY <1>1
<1>5. hear(L, c) = [at |-> L.at, text |-> <<c>> \o L.text]
  BY <1>2, <1>3, <1>4
<1>6. hears(hear(L, c), W) = [at |-> h.at, text |-> <<c>> \o h.text]
  BY <1>1, <1>2, <1>4, <1>5, HearsAfter
<1>7. h \in Readers
  BY <1>1, <1>2, HearsStays
<1>8. hears(Reader, Waiting).at = h.at /\ hears(Reader, Waiting).text = <<c>> \o h.text
  BY <1>1, <1>2, <1>6
<1>9. hears(Reader', Waiting') = h
  BY <1>2 DEF W
<1>10. h.text \in Seq(Char)
  BY <1>7 DEF Readers
<1>11. QED
  BY <1>8, <1>9, <1>10, TypedFact DEF c

\* A byte of a sequence.
LEMMA TookSilent ==
  ASSUME ConsoleInv, Took, hear(Reader, NextByte) = Reader'
  PROVE  Typed' = Typed /\ hears(Reader', Waiting') = hears(Reader, Waiting)
BY TookHears, TypedFact

\* The editor adds at most one character.
LEMMA EditLen ==
  ASSUME NEW l \in Seq(Char), NEW c \in Char
  PROVE  Len(edit(l, c)) \in Nat /\ Len(edit(l, c)) <= Len(l) + 1
<1>1. Len(l) \in Nat
  OBVIOUS
<1>2. CASE c = 12
  BY <1>1, <1>2 DEF edit, BS, DEL
<1>3. CASE c \in {BS, DEL, 21, 23}
  <2>1. PICK m \in 0 .. Len(l) : Len(edit(l, c)) = m
    BY <1>3, EditCuts
  <2>2. QED
    BY <1>1, <2>1
<1>4. CASE c \notin {12, BS, DEL, 21, 23}
  BY <1>1, <1>4 DEF edit
<1>5. QED
  BY <1>2, <1>3, <1>4

\* Within a line nothing happens.
LEMMA StutterInLine ==
  ASSUME UNCHANGED <<buf, answer, count, torn>>, Typed' = Typed, InLine, InLine'
  PROVE  LineStep
<1>1. pc # "user" /\ pc' # "user" /\ pc \notin {"raw0", "raw"} /\ pc' \notin {"raw0", "raw"}
  BY DEF InLine
<1>2. QED
  BY <1>1 DEF LineStep, LI!vars

\* The ring after a step of sys_read that took a byte.
LEMMA TookRing ==
  ASSUME ConsoleInv, Took
  PROVE  RingOK' /\ buffer_head' = buffer_head
BY RingTake DEF ConsoleInv, KeyboardInv, Took, TakeByte

\* A ring that mends holds whole keys.
LEMMA MendsWhole ==
  ASSUME ConsoleInv, Whole, Took, Mends,
         hears(Reader', Waiting').at = hears(Reader, Waiting).at
  PROVE  Whole'
<1>1. CASE torn'
  BY <1>1, TypedFact
<1>2. CASE ~torn' /\ ~torn
  BY <1>2, TypedFact DEF Whole
<1>3. CASE ~torn' /\ torn
  <2>1. buffer_head = buffer_tail' /\ pc' \notin {"esc", "seq"}
    BY <1>3, Zenon DEF Mends
  <2>2. QED
    BY <2>1, TookRing, EmptyWholeNext
<1>4. QED
  BY <1>1, <1>2, <1>3

\* A step that takes a character of the line and returns or goes on.
LEMMA CharStep ==
  ASSUME ConsoleInv, LineInv, Took, pc = "line", NextByte # ESC,
         pc' \notin {"esc", "seq"}, Mends
  PROVE  /\ Whole' /\ Typed # << >> /\ Head(Typed) = NextByte /\ Tail(Typed) = Typed'
<1>1. /\ Typed = <<NextByte>> \o Typed' /\ Typed' \in Seq(Char)
      /\ hears(Reader', Waiting').at = hears(Reader, Waiting).at
  BY TookChar
<1>2. Whole'
  BY <1>1, MendsWhole DEF LineInv
<1> DEFINE t == Typed'
<1>3. t \in Seq(Char) /\ Typed = <<NextByte>> \o t
  BY <1>1
<1> HIDE DEF t
<1>4. /\ <<NextByte>> \o t # << >> /\ Head(<<NextByte>> \o t) = NextByte
      /\ Tail(<<NextByte>> \o t) = t
  <2>1. NextByte \in Char
    BY TookHears
  <2> DEFINE c == NextByte
  <2> HIDE DEF c
  <2>2. c \in Char
    BY <2>1 DEF c
  <2> DEFINE x == <<c>> \o t
  <2>3. /\ x \in Seq(Char) /\ Len(x) = Len(t) + 1 /\ x[1] = c
        /\ \A i \in 1 .. Len(t) : x[i + 1] = t[i]
    BY <1>3, <2>2
  <2>4. x # << >> /\ Head(x) = c
    BY <1>3, <2>3
  <2> HIDE DEF x
  <2>5. Tail(x) \in Seq(Char) /\ Len(Tail(x)) = Len(t) /\ \A i \in 1 .. Len(t) : Tail(x)[i] = t[i]
    BY <1>3, <2>3, <2>4
  <2>6. Tail(x) = t
    BY <1>3, <2>5, SameSeq
  <2>7. QED
    BY <2>4, <2>6 DEF x, c
<1>5. QED
  BY <1>2, <1>3, <1>4 DEF t

\* Newline, ^D and ^C.
LEMMA LineEnd ==
  ASSUME ConsoleInv, LineInv, EndLine
  PROVE  LineInv' /\ LineStep
<1>1. pc = "line" /\ Took /\ NextByte \in Ends /\ Mends /\ Return(EndAnswer(buf, NextByte))
  BY DEF EndLine
<1>2. pc' = "user" /\ buf' = << >> /\ answer' = EndAnswer(buf, NextByte) /\ count' = 0
  BY <1>1 DEF Return
<1>3. NextByte # ESC
  BY <1>1 DEF Ends, ESC, LF
<1>4. /\ Whole' /\ Typed # << >> /\ Head(Typed) = NextByte /\ Tail(Typed) = Typed'
  BY <1>1, <1>2, <1>3, CharStep
<1>5. LineInv'
  BY <1>2, <1>4 DEF LineInv, InLine
<1>6. LI!Take
  BY <1>1, <1>2, <1>4 DEF LI!Take, LI!Return
<1>7. QED
  BY <1>5, <1>6, NextLine DEF LI!Next

\* Characters and editing keys.
LEMMA LineEdit ==
  ASSUME ConsoleInv, LineInv, EditByte
  PROVE  LineInv' /\ LineStep
<1> DEFINE c == NextByte
           l == edit(buf, c)
<1>1. /\ pc = "line" /\ Took /\ c \notin Ends \cup {ESC} /\ Mends
      /\ IF Len(l) < count - 1 THEN Continue(l, "line") ELSE Return(l)
  BY Zenon DEF EditByte
<1>2. c \in Char /\ buf \in Seq(Char) /\ count \in Nat /\ Len(buf) < count - 1
  BY <1>1, TookHears DEF ConsoleInv, ReadOK, LineInv, InLine
<1>3. Len(l) \in Nat /\ Len(l) <= Len(buf) + 1 /\ Len(buf) \in Nat
  BY <1>2, EditLen
<1>4. pc' \notin {"esc", "seq"}
  BY <1>1 DEF Continue, Return
<1>5. /\ Whole' /\ Typed # << >> /\ Head(Typed) = c /\ Tail(Typed) = Typed'
  BY <1>1, <1>4, CharStep
<1> HIDE DEF c, l
<1>6. CASE Len(l) < count - 1
  <2>1. pc' = "line" /\ buf' = l /\ UNCHANGED <<count, answer>>
    BY <1>1, <1>6 DEF Continue
  <2>2. Len(l) # count - 1
    BY <1>2, <1>3, <1>6
  <2>3. LineInv'
    BY <1>5, <1>6, <2>1 DEF LineInv, InLine
  <2>4. LI!Take
    BY <1>1, <1>5, <2>1, <2>2 DEF LI!Take, l
  <2>5. QED
    BY <2>3, <2>4, NextLine DEF LI!Next
<1>7. CASE ~(Len(l) < count - 1)
  <2>1. pc' = "user" /\ buf' = << >> /\ answer' = l /\ count' = 0
    BY <1>1, <1>7 DEF Return
  <2>2. Len(l) = count - 1
    BY <1>2, <1>3, <1>7
  <2>3. LineInv'
    BY <1>5, <2>1 DEF LineInv, InLine
  <2>4. LI!Take
    BY <1>1, <1>5, <2>1, <2>2 DEF LI!Take, LI!Return, l
  <2>5. QED
    BY <2>3, <2>4, NextLine DEF LI!Next
<1>8. QED
  BY <1>6, <1>7

\* A byte of an escape sequence leaves the line as it was.
LEMMA LineSwallow ==
  ASSUME ConsoleInv, LineInv, EscByte \/ SwallowByte
  PROVE  LineInv' /\ LineStep
<1> DEFINE c == NextByte
<1>1. /\ Took /\ Mends /\ UNCHANGED <<buf, count, answer>>
      /\ InLine /\ InLine'
  <2>1. CASE EscByte
    BY <2>1 DEF EscByte, Continue, InLine
  <2>2. CASE SwallowByte
    BY <2>2 DEF SwallowByte, Continue, InLine, after_esc
  <2>3. QED
    BY <2>1, <2>2
<1>2. hear(Reader, c) = Reader'
  <2>1. CASE EscByte
    <3>1. pc = "line" /\ c = ESC /\ pc' = "esc"
      BY <2>1 DEF EscByte, Continue
    <3>2. Reader = From("line") /\ Reader' = From("esc")
      BY <3>1, ReaderFact
    <3>3. QED
      BY <3>1, <3>2 DEF hear, From
  <2>2. CASE SwallowByte /\ pc = "esc"
    <3>1. pc' = IF c \in {91, 79} THEN "seq" ELSE "line"
      BY <2>2 DEF SwallowByte, Continue, after_esc
    <3>2. Reader = From("esc") /\ Reader' = From(pc')
      BY <2>2, <3>1, ReaderFact
    <3>3. QED
      BY <3>1, <3>2 DEF hear, From
  <2>3. CASE SwallowByte /\ pc # "esc"
    <3>1. pc = "seq" /\ pc' = IF IsLetter(c) \/ c = 126 THEN "line" ELSE "seq"
      BY <2>3 DEF SwallowByte, Continue, seq_ends
    <3>2. Reader = From("seq") /\ Reader' = From(pc')
      BY <3>1, ReaderFact
    <3>3. QED
      BY <3>1, <3>2 DEF hear, From
  <2>4. QED
    BY <2>1, <2>2, <2>3
<1>3. Typed' = Typed /\ hears(Reader', Waiting') = hears(Reader, Waiting)
  BY <1>1, <1>2, TookSilent
<1>4. Whole'
  BY <1>1, <1>3, MendsWhole DEF LineInv
<1>5. LineInv'
  BY <1>1, <1>4 DEF LineInv, InLine
<1>6. CASE torn
  BY <1>5, <1>6, SilentLine DEF Silent
<1>7. CASE ~torn
  <2>1. torn' = torn
    BY <1>1, <1>7, Zenon DEF Mends, ConsoleInv, KeyboardInv, Bools
  <2>2. QED
    BY <1>1, <1>3, <1>5, <2>1, StutterInLine
<1>8. QED
  BY <1>6, <1>7

\* A sequence that ends with the ring was torn.
LEMMA LineSwallowEnds ==
  ASSUME ConsoleInv, LineInv, SwallowEnds
  PROVE  LineInv' /\ LineStep
<1>1. /\ pc \in {"esc", "seq"} /\ buffer_head = buffer_tail /\ UNCHANGED ringVars
      /\ pc' = "line" /\ UNCHANGED <<buf, count, answer>>
  BY DEF SwallowEnds, NoByte, Continue
<1>2. torn
  <2>1. hears(Reader, Waiting) = Reader /\ Reader = From(pc)
    BY <1>1, EmptyWhole, ReaderFact
  <2>2. Reader.at = pc
    BY <2>1 DEF From
  <2>3. QED
    BY <1>1, <2>1, <2>2 DEF LineInv, Whole
<1>3. RingOK' /\ buffer_head' = buffer_tail'
  BY <1>1 DEF ConsoleInv, KeyboardInv, RingOK, ringVars
<1>4. Whole'
  BY <1>1, <1>3, EmptyWholeNext
<1>5. LineInv'
  BY <1>1, <1>4 DEF LineInv, InLine
<1>6. QED
  BY <1>2, <1>5, SilentLine DEF Silent

\* A step that leaves ring and read alone.
LEMMA LineSame ==
  ASSUME ConsoleInv, LineInv, UNCHANGED ringVars, UNCHANGED <<pc, count, buf, answer, torn>>
  PROVE  LineInv' /\ LineStep
<1>1. Typed' = Typed /\ Whole'
  BY SameWaiting, SameReader, SameWhole DEF LineInv
<1>2. LineInv'
  BY <1>1 DEF LineInv, InLine
<1>3. QED
  BY <1>1, <1>2, StutterLine

\* A read begins.
LEMMA LineBegins ==
  ASSUME ConsoleInv, LineInv, NEW n \in Counts, ReadLine(n) \/ ReadRaw(n)
  PROVE  LineInv' /\ LineStep
<1>1. pc = "user" /\ UNCHANGED ringVars /\ torn' = torn
  BY DEF ReadLine, ReadRaw, keyVars
<1>2. Waiting' = Waiting /\ buf = << >>
  BY <1>1, SameWaiting DEF LineInv
<1>3. n \in Nat /\ n # 0
  BY ConsoleAssumption
<1>4. CASE ReadLine(n) /\ n = 1
  <2>1. pc' = "user" /\ count' = 0 /\ buf' = << >> /\ answer' = << >>
    BY <1>4 DEF ReadLine, Return
  <2>2. Typed' = Typed /\ Whole'
    BY <1>1, <1>2, <2>1, SameReader, SameWhole DEF LineInv
  <2>3. LineInv'
    BY <2>1, <2>2 DEF LineInv, InLine
  <2>4. LI!NoRoom
    BY <1>1, <2>1, <2>2 DEF LI!NoRoom, LI!Return
  <2>5. QED
    BY <2>3, <2>4, NextLine DEF LI!Next
<1>5. CASE ReadLine(n) /\ n # 1
  <2>1. pc' = "line" /\ count' = n /\ buf' = << >> /\ answer' = answer
    BY <1>5 DEF ReadLine
  <2>2. Typed' = Typed /\ Whole'
    BY <1>1, <1>2, <2>1, SameReader, SameWhole DEF LineInv
  <2>3. Len(<< >>) = 0 /\ 0 < n - 1 /\ n - 1 \in Nat \ {0}
    BY <1>3, <1>5
  <2>4. LineInv'
    BY <2>1, <2>2, <2>3 DEF LineInv
  <2>5. LI!Call
    BY <1>1, <1>2, <2>1, <2>2, <2>3 DEF LI!Call
  <2>6. QED
    BY <2>4, <2>5, NextLine DEF LI!Next
<1>6. CASE ReadRaw(n)
  <2>1. pc' \in {"raw0", "raw"}
    BY <1>6 DEF ReadRaw
  <2>2. Whole'
    BY <1>1, <1>2, <2>1, SameReader, SameWhole DEF LineInv
  <2>3. LineInv'
    BY <2>1, <2>2 DEF LineInv, InLine
  <2>4. Silent'
    BY <2>1 DEF Silent
  <2>5. QED
    BY <2>3, <2>4, SilentLine
<1>7. QED
  BY <1>4, <1>5, <1>6

\* A raw read is none of LineInput's business, and leaves an empty ring or a torn one.
LEMMA LineRaw ==
  ASSUME ConsoleInv, LineInv, RawByte \/ RawDone
  PROVE  LineInv' /\ LineStep
<1>1. Silent
  BY DEF RawByte, RawDone, Silent
<1>2. pc' \in {"user", "raw"} /\ (pc' = "user" => buf' = << >>)
  BY DEF RawByte, RawDone, Continue, Return
<1>3. Whole'
  <2>1. CASE RawByte
    <3>1. Took /\ torn' = (buffer_head # buffer_tail')
      BY <2>1 DEF RawByte
    <3>2. CASE torn'
      BY <3>2, TypedFact
    <3>3. CASE ~torn'
      BY <1>2, <3>1, <3>3, TookRing, EmptyWholeNext
    <3>4. QED
      BY <3>2, <3>3
  <2>2. CASE RawDone
    <3>1. buffer_head = buffer_tail /\ UNCHANGED ringVars
      BY <2>2 DEF RawDone, NoByte
    <3>2. RingOK' /\ buffer_head' = buffer_tail'
      BY <3>1 DEF ConsoleInv, KeyboardInv, RingOK, ringVars
    <3>3. QED
      BY <1>2, <3>2, EmptyWholeNext
  <2>3. QED
    BY <2>1, <2>2
<1>4. LineInv'
  BY <1>2, <1>3 DEF LineInv, InLine
<1>5. QED
  BY <1>1, <1>4, SilentLine

\* TCSETS keeps what was typed, TCSETSF flushes it.
LEMMA LineTcset ==
  ASSUME ConsoleInv, LineInv, NEW mode \in Modes, NEW flush \in BOOLEAN, Tcset(mode, flush)
  PROVE  LineInv' /\ LineStep
<1>1. pc = "user" /\ UNCHANGED <<pc, count, buf, answer>>
  BY DEF Tcset, readVars
<1>2. CASE flush
  <2>1. /\ buffer_tail' = buffer_head /\ torn' = FALSE
        /\ UNCHANGED <<key_buffer, buffer_head>>
    BY <1>2 DEF Tcset, keyboard_flush
  <2>2. RingOK' /\ buffer_head' = buffer_tail'
    BY <2>1 DEF ConsoleInv, KeyboardInv, RingOK
  <2>3. Whole' /\ Typed' = << >>
    BY <1>1, <2>2, EmptyWholeNext
  <2>4. LineInv'
    BY <1>1, <2>3 DEF LineInv, InLine
  <2>5. LI!Flush
    BY <1>1, <2>3 DEF LI!Flush
  <2>6. QED
    BY <2>4, <2>5, NextLine DEF LI!Next
<1>3. CASE ~flush
  <2>1. UNCHANGED <<ringVars, torn>>
    BY <1>3 DEF Tcset
  <2>2. QED
    BY <1>1, <2>1, LineSame
<1>4. QED
  BY <1>2, <1>3

\* The interrupt: at most one character more, behind all others.
LEMMA LineIrq ==
  ASSUME ConsoleInv, LineInv, KeyboardIrq
  PROVE  LineInv' /\ LineStep
<1>1. KeyboardInv /\ RingOK /\ keyboard_handler /\ UNCHANGED <<pc, count, buf, answer>>
  BY DEF ConsoleInv, KeyboardInv, KeyboardIrq, readVars
<1>2. CASE UNCHANGED <<ringVars, torn>>
  BY <1>1, <1>2, LineSame
<1>3. ASSUME NEW s, Sends(s), queue_str(s) PROVE LineInv' /\ LineStep
  <2>1. torn' = (torn \/ s \in Ambiguous \/ keyboard_available + Len(s) >= KEYBUF)
    BY <1>3 DEF queue_str
  <2>2. CASE torn'
    <3>1. Whole' /\ Silent'
      BY <2>2, TypedFact DEF Silent
    <3>2. LineInv'
      BY <1>1, <3>1 DEF LineInv, InLine
    <3>3. QED
      BY <3>1, <3>2, SilentLine
  <2>3. CASE ~torn'
    <3> DEFINE W == Waiting
               r == hears(Reader, W)
               q == hears(r, s)
    <3>1. ~torn /\ s \notin Ambiguous /\ ~(keyboard_available + Len(s) >= KEYBUF)
      BY <2>1, <2>3
    <3>2. W \in Seq(Char) /\ keyboard_available \in Nat
      BY <1>1, WaitFact
    <3>3. r \in Readers /\ r.at = "line" /\ Reader' = Reader
      BY <1>1, <3>1, <3>2, ReaderFact, SameReader, HearsStays DEF LineInv, Whole
    <3>4. /\ s \in Seq(Char) /\ q.at = "line"
          /\ q.text = r.text \/ \E c \in Char : q.text = Append(r.text, c)
      <4> HIDE DEF r
      <4>1. QED
        BY <1>3, <3>1, <3>3, KeyHeard
    <3>5. Waiting' = W \o s
      <4>1. keyboard_available + Len(s) < KEYBUF
        BY <3>1, <3>2, <3>4, SlotFact
      <4>2. QED
        BY <1>1, <1>3, <3>4, <4>1, QueueWaits
    <3>6. hears(Reader', Waiting') = q
      BY <3>2, <3>3, <3>4, <3>5, ReaderFact, HearsCat
    <3>7. Typed = r.text /\ Typed' = q.text /\ r.text \in Seq(Char)
      <4>1. Typed = r.text
        BY TypedFact
      <4>2. Typed' = q.text
        BY <3>6, TypedFact
      <4> HIDE DEF r
      <4>3. r.text \in Seq(Char)
        BY <3>3 DEF Readers
      <4>4. QED
        BY <4>1, <4>2, <4>3
    <3>8. Whole'
      BY <3>4, <3>6, TypedFact
    <3>9. LineInv'
      BY <1>1, <3>8 DEF LineInv, InLine
    <3> HIDE DEF r, q
    <3>10. CASE q.text = r.text
      <4>1. torn' = torn
        <5>1. torn \in BOOLEAN /\ torn' \in BOOLEAN
          BY <1>1, IrqKeeps DEF KeyboardInv, Bools
        <5>2. QED
          BY <2>3, <3>1, <5>1
      <4>2. QED
        BY <1>1, <3>7, <3>9, <3>10, <4>1, StutterLine
    <3>11. ASSUME NEW c \in Char, q.text = Append(r.text, c) PROVE LineStep
      <4>1. Typed \in Seq(Char) /\ Typed' = Append(Typed, c)
        BY <3>7, <3>11
      <4> DEFINE t == Typed
      <4>2. t \in Seq(Char)
        BY <4>1
      <4> HIDE DEF t
      <4>3. Len(Append(t, c)) = Len(t) + 1 /\ SubSeq(Append(t, c), 1, Len(t)) = t
        BY <4>2
      <4>4. LI!Type
        BY <1>1, <4>1, <4>3 DEF LI!Type, t
      <4>5. QED
        BY <4>4, NextLine DEF LI!Next
    <3>12. QED
      BY <3>4, <3>9, <3>10, <3>11
  <2>4. QED
    BY <2>2, <2>3
<1>4. QED
  BY <1>1, <1>2, <1>3, HandlerSends

\* Every step keeps LineInv and is a step of LineInput.
LEMMA LineNext ==
  ASSUME ConsoleInv, LineInv, [Next]_vars
  PROVE  LineInv' /\ LineStep
<1>1. ASSUME NEW n \in Counts, ReadLine(n) \/ ReadRaw(n) PROVE LineInv' /\ LineStep
  BY <1>1, LineBegins
<1>2. CASE EndLine \/ EditByte
  BY <1>2, LineEnd, LineEdit
<1>3. CASE EscByte \/ SwallowByte \/ SwallowEnds
  BY <1>3, LineSwallow, LineSwallowEnds
<1>4. CASE GetcharWaits
  <2>1. UNCHANGED ringVars /\ UNCHANGED <<pc, count, buf, answer, torn>>
    BY <1>4 DEF GetcharWaits, NoByte
  <2>2. QED
    BY <2>1, LineSame
<1>5. CASE RawByte \/ RawDone
  BY <1>5, LineRaw
<1>6. ASSUME NEW s \in Outputs, Write(s) PROVE LineInv' /\ LineStep
  <2>1. UNCHANGED ringVars /\ UNCHANGED <<pc, count, buf, answer, torn>>
    BY <1>6 DEF Write, keyVars, readVars
  <2>2. QED
    BY <2>1, LineSame
<1>7. ASSUME NEW mode \in Modes, NEW flush \in BOOLEAN, Tcset(mode, flush)
      PROVE  LineInv' /\ LineStep
  BY <1>7, LineTcset
<1>8. CASE KeyboardIrq
  BY <1>8, LineIrq
<1>9. CASE Person \/ UNCHANGED vars
  <2>1. UNCHANGED ringVars /\ UNCHANGED <<pc, count, buf, answer, torn>>
    BY <1>9 DEF Person, Press, Release, vars, keyVars, readVars
  <2>2. QED
    BY <2>1, LineSame
<1>10. QED
  BY <1>1, <1>2, <1>3, <1>4, <1>5, <1>6, <1>7, <1>8, <1>9, Zenon DEF Next, ReadStep

\* A line that sys_read returns is made of the characters typed, in order: the
\* interrupt between any two bytes, the swallowing of sequences and the wrapping of
\* the ring lose nothing, double nothing and let no part of a sequence through.
THEOREM ConsoleImplementsLineInput == Spec => ImplementsLineInput
<1>1. Init => LineInv /\ LI!Init
  <2> SUFFICES ASSUME Init PROVE LineInv /\ LI!Init
    OBVIOUS
  <2>1. /\ pc = "user" /\ count = 0 /\ buf = << >> /\ answer = << >> /\ torn = FALSE
        /\ buffer_head = buffer_tail
    BY DEF Init, keyboard_init
  <2>2. ConsoleInv
    BY ConsoleInit
  <2>3. hears(Reader, Waiting) = Reader /\ Typed = << >>
    BY <2>1, <2>2, EmptyWhole
  <2>4. Reader.at = "line"
    BY <2>1, ReaderFact DEF From
  <2>5. LineInv
    BY <2>1, <2>3, <2>4 DEF LineInv, Whole, InLine
  <2>6. LI!Init
    BY <2>1, <2>3 DEF LI!Init
  <2>7. QED
    BY <2>5, <2>6
<1>2. ConsoleInv /\ LineInv /\ [Next]_vars => LineInv' /\ LineStep
  BY LineNext
<1>3. QED
  BY <1>1, <1>2, ConsoleInvariant, PTL DEF Spec, ImplementsLineInput, LI!Spec, LineStep, Silent
=============================================================================
