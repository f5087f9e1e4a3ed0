------------------------------ MODULE Keyboard ------------------------------
(***************************************************************************)
(* The keyboard driver (drivers/keyboard.c): scan codes become bytes in a  *)
(* ring that the interrupt handler fills and getchar empties.              *)
(*                                                                         *)
(* Characters are their codes.  A key is a scan code, above EXT for the    *)
(* keys that send an E0 first; the keyboard itself (which keys are held,   *)
(* the scan codes on their way) is not code of the repository.             *)
(***************************************************************************)
EXTENDS Integers, Sequences

CONSTANTS
  KEYBUF,  \* 256 in the code
  Keys     \* the keys a person may press

\* The top bit of a scan code is for the release of its key, and no key has
\* 0x60, whose release would be E0.
ASSUME KeyboardAssumption ==
  /\ KEYBUF \in Nat \ {0, 1}
  /\ Keys \subseteq {k \in 1 .. 511 : k % 256 \in (1 .. 127) \ {96}}

VARIABLES
  key_buffer, buffer_head, buffer_tail,
  shift_down, ctrl_down, alt_down, caps_lock, e0_prefix,
  held,     \* modifier keys that are down
  wire,     \* scan codes the keyboard has still to deliver
  twins,    \* history: two keys of one modifier were down together
  torn      \* history: the ring may hold part of an escape sequence

ringVars == <<key_buffer, buffer_head, buffer_tail>>
flagVars == <<shift_down, ctrl_down, alt_down, caps_lock, e0_prefix>>
keyVars == <<ringVars, flagVars, held, wire, twins, torn>>

E0 == 224
BREAK == 128        \* added to the scan code of a key that is released
EXT == 256

LSHIFT == 42
RSHIFT == 54
CTRL == 29
RCTRL == EXT + CTRL
ALT == 56
RALT == EXT + ALT
CAPS == 58
ENTER == 28
SLASH == 53
TAB == 15

ESC == 27
LF == 10
BS == 8
DEL == 127
CSI == <<ESC, 91>>

---------------------------------------------------------------------------
(* The ring *)

keyboard_available == (buffer_head - buffer_tail + KEYBUF) % KEYBUF

\* The bytes in the ring, oldest first.
Waiting ==
  [i \in 1 .. keyboard_available |-> key_buffer[(buffer_tail + i - 1) % KEYBUF]]

\* Mutant: the last free slot is used too, and a full ring looks empty.
queue_char_full(r, c) ==
  [buf |-> [r.buf EXCEPT ![r.head] = c], head |-> (r.head + 1) % KEYBUF]

\* A byte that finds no room is dropped.
queue_char(r, c) ==
  LET next_head == (r.head + 1) % KEYBUF
  IN  IF next_head = buffer_tail THEN r
      ELSE [buf |-> [r.buf EXCEPT ![r.head] = c], head |-> next_head]

\* What no reader can tell from the beginning of an escape sequence: the Esc
\* key, and Alt with [ or O.
Ambiguous == {<<ESC>>, CSI, <<ESC, 79>>}

queue_str(s) ==
  LET after[i \in 0 .. Len(s)] ==
        IF i = 0 THEN [buf |-> key_buffer, head |-> buffer_head]
        ELSE queue_char(after[i - 1], s[i])
  IN  /\ key_buffer' = after[Len(s)].buf
      /\ buffer_head' = after[Len(s)].head
      /\ torn' = (torn \/ s \in Ambiguous \/ keyboard_available + Len(s) >= KEYBUF)
      /\ UNCHANGED buffer_tail

\* The oldest byte, taken by getchar and keyboard_trygetc.
NextByte == key_buffer[buffer_tail]
TakeByte ==
  /\ buffer_head # buffer_tail
  /\ buffer_tail' = (buffer_tail + 1) % KEYBUF
  /\ UNCHANGED <<key_buffer, buffer_head>>

keyboard_flush ==
  /\ buffer_tail' = buffer_head
  /\ torn' = FALSE
  /\ UNCHANGED <<key_buffer, buffer_head>>

---------------------------------------------------------------------------
(* What a key sends *)

scancode_to_ascii ==
  <<27, 49, 50, 51, 52, 53, 54, 55, 56, 57, 48, 45, 61, BS, 9,
    113, 119, 101, 114, 116, 121, 117, 105, 111, 112, 91, 93, LF,
    0, 97, 115, 100, 102, 103, 104, 106, 107, 108, 59, 39, 96, 0,
    92, 122, 120, 99, 118, 98, 110, 109, 44, 46, 47, 0, 42, 0, 32>>

scancode_shifted ==
  [k \in 1 .. 57 |->
     CASE k \in 2 .. 13  -> <<33, 64, 35, 36, 37, 94, 38, 42, 40, 41, 95, 43>>[k - 1]
       [] k \in 26 .. 27 -> <<123, 125>>[k - 25]
       [] k \in 39 .. 41 -> <<58, 34, 126>>[k - 38]
       [] k = 43         -> 124
       [] k \in 51 .. 53 -> <<60, 62, 63>>[k - 50]
       [] OTHER          -> 0]

\* Final byte of the arrows, Home and End; number of the keys that end in ~.
Arrow == [k \in {72, 80, 77, 75} |->
            CASE k = 72 -> 65 [] k = 80 -> 66 [] k = 77 -> 67 [] k = 75 -> 68]
HomeEnd == [k \in {71, 79} |-> IF k = 71 THEN 72 ELSE 70]
Paging == [k \in {73, 81, 82, 83} |->
             CASE k = 73 -> 53 [] k = 81 -> 54 [] k = 82 -> 50 [] k = 83 -> 51]
Nav == DOMAIN Arrow \cup DOMAIN HomeEnd \cup DOMAIN Paging

handle_nav_key(k) ==
  CASE k \in DOMAIN Arrow ->
         CSI \o (IF ctrl_down THEN <<49, 59, 53>> ELSE IF alt_down THEN <<49, 59, 51>>
                 ELSE << >>) \o <<Arrow[k]>>
    [] k \in DOMAIN HomeEnd ->
         CSI \o (IF ctrl_down THEN <<49, 59, 53>> ELSE << >>) \o <<HomeEnd[k]>>
    [] k \in DOMAIN Paging ->
         CSI \o <<Paging[k]>> \o (IF ctrl_down /\ k # 82 THEN <<59, 53>> ELSE << >>) \o <<126>>

IsLower(c) == c \in 97 .. 122
IsUpper(c) == c \in 65 .. 90

\* The character of a key under shift and caps lock; 0 if it has none.
KeyChar(k) ==
  LET c == IF k <= 57 THEN scancode_to_ascii[k] ELSE 0
  IN  IF IsLower(c) THEN IF shift_down # caps_lock THEN c - 32 ELSE c
      ELSE IF shift_down /\ k <= 57 /\ scancode_shifted[k] # 0 THEN scancode_shifted[k]
      ELSE c

\* The control character of a key with ctrl down; -1 if it has none.
CtrlChar(k, c) ==
  CASE IsLower(c)                       -> c - 96
    [] IsUpper(c)                       -> c - 64
    [] c \in {64, 32}                   -> 0
    [] c = 91                           -> ESC
    [] c = 92                           -> 28
    [] c = 93                           -> 29
    [] c = 94 \/ k = 7                  -> 30
    [] c \in {95, 45} \/ k = 12         -> 31
    [] c = BS                           -> DEL
    [] OTHER                            -> -1

\* The bytes a key without E0 queues when it goes down.
KeyBytes(k) ==
  LET c == KeyChar(k)
      x == CtrlChar(k, c)
  IN  CASE k \in Nav          -> handle_nav_key(k)
        [] k = 74             -> <<45>>
        [] k = 78             -> <<43>>
        [] k = TAB            -> IF shift_down THEN CSI \o <<90>> ELSE <<9>>
        [] OTHER              -> IF c = 0 THEN << >>
                                 ELSE IF ctrl_down /\ x # -1 THEN <<x>>
                                 ELSE IF alt_down THEN <<ESC, c>> ELSE <<c>>

\* The same for a key with E0.
ExtBytes(k) ==
  CASE k = ENTER -> <<LF>>
    [] k = SLASH -> <<47>>
    [] k \in Nav -> handle_nav_key(k)
    [] OTHER     -> << >>

---------------------------------------------------------------------------
(* The interrupt handler: one scan code *)

\* Mutant: the release of a key with E0 is not looked at.
ext_release_none(k) == UNCHANGED <<shift_down, ctrl_down, alt_down, caps_lock>>

ext_release(k) ==
  /\ ctrl_down' = (ctrl_down /\ k # CTRL)
  /\ alt_down' = (alt_down /\ k # ALT)
  /\ UNCHANGED <<shift_down, caps_lock>>

release(k) ==
  /\ shift_down' = (shift_down /\ k \notin {LSHIFT, RSHIFT})
  /\ ctrl_down' = (ctrl_down /\ k # CTRL)
  /\ alt_down' = (alt_down /\ k # ALT)
  /\ UNCHANGED caps_lock

ext_press(k) ==
  /\ ctrl_down' = (ctrl_down \/ k = CTRL)
  /\ alt_down' = (alt_down \/ k = ALT)
  /\ queue_str(IF k \in {CTRL, ALT} THEN << >> ELSE ExtBytes(k))
  /\ UNCHANGED <<shift_down, caps_lock>>

press(k) ==
  /\ shift_down' = (shift_down \/ k \in {LSHIFT, RSHIFT})
  /\ ctrl_down' = (ctrl_down \/ k = CTRL)
  /\ alt_down' = (alt_down \/ k = ALT)
  /\ caps_lock' = (caps_lock # (k = CAPS))
  /\ queue_str(IF k \in {LSHIFT, RSHIFT, CTRL, ALT, CAPS} THEN << >> ELSE KeyBytes(k))

keyboard_handler ==
  LET scancode == Head(wire)
  IN  /\ wire # << >>
      /\ wire' = Tail(wire)
      /\ e0_prefix' = (scancode = E0)
      /\ IF scancode = E0
         THEN UNCHANGED <<ringVars, shift_down, ctrl_down, alt_down, caps_lock, torn>>
         ELSE IF scancode >= BREAK
         THEN /\ IF e0_prefix THEN ext_release(scancode - BREAK)
                              ELSE release(scancode - BREAK)
              /\ UNCHANGED <<ringVars, torn>>
         ELSE IF e0_prefix THEN ext_press(scancode) ELSE press(scancode)
      /\ UNCHANGED <<held, twins>>

---------------------------------------------------------------------------
(* The keyboard: a key sends its scan code when it goes down and again,    *)
(* with BREAK added, when it comes up.  With a shift held, a navigation    *)
(* key first sends a release of the shift, and its press afterwards, both  *)
(* with E0.                                                                *)

Codes(k, up) ==
  LET code == (k % EXT) + (IF up THEN BREAK ELSE 0)
      fake == k - EXT \in Nav /\ {LSHIFT, RSHIFT} \cap held # {}
  IN  IF k < EXT THEN <<code>>
      ELSE IF ~fake THEN <<E0, code>>
      ELSE IF up THEN <<E0, code, E0, LSHIFT>> ELSE <<E0, LSHIFT + BREAK, E0, code>>

Modifiers == {{LSHIFT, RSHIFT}, {CTRL, RCTRL}, {ALT, RALT}}

\* A key that is kept down repeats its scan code.
Press(k) ==
  /\ wire = << >>
  /\ held' = held \cup ({k} \cap UNION Modifiers)
  /\ wire' = Codes(k, FALSE)
  /\ twins' = (twins \/ \E M \in Modifiers : M \subseteq held')
  /\ UNCHANGED <<ringVars, flagVars, torn>>

Release(k) ==
  /\ wire = << >>
  /\ k \in UNION Modifiers => k \in held
  /\ held' = held \ {k}
  /\ wire' = Codes(k, TRUE)
  /\ UNCHANGED <<ringVars, flagVars, twins, torn>>

keyboard_init ==
  /\ key_buffer = [i \in 0 .. KEYBUF - 1 |-> 0]
  /\ buffer_head = 0 /\ buffer_tail = 0
  /\ shift_down = FALSE /\ ctrl_down = FALSE /\ alt_down = FALSE
  /\ caps_lock = FALSE /\ e0_prefix = FALSE
  /\ held = {} /\ wire = << >>
  /\ twins = FALSE /\ torn = FALSE

---------------------------------------------------------------------------
(* Properties *)

KeyTypeOK ==
  /\ key_buffer \in [0 .. KEYBUF - 1 -> 0 .. 127]
  /\ buffer_head \in 0 .. KEYBUF - 1 /\ buffer_tail \in 0 .. KEYBUF - 1
  /\ {shift_down, ctrl_down, alt_down, caps_lock, e0_prefix, twins, torn} \subseteq BOOLEAN
  /\ held \subseteq Keys
  /\ Len(wire) <= 4

\* The modifier flags are what is held down, whichever of its two keys it is
\* and however E0 and the codes after it are spread over interrupts.  Only a
\* person who holds both keys of a kind and releases one sees the flag drop.
ModifiersFollowKeys ==
  wire = << >> /\ ~twins =>
    /\ ~e0_prefix
    /\ shift_down <=> {LSHIFT, RSHIFT} \cap held # {}
    /\ ctrl_down <=> {CTRL, RCTRL} \cap held # {}
    /\ alt_down <=> {ALT, RALT} \cap held # {}
=============================================================================
