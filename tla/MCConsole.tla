----------------------------- MODULE MCConsole -----------------------------
(* Instances of Console for TLC. *)
EXTENDS Console

Cooked(echo) == [icanon |-> TRUE, echo |-> echo, vmin |-> 1]
Raw(echo, vmin) == [icanon |-> FALSE, echo |-> echo, vmin |-> vmin]

\* For the keyboard: d, with Ctrl end of file, the arrow Up and both Ctrls.
TypingKeys == {32, EXT + 72, CTRL, RCTRL}
SilentModes == {Cooked(FALSE), Raw(FALSE, 1)}
NoOutput == {}

\* For the screen: w, with Ctrl the erasure of a word, l, with Ctrl the screen
\* printed anew, Tab, Backspace, Enter and Ctrl; a prompt, half an escape sequence,
\* moving the cursor, and the alternate screen.
EditKeys == {17, 38, 15, 14, ENTER, CTRL}
EchoModes == {Cooked(TRUE)}
Prompts == {<<62>>, <<ESC>>, CSI \o <<59, 57, 67>>,
            EnterAltScreen}

\* What a later step can depend on: not the answer of the last read, nor the
\* bytes of the ring that have been taken, nor which bytes a raw read has, nor
\* the parameters of an escape sequence that is over.
ConsoleView ==
  <<buffer_tail, Waiting, flagVars, held, wire, twins, torn, con,
    IF tty.ansi_state = 2 THEN tty
    ELSE [tty EXCEPT !.params = NoParams, !.nparams = 0, !.private = FALSE],
    pc, count, IF InLine THEN buf ELSE [i \in DOMAIN buf |-> 0], interrupts, plain>>
=============================================================================
