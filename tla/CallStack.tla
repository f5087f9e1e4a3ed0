----------------------------- MODULE CallStack -----------------------------
(***************************************************************************)
(* What the process layer promises: with one CPU image and no preemption   *)
(* between programs, fork is a call and exit is a return.  The live tasks  *)
(* are the frames of one stack, only its top runs, and when the bottom     *)
(* frame returns the stack starts again from a fresh one.                  *)
(***************************************************************************)
CONSTANTS
  Task,   \* identities a frame can have
  First,  \* the frame the machine starts with
  None    \* the caller of the bottom frame

VARIABLES
  caller,  \* frame -> the frame that waits for it
  top      \* the frame that runs

vars == <<caller, top>>

Init ==
  /\ caller = [t \in {First} |-> None]
  /\ top = First

\* A fresh frame on top; its caller waits.
Call(t) ==
  /\ t \in Task \ DOMAIN caller
  /\ caller' = [u \in DOMAIN caller \cup {t} |->
                  IF u = t THEN top ELSE caller[u]]
  /\ top' = t

\* The top frame is gone and the one that waits for it runs.
Return ==
  /\ caller[top] # None
  /\ caller' = [u \in DOMAIN caller \ {top} |-> caller[u]]
  /\ top' = caller[top]

\* The bottom frame returns only when it is alone, and is replaced.
Restart(t) ==
  /\ DOMAIN caller = {top}
  /\ t \in Task \ {top}
  /\ caller' = [u \in {t} |-> None]
  /\ top' = t

Next == (\E t \in Task : Call(t) \/ Restart(t)) \/ Return

Spec == Init /\ [][Next]_vars

============================================================================
