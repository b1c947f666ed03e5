-------------------------- MODULE WindowedDelivery --------------------------
(***************************************************************************)
(* What the lock-stepped simulation promises to the nodes that use the     *)
(* radio: time advances in windows of Step, which the clock of the radio   *)
(* counts as RadioStep each.  A packet that a receiver heard at rx, by     *)
(* that clock, is handed out once, at the end of the first window that     *)
(* ends at rx + Delay or later and, since a window is known only when it   *)
(* is over, no earlier than the window in which it was heard.              *)
(***************************************************************************)
EXTENDS Naturals

CONSTANTS Step, RadioStep, Delay

VARIABLES
  window,     \* windows completed
  waiting,    \* heard, not yet handed out
  out         \* handed out, each with the time at which it was

vars == <<window, waiting, out>>

Init == window = 0 /\ waiting = {} /\ out = {}

Names(S) == {x.packet : x \in S}

\* The packets heard in the window that is just over: those that wait or are
\* out now and did neither before.
NewlyOut == {[packet |-> x.packet, rx |-> x.rx] : x \in out' \ out}
Fresh == (waiting' \cup NewlyOut) \ waiting

Next ==
  LET end == (window + 1) * Step
      due == {x \in waiting \cup Fresh : x.rx + Delay <= end}
  IN  /\ window' = window + 1
      /\ \A x \in Fresh :
           /\ x.rx \in window * RadioStep .. (window + 1) * RadioStep
           /\ x.packet \notin Names(waiting) \cup Names(out)
      /\ waiting' = (waiting \cup Fresh) \ due
      /\ out' = out \cup {[packet |-> x.packet, rx |-> x.rx, at |-> end] : x \in due}

Spec == Init /\ [][Next]_vars
=============================================================================
