------------------------------ MODULE MessageLog ------------------------------
(***************************************************************************)
(* What the host may expect of the message store: it is handed the last    *)
(* Size messages that were received and not yet shown, oldest first, each  *)
(* once.  A message that is received while the store is off is shown at    *)
(* once.  GpioStore implements it with a ring.                             *)
(***************************************************************************)
EXTENDS Naturals, Sequences

CONSTANTS
    Messages,
    Size        \* how many messages are kept, at least one

VARIABLES
    log,        \* messages kept, oldest first
    shown       \* messages shown so far

Init == log = <<>> /\ shown = <<>>

Kept(s) == IF Len(s) > Size THEN Tail(s) ELSE s

Store(m) == log' = Kept(Append(log, m)) /\ UNCHANGED shown

ShowOldest ==
    /\ log # <<>>
    /\ shown' = Append(shown, Head(log))
    /\ log' = Tail(log)

ShowAtOnce(m) == shown' = Append(shown, m) /\ UNCHANGED log

Next == ShowOldest \/ \E m \in Messages : Store(m) \/ ShowAtOnce(m)

Spec == Init /\ [][Next]_<<log, shown>>

===============================================================================
