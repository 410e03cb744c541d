---------------------------- MODULE MCQuickConnect ----------------------------
(* QuickConnect with two frequencies and two modes: the first frequency    *)
(* has a network in each mode, the second in one mode only.                *)
EXTENDS QuickConnect

CONSTANTS f1, f2, m1, m2

MCNetworks == Targets \ {[freq |-> f2, mode |-> m1]}

===============================================================================
