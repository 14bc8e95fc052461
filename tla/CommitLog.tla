----------------------------- MODULE CommitLog -----------------------------
(***************************************************************************)
(* What the service promises to whoever pushes commitments: a log of them  *)
(* that only grows, holds every pushed commitment at most once, and never  *)
(* more than the tree has leaves.                                          *)
(***************************************************************************)
EXTENDS Naturals, Sequences

CONSTANTS Pushes, Width

VARIABLE pushed

LogInit == pushed = <<>>

Push(p) ==
    /\ Len(pushed) < Width
    /\ \A k \in DOMAIN pushed : pushed[k] # p
    /\ pushed' = Append(pushed, p)

LogSpec == LogInit /\ [][\E p \in Pushes : Push(p)]_pushed
=============================================================================
