--------------------------- MODULE CommittedChain ---------------------------
(***************************************************************************)
(* What the model-operation lane promises about one user: the backend's    *)
(* operation versions 1, 2, 3, ... are committed one at a time and in      *)
(* order, each once and under one disposition.  A commit that nobody acted *)
(* on may be lost with the point it is in; one somebody acted on may not.  *)
(***************************************************************************)
EXTENDS Naturals, Sequences

CONSTANTS Operations, Dispositions

VARIABLES log,     \* log[n] is what was committed at version n
          acted    \* how much of it somebody acted on

CInit == log = <<>> /\ acted = 0

Commit(o, d) ==
  /\ log' = Append(log, [op |-> o, version |-> Len(log) + 1, disposition |-> d])
  /\ UNCHANGED acted
Act == acted' \in acted..Len(log) /\ UNCHANGED log
Lose == log' = SubSeq(log, 1, acted) /\ UNCHANGED acted

CNext == Act \/ Lose \/ \E o \in Operations, d \in Dispositions : Commit(o, d)

CSpec == CInit /\ [][CNext]_<<log, acted>>
=============================================================================
