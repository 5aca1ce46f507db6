-------------------------- MODULE MCUserScheduler --------------------------
(* Two hot users with two messages each and a cold one with one. *)
EXTENDS UserScheduler, TLC

OwnerHotCold ==
  [m \in Messages |-> CASE m \in {"a1", "a2"} -> "hotA"
                      [] m \in {"b1", "b2"} -> "hotB"
                      [] OTHER -> "cold"]
=============================================================================
