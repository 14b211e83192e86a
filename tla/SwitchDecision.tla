-------------------------- MODULE SwitchDecision ---------------------------
(***************************************************************************)
(* What the root transaction helper promises about one public-protocol     *)
(* switch: its outcome is decided once, and what the helper tells the      *)
(* Gateway about the outcome is what was decided.                          *)
(*                                                                         *)
(* This is the abstract specification that ProtocolTxn implements; it      *)
(* models no code of its own.                                              *)
(***************************************************************************)
CONSTANT Ops            \* identifiers of switch operations

VARIABLES decision,     \* outcome of each operation, "open" until decided
          told          \* outcome published to the Gateway, "open" until then

vars == <<decision, told>>

Outcomes == {"finalized", "rolled_back"}

Init == /\ decision = [op \in Ops |-> "open"]
        /\ told = [op \in Ops |-> "open"]

Decide(op) == /\ decision[op] = "open"
              /\ \E d \in Outcomes : decision' = [decision EXCEPT ![op] = d]
              /\ UNCHANGED told

Tell(op) == /\ decision[op] # "open"
            /\ told' = [told EXCEPT ![op] = decision[op]]
            /\ UNCHANGED decision

Next == \E op \in Ops : Decide(op) \/ Tell(op)

Spec == Init /\ [][Next]_vars
============================================================================
