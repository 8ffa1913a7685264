---------------------------- MODULE MCDeliveries ----------------------------
(***************************************************************************)
(* Delivery records, and the parts of a tool call, for one run of TLC.     *)
(* They share no state: a behaviour takes the steps of one of them, the    *)
(* variables of the others keep one fixed first value.                     *)
(***************************************************************************)
EXTENDS Deliveries, ToolBatches, ToolGate, ReadCache, SubAgents, TLC

VARIABLE part

others == <<toolVars, gateVars, readVars, subVars>>

\* The call at the gate while another part is checked.
QuietCall ==
  [fault |-> "none", normal |-> FALSE, rules |-> <<>>, hooks |-> <<>>,
   asks |-> FALSE, autonomous |-> FALSE, bounded |-> FALSE, mutating |-> FALSE]

PartsInit ==
  /\ part \in {"deliveries", "batches", "gate", "reads", "subs"}
  /\ Init /\ ReadInit /\ SubInit
  /\ IF part = "batches" THEN ToolInit ELSE called = <<>> /\ ToolInit
  /\ IF part = "gate" THEN GateInit ELSE call = QuietCall /\ GateInit

PartsNext ==
  \/ part = "deliveries" /\ Next /\ UNCHANGED <<part, others>>
  \/ part = "batches" /\ ToolNext
     /\ UNCHANGED <<part, vars, gateVars, readVars, subVars>>
  \/ part = "gate" /\ GateNext
     /\ UNCHANGED <<part, vars, toolVars, readVars, subVars>>
  \/ part = "reads" /\ ReadNext
     /\ UNCHANGED <<part, vars, toolVars, gateVars, subVars>>
  \/ part = "subs" /\ SubNext
     /\ UNCHANGED <<part, vars, toolVars, gateVars, readVars>>

PartsSpec == PartsInit /\ [][PartsNext]_<<part, vars, others>>
=============================================================================
