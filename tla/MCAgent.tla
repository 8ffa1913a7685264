------------------------------- MODULE MCAgent -------------------------------
(***************************************************************************)
(* The agent's run, one question to the model and the pool of tool servers *)
(* for one run of TLC.  They share no state here: a behaviour takes the    *)
(* steps of one of them and the variables of the others stand still.       *)
(***************************************************************************)
EXTENDS AgentLoop, LlmGateway, McpPool, TLC

VARIABLE part

agentVars == <<part, vars, llmVars, mcpVars>>

AgentInit ==
  /\ part \in {"loop", "question", "servers"}
  /\ Init /\ LlmInit /\ McpInit
  /\ part # "loop" => ~unattended

AgentNext ==
  \/ part = "loop" /\ Next /\ UNCHANGED <<part, llmVars, mcpVars>>
  \/ part = "question" /\ LlmNext /\ UNCHANGED <<part, vars, mcpVars>>
  \/ part = "servers" /\ McpNext /\ UNCHANGED <<part, vars, llmVars>>

\* The fairness of each part, asked of its own behaviours only.
AgentSpec ==
  /\ AgentInit /\ [][AgentNext]_agentVars
  /\ WF_vars(part = "loop" /\ Step)
  /\ WF_llmVars(part = "question" /\ Request)
  /\ WF_llmVars(part = "question" /\ Silence)
  /\ WF_llmVars(part = "question" /\ DelayOver)
  /\ WF_llmVars(part = "question" /\ Once)
  /\ WF_llmVars(part = "question" /\ ReadError)
  /\ WF_mcpVars(part = "servers" /\ Watch)
  /\ WF_mcpVars(part = "servers" /\ HearExit)
  /\ \A p \in Pass : WF_mcpVars(part = "servers" /\ PassSteps(p))
-----------------------------------------------------------------------------
\* What the steps of a question do: after the user's stop nothing is asked any
\* more, and both the stop and a silent server end it (gateway.js:366-370).
LlmEnds ==
  NothingAskedStopped /\ StopIsHeard /\ (part = "question" => QuestionEnds)

\* What the steps of the pool do: a living server keeps its place, and what is
\* declared comes back to the tool face (mcp.js:71, connectors.js:324).
McpServes == LivingStays /\ (part = "servers" => ComesBack)
=============================================================================
