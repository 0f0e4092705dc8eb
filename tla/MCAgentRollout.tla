--------------------------- MODULE MCAgentRollout ---------------------------
EXTENDS AgentRollout, TLC

\* Every rollout selects every agent.
All == [r \in Rollout |-> Agent]
Symmetry == Permutations(Worker)

\* Workers are interchangeable: of those that are idle the first sets to work.
FirstIdle ==
  \A v, w \in Worker : v < w /\ pc[v] = "idle" /\ pc[w] = "idle" => pc'[w] = "idle"

\* Agent 2 alone may be offline when the rollout is planned.
OtherwiseOnline ==
  \A r \in Rollout, a \in Agent \ {2} : item'[r][a] = "skipped" => batch'[r][a] >= 0
=============================================================================
