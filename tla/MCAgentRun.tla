------------------------------- MODULE MCAgentRun ------------------------------
(* AgentRun with two runs of two tool calls each.                             *)
EXTENDS AgentRun, TLC

CONSTANTS r1, r2

\* The chat that is ruled out, under the name of the list and under another spelling,
\* one that is not, and a call that names none.
MCBarred == {[form |-> "at", of |-> "away"]}
MCTargets == {[form |-> "plain", of |-> "home"], [form |-> "link", of |-> "away"],
              NoTarget}

RunSymmetry == Permutations({r1, r2})
================================================================================
