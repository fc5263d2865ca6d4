------------------------- MODULE MCLangGraphHandler -------------------------
(***************************************************************************)
(* Small graphs for TLC, beside one caller of guarded functions.           *)
(***************************************************************************)
EXTENDS LangGraphHandler

MCRetries == [x \in CountingTriggers |-> 2]

\* A node has an output or an error; on_step_end also takes both or neither.
MCAnything == (Outputs \cup {None}) \X (AgentErrors \cup {None})
MCEither == {r \in MCAnything : (r[1] = None) # (r[2] = None)}

=============================================================================
