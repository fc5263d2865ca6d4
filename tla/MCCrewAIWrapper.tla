-------------------------- MODULE MCCrewAIWrapper --------------------------
(***************************************************************************)
(* A small crew for TLC.                                                   *)
(***************************************************************************)
EXTENDS CrewAIWrapper, TLC

CONSTANTS researcher, writer, draft, sources

MCOutputsOf == [a \in Agents |-> IF a = researcher THEN {sources} ELSE {draft}]

MCRetries == [x \in CountingTriggers |-> 1]

\* The two agents may be exchanged, each together with what it produces.
Exchange ==
    (researcher :> writer) @@ (writer :> researcher)
        @@ (sources :> draft) @@ (draft :> sources)

MCSymmetry == {Exchange, [x \in DOMAIN Exchange |-> x]}

\* One run of the tests, which fails.
MCResults == {[x \in {"a"} |-> FALSE]}

=============================================================================
