------------------------------ MODULE GrokAgent --------------------------------
(***************************************************************************)
(* GrokAgent.analyze of services/grok-agent: turns of the model with the   *)
(* tools it calls in between, PASS after any failure, and the audit trail. *)
(*                                                                         *)
(* Tools only read the context they were given, so a tool call is whether  *)
(* callTool found a result or wrapped an error.  The PASS built after a    *)
(* failure is valid for every context assembleAnalysisInputs makes: the    *)
(* throw of AgentAnalysisError at grok-agent.ts:123 is not reached.        *)
(***************************************************************************)
EXTENDS XaiClient

CONSTANTS
    MaxTurns,       \* maxToolIterations
    MayFail         \* TRUE: an await on the database or Redis may reject

Reasons == {"agent_iteration_cap_exceeded", "invalid_output_schema", "agent_error"}

Envelopes == {"result", "tool_error"}      \* both trustedAsInstruction: false

Actions == {"BUY_YES", "BUY_NO", "PASS"}

Signal == [action : Actions, reason : Reasons \cup {None}]

ASSUME AgentAssumption ==
    /\ MaxTurns \in Nat \ {0} /\ MayFail \in BOOLEAN
    /\ None \notin Reasons \cup Signal

VARIABLES
    agent,          \* "idle", "chat", "run", "calls", "done": where analyze() is
    turn,
    records,        \* toolCallRecords
    finalSignal,    \* or None
    runRow,         \* agent_runs: the row of the request, or None
    callRows,       \* agent_tool_calls of that row
    untraced        \* (history) requests whose audit trail was cut by a rejection

agentVars == <<agent, turn, records, finalSignal, runRow, callRows, untraced>>

AgentTypeOK ==
    /\ agent \in [Requests -> {"idle", "chat", "run", "calls", "done"}]
    /\ turn \in [Requests -> 0..MaxTurns]
    /\ records \in [Requests -> Seq(Envelopes)]
    /\ finalSignal \in [Requests -> Signal \cup {None}]
    /\ runRow \in [Requests -> Signal \cup {None}]
    /\ callRows \in [Requests -> Seq(Envelopes)]
    /\ untraced \subseteq Requests

AgentInit ==
    /\ agent = [r \in Requests |-> "idle"]
    /\ turn = [r \in Requests |-> 0]
    /\ records = [r \in Requests |-> <<>>]
    /\ finalSignal = [r \in Requests |-> None]
    /\ runRow = [r \in Requests |-> None]
    /\ callRows = [r \in Requests |-> <<>>]
    /\ untraced = {}

-----------------------------------------------------------------------------
(* analyze(): the first turn.                                               *)
Analyze(r) ==
    /\ agent' = [agent EXCEPT ![r] = "chat"]
    /\ turn' = [turn EXCEPT ![r] = 1]
    /\ StartChat(r)
    /\ UNCHANGED <<records, finalSignal, runRow, callRows, untraced>>

HasTools(reply) == reply # None /\ "tools" \in DOMAIN reply
HasFinal(reply) == reply # None /\ "final" \in DOMAIN reply
HasError(reply) == reply # None /\ "error" \in DOMAIN reply

Concludes(r, signal) ==
    /\ agent' = [agent EXCEPT ![r] = "run"]
    /\ finalSignal' = [finalSignal EXCEPT ![r] = signal]

(* The catch block: a PASS that names the failure.                          *)
Fallback(r, reason) == Concludes(r, [action |-> "PASS", reason |-> reason])

(* callTool: a name that is no tool's, arguments that are not JSON or not of *)
(* its schema, and a handler that throws all end in a wrapped error.        *)
CallTools(r, tools) ==
    \E envelopes \in [1..tools -> Envelopes] :
        records' = [records EXCEPT ![r] = @ \o envelopes]

(* A turn with tool calls: they are answered, and the model is asked again; *)
(* after the last turn the loop ends without an answer.                     *)
TurnsOver(r) == turn[r] = MaxTurns

ToolTurnEnds(r) ==
    /\ agent[r] = "chat" /\ chat[r] = "done" /\ HasTools(result[r])
    /\ CallTools(r, result[r].tools)
    /\ IF TurnsOver(r)
       THEN /\ Fallback(r, "agent_iteration_cap_exceeded")
            /\ UNCHANGED <<turn, chatVars>>
       ELSE /\ turn' = [turn EXCEPT ![r] = @ + 1]
            /\ StartChat(r)
            /\ UNCHANGED <<agent, finalSignal>>
    /\ UNCHANGED <<runRow, callRows, untraced>>

(* The last turn: parseAgentSignalOrThrow.                                  *)
ActsOnInvalid(r) ==     \* wrong: JSON that is not of the schema is acted on
    /\ agent[r] = "chat" /\ chat[r] = "done" /\ HasFinal(result[r])
    /\ Concludes(r, [action |-> IF result[r].final = "invalid" THEN "BUY_YES" ELSE result[r].final,
                     reason |-> None])
    /\ UNCHANGED <<turn, records, runRow, callRows, untraced, chatVars>>

FinalTurnEnds(r) ==
    /\ agent[r] = "chat" /\ chat[r] = "done" /\ HasFinal(result[r])
    /\ IF result[r].final = "invalid"
       THEN Fallback(r, "invalid_output_schema")
       ELSE Concludes(r, [action |-> result[r].final, reason |-> None])
    /\ UNCHANGED <<turn, records, runRow, callRows, untraced, chatVars>>

ChatThrows(r) ==
    /\ agent[r] = "chat" /\ chat[r] = "done" /\ HasError(result[r])
    /\ Fallback(r, "agent_error")
    /\ UNCHANGED <<turn, records, runRow, callRows, untraced, chatVars>>

-----------------------------------------------------------------------------
(* persistAuditTrail: the run, then its tool calls one by one.              *)
OnlySuccess(r) ==      \* wrong: a run that failed is not recorded
    /\ agent[r] = "run"
    /\ agent' = [agent EXCEPT ![r] = IF HasError(result[r]) \/ records[r] = <<>> THEN "done" ELSE "calls"]
    /\ runRow' = [runRow EXCEPT ![r] = IF HasError(result[r]) THEN None ELSE finalSignal[r]]
    /\ UNCHANGED <<turn, records, finalSignal, callRows, untraced, chatVars>>

AuditRun(r) ==
    /\ agent[r] = "run"
    /\ agent' = [agent EXCEPT ![r] = IF records[r] = <<>> THEN "done" ELSE "calls"]
    /\ runRow' = [runRow EXCEPT ![r] = finalSignal[r]]
    /\ UNCHANGED <<turn, records, finalSignal, callRows, untraced, chatVars>>

AuditCall(r) ==
    /\ agent[r] = "calls"
    /\ callRows' = [callRows EXCEPT ![r] = Append(@, records[r][Len(@) + 1])]
    /\ agent' = [agent EXCEPT ![r] = IF Len(callRows'[r]) = Len(records[r]) THEN "done" ELSE "calls"]
    /\ UNCHANGED <<turn, records, finalSignal, runRow, untraced, chatVars>>

(* A rejection is logged, and the signal returned all the same.             *)
AuditFails(r) ==
    /\ MayFail /\ agent[r] \in {"run", "calls"}
    /\ agent' = [agent EXCEPT ![r] = "done"]
    /\ untraced' = untraced \cup {r}
    /\ UNCHANGED <<turn, records, finalSignal, runRow, callRows, chatVars>>

AgentStep(r) ==
    \/ ToolTurnEnds(r) \/ FinalTurnEnds(r) \/ ChatThrows(r) \/ AuditRun(r) \/ AuditCall(r)
    \/ ClientStep(r) /\ UNCHANGED agentVars
=============================================================================
