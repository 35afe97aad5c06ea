----------------------------- MODULE SignalEngine ------------------------------
(***************************************************************************)
(* POST /api/agent/analyse of apps/api and SignalEngine.run of             *)
(* services/signal-engine: the market's data are read, the agent is asked, *)
(* the signal is stored and then published.  Every request of the route    *)
(* triggers an analysis: no snapshot of an earlier one is kept.            *)
(***************************************************************************)
EXTENDS GrokAgent

CONSTANT MayCrash       \* TRUE: the process may end under its requests

ASSUME SignalAssumption == MayCrash \in BOOLEAN

VARIABLES
    port,           \* "grok", or the stub if Grok is not configured
    pc,             \* where the request is
    signal,         \* what getValidatedSignal returned, or None
    signals,        \* the rows of signals, in the order of their creation
    stream,         \* signal.events
    stalled         \* (history) requests whose body will never end

signalVars == <<port, pc, signal, signals, stream, stalled>>
vars       == <<chatVars, agentVars, signalVars>>

Places == {"idle", "price", "context", "analyse", "store", "publish",
           "answered", "refused", "failed", "crashed"}

Stored == [request : Requests, signal : Signal]

SignalTypeOK ==
    /\ XaiTypeOK /\ AgentTypeOK
    /\ port \in {"grok", "stub"}
    /\ pc \in [Requests -> Places]
    /\ signal \in [Requests -> Signal \cup {None}]
    /\ signals \in Seq(Stored) /\ stream \in Seq(Stored)
    /\ stalled \subseteq Requests

Init ==
    /\ XaiInit /\ AgentInit
    /\ port \in {"grok", "stub"}
    /\ pc = [r \in Requests |-> "idle"]
    /\ signal = [r \in Requests |-> None]
    /\ signals = <<>> /\ stream = <<>>
    /\ stalled = {}

-----------------------------------------------------------------------------
Goto(r, from, to) == pc[r] = from /\ pc' = [pc EXCEPT ![r] = to]

(* The handler: a body that does not parse, or a market not found.          *)
Analyse(r) ==
    /\ \E to \in {"price", "refused"} : Goto(r, "idle", to)
    /\ UNCHANGED <<chatVars, agentVars, port, signal, signals, stream, stalled>>

(* assembleAnalysisInputs: nothing is analysed without a fresh price.       *)
ReadPrice(r) ==
    /\ \E to \in {"context", "refused"} : Goto(r, "price", to)
    /\ UNCHANGED <<chatVars, agentVars, port, signal, signals, stream, stalled>>

(* Summaries, ticks, trades and positions; then the port is called.         *)
ReadContext(r) ==
    /\ pc[r] = "context"
    /\ IF port = "grok"
       THEN pc' = [pc EXCEPT ![r] = "analyse"] /\ Analyze(r) /\ UNCHANGED signal
       ELSE /\ pc' = [pc EXCEPT ![r] = "store"]
            /\ signal' = [signal EXCEPT ![r] = [action |-> "PASS", reason |-> None]]
            /\ UNCHANGED <<chatVars, agentVars>>
    /\ UNCHANGED <<port, signals, stream, stalled>>

(* getValidatedSignal: what the port returns is parsed once more.           *)
Analysed(r) ==
    /\ Goto(r, "analyse", "store")
    /\ agent[r] = "done"
    /\ signal' = [signal EXCEPT ![r] = finalSignal[r]]
    /\ UNCHANGED <<chatVars, agentVars, port, signals, stream, stalled>>

Store(r) ==
    /\ Goto(r, "store", "publish")
    /\ signals' = Append(signals, [request |-> r, signal |-> signal[r]])
    /\ UNCHANGED <<chatVars, agentVars, port, signal, stream, stalled>>

Publish(r) ==
    /\ Goto(r, "publish", "answered")
    /\ stream' = Append(stream, [request |-> r, signal |-> signal[r]])
    /\ UNCHANGED <<chatVars, agentVars, port, signal, signals, stalled>>

-----------------------------------------------------------------------------
(* An await of the route or of run rejects: 500, and nothing is undone.     *)
Rejects(r) ==
    /\ MayFail /\ pc[r] \in {"price", "context", "store", "publish"}
    /\ pc' = [pc EXCEPT ![r] = "failed"]
    /\ UNCHANGED <<chatVars, agentVars, port, signal, signals, stream, stalled>>

Crash(r) ==
    /\ MayCrash /\ pc[r] \in {"price", "context", "analyse", "store", "publish"}
    /\ pc' = [pc EXCEPT ![r] = "crashed"]
    /\ UNCHANGED <<chatVars, agentVars, port, signal, signals, stream, stalled>>

(* xAI stops in the middle of a body.                                       *)
BodyStalls(r) ==
    /\ pc[r] = "analyse" /\ chat[r] \in {"body", "error_body"} /\ r \notin stalled
    /\ stalled' = stalled \cup {r}
    /\ UNCHANGED <<chatVars, agentVars, port, pc, signal, signals, stream>>

Moves(r) ==
    /\ pc[r] = "analyse"
    /\ AgentStep(r)
    /\ UNCHANGED signalVars

Replies(r) ==
    /\ pc[r] = "analyse" /\ r \notin stalled
    /\ NetworkStep(r)
    /\ UNCHANGED <<agentVars, signalVars>>

RequestStep(r) ==
    \/ ReadPrice(r) \/ ReadContext(r) \/ Analysed(r) \/ Store(r) \/ Publish(r) \/ Moves(r)

Fault(r) ==
    \/ Rejects(r) \/ Crash(r) \/ BodyStalls(r)
    \/ pc[r] = "analyse" /\ AuditFails(r) /\ UNCHANGED signalVars

Next ==
    \E r \in Requests : Analyse(r) \/ RequestStep(r) \/ Replies(r) \/ Fault(r)

Spec == Init /\ [][Next]_vars

(* The event loop runs what it can, its timers among it; xAI ends the bodies *)
(* that do not stall, but need not answer at all.                           *)
Fairness ==
    \A r \in Requests : WF_vars(RequestStep(r)) /\ WF_vars(BodyStep(r) /\ Replies(r))

FairSpec == Spec /\ Fairness

-----------------------------------------------------------------------------
(***************************************************************************)
(* What an analysis promises.                                              *)
(***************************************************************************)
Over(r)      == pc[r] \in {"answered", "refused", "failed", "crashed"}
StoredOf(r)  == {i \in DOMAIN signals : signals[i].request = r}
EventsOf(r)  == {i \in DOMAIN stream : stream[i].request = r}

(* An analysis cannot cost more than its turns and their attempts, and it   *)
(* sends nothing more once xAI has refused the key or the request.          *)
CallsBounded ==
    \A r \in Requests :
        /\ fetches[r] <= MaxTurns * MaxAttempts
        /\ r \in fatal => chat[r] = "done" /\ HasError(result[r])

(* Uncertain means no trade: a signal that is stored says to buy only if    *)
(* the model's own last answer did, valid and within its turns; after every *)
(* failure it is the PASS that names it.                                    *)
TradesAreAnswers ==
    \A i \in DOMAIN signals :
        LET r == signals[i].request
            s == signals[i].signal
        IN  /\ s.action # "PASS" => HasFinal(result[r]) /\ result[r].final = s.action
            /\ s.reason = "agent_error" <=> HasError(result[r])
            /\ s.reason = "invalid_output_schema" <=>
                   HasFinal(result[r]) /\ result[r].final = "invalid"
            /\ s.reason = "agent_iteration_cap_exceeded" <=> HasTools(result[r])

(* Whatever fails in between, an event tells of a signal that is stored and *)
(* is the same, no request has two, and one that is answered has one of     *)
(* each.  (A failed request may leave a signal nobody was told of.)         *)
EventsAreStored ==
    \A r \in Requests :
        /\ Cardinality(StoredOf(r)) <= 1 /\ Cardinality(EventsOf(r)) <= 1
        /\ \A i \in EventsOf(r) : \E j \in StoredOf(r) : stream[i] = signals[j]
        /\ pc[r] = "answered" => StoredOf(r) # {} /\ EventsOf(r) # {}

(* The audit trail of a stored signal is the analysis it came from: the run *)
(* with that signal, and its tool calls in their order, none missing unless *)
(* a rejection has cut it off.  The stub leaves none.                       *)
StoredIsAudited ==
    \A r \in Requests :
        /\ callRows[r] = SubSeq(records[r], 1, Len(callRows[r]))
        /\ callRows[r] # <<>> => runRow[r] # None
        /\ runRow[r] # None => runRow[r] = finalSignal[r]
        /\ StoredOf(r) # {} /\ port = "grok" /\ r \notin untraced =>
               runRow[r] = signal[r] /\ callRows[r] = records[r]

(* An analysis that is begun ends: answered, or failed, or lost with its    *)
(* process; only a body that stalls can keep it waiting.                    *)
AnalysisEnds ==
    \A r \in Requests : pc[r] # "idle" ~> (Over(r) \/ r \in stalled)

(* Whatever fails, of an analysis, its trail and its announcement: calls    *)
(* are bounded, and rows, events and trail tell of the same signal.         *)
SignalInv == SignalTypeOK /\ CallsBounded /\ EventsAreStored /\ StoredIsAudited
=============================================================================
