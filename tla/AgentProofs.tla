------------------------------ MODULE AgentProofs ------------------------------
(***************************************************************************)
(* Theorems about SignalEngine, with the agent and the client of xAI it    *)
(* runs, and about Discovery, each a specification of its own.             *)
(***************************************************************************)
EXTENDS SignalEngine, Discovery, FiniteSetTheorems, SequenceTheorems, TLAPS

HIDE DiscoveryAssumption

-----------------------------------------------------------------------------
(***************************************************************************)
(* SignalEngine.  How far a request, its agent and its client of xAI have  *)
(* come together, and what each of them leaves behind: the attempts that   *)
(* are spent, the verdict on the last answer, the trail of the agent, and  *)
(* the rows of the route.                                                  *)
(***************************************************************************)
ClientFits(r) ==
    /\ chat[r] = "none" <=> agent[r] = "idle"
    /\ chat[r] = "done" <=> result[r] # None
    /\ agent[r] = "idle" => fetches[r] = 0
    /\ agent[r] # "idle" => /\ attempt[r] \in 1..MaxAttempts /\ turn[r] \in 1..MaxTurns
                            /\ fetches[r] <= (turn[r] - 1) * MaxAttempts + attempt[r]
    /\ chat[r] = "backoff" => attempt[r] # MaxAttempts
    /\ r \in fatal => chat[r] = "done" /\ HasError(result[r])

(* What a last answer, or the error of the client, makes of an analysis.    *)
Verdict(reply) ==
    IF HasError(reply) THEN [action |-> "PASS", reason |-> "agent_error"]
    ELSE IF HasTools(reply) THEN [action |-> "PASS", reason |-> "agent_iteration_cap_exceeded"]
    ELSE IF reply.final = "invalid" THEN [action |-> "PASS", reason |-> "invalid_output_schema"]
    ELSE [action |-> reply.final, reason |-> None]

AgentFits(r) ==
    /\ agent[r] \in {"idle", "chat"} => finalSignal[r] = None
    /\ agent[r] \in {"idle", "chat", "run"} => runRow[r] = None /\ Len(callRows[r]) = 0
    /\ agent[r] \in {"run", "calls", "done"} => chat[r] = "done" /\ finalSignal[r] = Verdict(result[r])
    /\ agent[r] = "calls" => runRow[r] = finalSignal[r] /\ Len(callRows[r]) < Len(records[r])
    /\ agent[r] = "done" /\ r \notin untraced =>
          runRow[r] = finalSignal[r] /\ Len(callRows[r]) = Len(records[r])
    /\ Len(callRows[r]) <= Len(records[r])
    /\ \A i \in 1..Len(callRows[r]) : callRows[r][i] = records[r][i]
    /\ Len(callRows[r]) > 0 => runRow[r] # None
    /\ runRow[r] # None => runRow[r] = finalSignal[r]

StubSignal == [action |-> "PASS", reason |-> None]

RouteFits(r) ==
    /\ pc[r] \in {"idle", "price", "context", "refused"} => agent[r] = "idle"
    /\ pc[r] = "analyse" => port = "grok" /\ agent[r] # "idle"
    /\ port = "stub" => agent[r] = "idle"
    /\ pc[r] \in {"idle", "price", "context", "refused", "analyse"} => signal[r] = None
    /\ pc[r] \in {"store", "publish", "answered"} => signal[r] # None
    /\ signal[r] # None => IF port = "grok" THEN agent[r] = "done" /\ signal[r] = finalSignal[r]
                           ELSE signal[r] = StubSignal

Fits(r) == ClientFits(r) /\ AgentFits(r) /\ RouteFits(r)

(* The rows and the events of the route.                                    *)
RowsFit ==
    /\ \A i \in 1..Len(signals) :
          /\ signals[i].signal = signal[signals[i].request]
          /\ pc[signals[i].request] \in {"publish", "answered", "failed", "crashed"}
    /\ \A i, j \in 1..Len(signals) : signals[i].request = signals[j].request => i = j
    /\ \A i \in 1..Len(stream) :
          /\ pc[stream[i].request] = "answered"
          /\ \E j \in 1..Len(signals) : stream[i] = signals[j]
    /\ \A i, j \in 1..Len(stream) : stream[i].request = stream[j].request => i = j
    /\ \A r \in Requests :
          /\ pc[r] \in {"publish", "answered"} => \E i \in 1..Len(signals) : signals[i].request = r
          /\ pc[r] = "answered" => \E i \in 1..Len(stream) : stream[i].request = r

AnalysisInv == SignalTypeOK /\ (\A r \in Requests : Fits(r)) /\ RowsFit

(* What a reply is, and that it is one thing only.                          *)
LEMMA ReplyIs ==
    ASSUME NEW reply \in ToolTurn \cup Finish \cup Failure \cup {None}
    PROVE  /\ reply # None <=> reply \in ToolTurn \cup Finish \cup Failure
           /\ HasTools(reply) <=> reply \in ToolTurn
           /\ HasFinal(reply) <=> reply \in Finish
           /\ HasError(reply) <=> reply \in Failure
           /\ reply \in ToolTurn => reply \notin Finish \cup Failure /\ reply.tools \in 1..MaxTools
           /\ reply \in Finish => reply \notin ToolTurn \cup Failure /\ reply.final \in Finals
           /\ reply \in Failure => reply \notin ToolTurn \cup Finish
<1>1. None \notin ToolTurn /\ None \notin Finish /\ None \notin Failure
  BY XaiAssumption
<1>2. CASE reply = None
  BY <1>1, <1>2 DEF HasTools, HasFinal, HasError
<1>3. CASE reply \in ToolTurn
  <2>1. DOMAIN reply = {"tools"} /\ reply.tools \in 1..MaxTools
    BY <1>3 DEF ToolTurn
  <2>2. reply \notin Finish /\ reply \notin Failure
    BY <2>1 DEF Finish, Failure
  <2> QED BY <1>1, <1>3, <2>1, <2>2 DEF HasTools, HasFinal, HasError
<1>4. CASE reply \in Finish
  <2>1. DOMAIN reply = {"final"} /\ reply.final \in Finals
    BY <1>4 DEF Finish
  <2>2. reply \notin ToolTurn /\ reply \notin Failure
    BY <2>1 DEF ToolTurn, Failure
  <2> QED BY <1>1, <1>4, <2>1, <2>2 DEF HasTools, HasFinal, HasError
<1>5. CASE reply \in Failure
  <2>1. DOMAIN reply = {"error"}
    BY <1>5 DEF Failure
  <2>2. reply \notin ToolTurn /\ reply \notin Finish
    BY <2>1 DEF ToolTurn, Finish
  <2> QED BY <1>1, <1>5, <2>1, <2>2 DEF HasTools, HasFinal, HasError
<1> QED BY <1>2, <1>3, <1>4, <1>5

LEMMA VerdictIs ==
    ASSUME NEW reply \in ToolTurn \cup Finish \cup Failure
    PROVE  /\ Verdict(reply) \in Signal /\ Verdict(reply) # None
           /\ HasError(reply) => Verdict(reply) = [action |-> "PASS", reason |-> "agent_error"]
           /\ HasTools(reply) => Verdict(reply) = [action |-> "PASS", reason |-> "agent_iteration_cap_exceeded"]
           /\ HasFinal(reply) /\ reply.final = "invalid" =>
                 Verdict(reply) = [action |-> "PASS", reason |-> "invalid_output_schema"]
           /\ HasFinal(reply) /\ reply.final # "invalid" =>
                 Verdict(reply) = [action |-> reply.final, reason |-> None]
<1>1. \A a \in Actions, x \in Reasons \cup {None} : [action |-> a, reason |-> x] \in Signal
  BY DEF Signal
<1>2. {"agent_error", "agent_iteration_cap_exceeded", "invalid_output_schema"} \subseteq Reasons /\ "PASS" \in Actions
  BY DEF Reasons, Actions
<1>3. \A f \in Finals : f # "invalid" => f \in Actions
  BY DEF Finals, Actions
<1>4. CASE reply \in Failure
  BY <1>1, <1>2, <1>4, ReplyIs, AgentAssumption DEF Verdict
<1>5. CASE reply \in ToolTurn
  BY <1>1, <1>2, <1>5, ReplyIs, AgentAssumption DEF Verdict
<1>6. CASE reply \in Finish
  BY <1>1, <1>2, <1>3, <1>6, ReplyIs, AgentAssumption DEF Verdict
<1> QED BY <1>4, <1>5, <1>6

(* A step of one request leaves the others alone.                           *)
Same(q) ==
    /\ chat'[q] = chat[q] /\ attempt'[q] = attempt[q] /\ result'[q] = result[q]
    /\ fetches'[q] = fetches[q] /\ (q \in fatal' <=> q \in fatal)
    /\ agent'[q] = agent[q] /\ turn'[q] = turn[q] /\ records'[q] = records[q]
    /\ finalSignal'[q] = finalSignal[q] /\ runRow'[q] = runRow[q] /\ callRows'[q] = callRows[q]
    /\ (q \in untraced' <=> q \in untraced)
    /\ pc'[q] = pc[q] /\ signal'[q] = signal[q]

LEMMA OthersFit ==
    ASSUME NEW r \in Requests, \A q \in Requests : Fits(q), port' = port,
           \A q \in Requests \ {r} : Same(q), Fits(r)'
    PROVE  \A q \in Requests : Fits(q)'
<1> SUFFICES ASSUME NEW q \in Requests \ {r}
             PROVE  Fits(q)'
  OBVIOUS
<1>1. Fits(q) /\ Same(q)
  OBVIOUS
<1>2. ClientFits(q)'
  BY <1>1 DEF Fits, ClientFits, Same, HasError
<1>3. AgentFits(q)'
  BY <1>1 DEF Fits, AgentFits, Same, Verdict, HasError, HasTools
<1>4. RouteFits(q)'
  BY <1>1 DEF Fits, RouteFits, Same, StubSignal
<1> QED BY <1>2, <1>3, <1>4 DEF Fits


(* A step of request r keeps the types, its own order and the others.       *)
StillFits(r) ==
    /\ SignalTypeOK' /\ port' = port /\ Fits(r)'
    /\ \A q \in Requests \ {r} : Same(q)

LEMMA SameAgent ==
    ASSUME NEW r \in Requests, SignalTypeOK, UNCHANGED <<agentVars, signalVars>>,
           \A q \in Requests \ {r} : /\ chat'[q] = chat[q] /\ attempt'[q] = attempt[q]
                                     /\ result'[q] = result[q] /\ fetches'[q] = fetches[q]
                                     /\ (q \in fatal' <=> q \in fatal),
           XaiTypeOK', ClientFits(r)', Fits(r), agent[r] = "chat"
    PROVE  StillFits(r)
<1>1. SignalTypeOK'
  BY DEF SignalTypeOK, AgentTypeOK, agentVars, signalVars
<1>2. AgentFits(r)'
  BY DEF Fits, AgentFits, agentVars
<1>3. RouteFits(r)'
  BY DEF Fits, RouteFits, agentVars, signalVars
<1>4. \A q \in Requests \ {r} : Same(q)
  BY DEF Same, agentVars, signalVars
<1> QED BY <1>1, <1>2, <1>3, <1>4 DEF StillFits, Fits, signalVars

(* The client of a request that is being answered.                          *)
LEMMA Fetching ==
    ASSUME NEW r \in Requests, SignalTypeOK, Fits(r), chat[r] \notin {"none", "done"}
    PROVE  agent[r] = "chat" /\ result[r] = None /\ r \notin fatal
BY DEF Fits, ClientFits, AgentFits, SignalTypeOK, AgentTypeOK

LEMMA FailsKeeps ==
    ASSUME NEW r \in Requests, SignalTypeOK, Fits(r), chat[r] \in {"fetch", "body", "error_body"},
           NEW e \in Transient \cup Fatal, Fails(r, e), UNCHANGED <<agentVars, signalVars>>
    PROVE  StillFits(r)
<1>1. agent[r] = "chat" /\ result[r] = None /\ r \notin fatal
  BY Fetching
<1>2. e \in Fatal => e \notin Transient
  BY DEF Fatal, Transient
<1>3. [error |-> e] \in Failure
  BY DEF Failure
<1>4. HasError([error |-> e]) /\ [error |-> e] # None
  BY <1>3, ReplyIs
<1>5. XaiTypeOK'
  BY <1>3 DEF Fails, SignalTypeOK, XaiTypeOK
<1>6. ClientFits(r)'
  <2>1. turn' = turn /\ attempt' = attempt /\ fetches' = fetches /\ agent' = agent
    BY DEF Fails, agentVars
  <2>2. chat'[r] # "none"
    BY DEF Fails, SignalTypeOK, XaiTypeOK
  <2>3. chat'[r] = "done" <=> result'[r] # None
    BY <1>1, <1>4 DEF Fails, SignalTypeOK, XaiTypeOK
  <2>4. r \in fatal' => chat'[r] = "done" /\ result'[r] = [error |-> e]
    BY <1>1, <1>2 DEF Fails, Retryable, SignalTypeOK, XaiTypeOK
  <2>5. r \in fatal' => HasError(result'[r])
    BY <1>4, <2>4
  <2>6. chat'[r] = "backoff" => attempt'[r] # MaxAttempts
    BY <2>1 DEF Fails, LastTry, SignalTypeOK, XaiTypeOK
  <2> QED BY <1>1, <2>1, <2>2, <2>3, <2>4, <2>5, <2>6 DEF Fits, ClientFits, HasError
<1>7. \A q \in Requests \ {r} : /\ chat'[q] = chat[q] /\ attempt'[q] = attempt[q]
                                /\ result'[q] = result[q] /\ fetches'[q] = fetches[q]
                                /\ (q \in fatal' <=> q \in fatal)
  BY DEF Fails, SignalTypeOK, XaiTypeOK
<1> QED BY <1>1, <1>5, <1>6, <1>7, SameAgent

LEMMA RetryKeeps ==
    ASSUME NEW r \in Requests, SignalTypeOK, Fits(r), Retry(r), UNCHANGED <<agentVars, signalVars>>
    PROVE  StillFits(r)
<1>1. agent[r] = "chat" /\ result[r] = None /\ r \notin fatal
  BY Fetching DEF Retry
<1>2. attempt[r] \in 1..MaxAttempts /\ attempt[r] # MaxAttempts /\ fetches[r] \in Nat
  BY <1>1 DEF Retry, Fits, ClientFits, SignalTypeOK, XaiTypeOK
<1>3. chat'[r] = "fetch" /\ attempt'[r] = attempt[r] + 1 /\ fetches'[r] = fetches[r] + 1
  BY DEF Retry, Fetch, SignalTypeOK, XaiTypeOK
<1>4. XaiTypeOK'
  BY <1>2, XaiAssumption DEF Retry, Fetch, SignalTypeOK, XaiTypeOK
<1>5. ClientFits(r)'
  <2>1. \A m \in Nat : fetches[r] <= m + attempt[r] => fetches'[r] <= m + attempt'[r]
    BY <1>2, <1>3
  <2>2. (turn[r] - 1) * MaxAttempts \in Nat
    BY <1>1, XaiAssumption, AgentAssumption DEF Fits, ClientFits
  <2>3. attempt'[r] \in 1..MaxAttempts
    BY <1>2, <1>3, XaiAssumption
  <2>4. fetches'[r] <= (turn[r] - 1) * MaxAttempts + attempt'[r]
    BY <1>1, <2>1, <2>2 DEF Fits, ClientFits
  <2> QED BY <1>1, <1>3, <2>3, <2>4 DEF Retry, Fits, ClientFits, agentVars
<1>6. \A q \in Requests \ {r} : /\ chat'[q] = chat[q] /\ attempt'[q] = attempt[q]
                                /\ result'[q] = result[q] /\ fetches'[q] = fetches[q]
                                /\ (q \in fatal' <=> q \in fatal)
  BY DEF Retry, Fetch, SignalTypeOK, XaiTypeOK
<1> QED BY <1>1, <1>4, <1>5, <1>6, SameAgent

LEMMA HeadersKeeps ==
    ASSUME NEW r \in Requests, SignalTypeOK, Fits(r), Headers(r), UNCHANGED <<agentVars, signalVars>>
    PROVE  StillFits(r)
<1>1. agent[r] = "chat" /\ result[r] = None /\ r \notin fatal
  BY Fetching DEF Headers
<1>2. XaiTypeOK'
  BY DEF Headers, SignalTypeOK, XaiTypeOK
<1>3. ClientFits(r)'
  BY <1>1 DEF Headers, Fits, ClientFits, agentVars, SignalTypeOK, XaiTypeOK
<1>4. \A q \in Requests \ {r} : /\ chat'[q] = chat[q] /\ attempt'[q] = attempt[q]
                                /\ result'[q] = result[q] /\ fetches'[q] = fetches[q]
                                /\ (q \in fatal' <=> q \in fatal)
  BY DEF Headers, SignalTypeOK, XaiTypeOK
<1> QED BY <1>1, <1>2, <1>3, <1>4, SameAgent

LEMMA CompletesKeeps ==
    ASSUME NEW r \in Requests, SignalTypeOK, Fits(r), NEW c \in ToolTurn \cup Finish, Completes(r, c),
           UNCHANGED <<agentVars, signalVars>>
    PROVE  StillFits(r)
<1>1. agent[r] = "chat" /\ result[r] = None /\ r \notin fatal
  BY Fetching DEF Completes
<1>2. XaiTypeOK'
  BY DEF Completes, SignalTypeOK, XaiTypeOK
<1>3. ClientFits(r)'
  <2>1. chat'[r] = "done" /\ result'[r] = c /\ c # None
    BY ReplyIs DEF Completes, SignalTypeOK, XaiTypeOK
  <2> QED BY <1>1, <2>1 DEF Completes, Fits, ClientFits, agentVars
<1>4. \A q \in Requests \ {r} : /\ chat'[q] = chat[q] /\ attempt'[q] = attempt[q]
                                /\ result'[q] = result[q] /\ fetches'[q] = fetches[q]
                                /\ (q \in fatal' <=> q \in fatal)
  BY DEF Completes, SignalTypeOK, XaiTypeOK
<1> QED BY <1>1, <1>2, <1>3, <1>4, SameAgent


LEMMA StartChatIs ==
    ASSUME NEW r \in Requests, SignalTypeOK, StartChat(r)
    PROVE  /\ XaiTypeOK'
           /\ chat'[r] = "fetch" /\ attempt'[r] = 1 /\ result'[r] = None
           /\ fetches'[r] = fetches[r] + 1 /\ fatal' = fatal /\ 1 \in 1..MaxAttempts
           /\ \A q \in Requests \ {r} : chat'[q] = chat[q] /\ attempt'[q] = attempt[q]
                                        /\ result'[q] = result[q] /\ fetches'[q] = fetches[q]
<1>1. 1 \in 0..MaxAttempts /\ 1 \in 1..MaxAttempts
  BY XaiAssumption
<1>2. chat' = [chat EXCEPT ![r] = "fetch"] /\ attempt' = [attempt EXCEPT ![r] = 1]
      /\ result' = [result EXCEPT ![r] = None] /\ fetches' = [fetches EXCEPT ![r] = @ + 1] /\ fatal' = fatal
  BY DEF StartChat, Fetch
<1>3. /\ chat \in [Requests -> {"none", "fetch", "body", "error_body", "backoff", "done"}]
      /\ attempt \in [Requests -> 0..MaxAttempts] /\ fetches \in [Requests -> Nat] /\ fatal \subseteq Requests
      /\ result \in [Requests -> ToolTurn \cup Finish \cup Failure \cup {None}]
  BY DEF SignalTypeOK, XaiTypeOK
<1> QED BY <1>1, <1>2, <1>3 DEF XaiTypeOK

(* The k-th turn of at most MaxTurns begins within the attempts of k - 1.   *)
LEMMA NextTurn ==
    ASSUME NEW k \in Nat, NEW n \in Nat, NEW a \in 0..MaxAttempts,
           n <= k * MaxAttempts + a
    PROVE  /\ n <= (k + 1) * MaxAttempts
           /\ n + 1 <= (k + 1) * MaxAttempts + 1
<1>1. MaxAttempts \in Nat
  BY XaiAssumption
<1>2. (k + 1) * MaxAttempts = k * MaxAttempts + MaxAttempts
  BY <1>1
<1>3. k * MaxAttempts \in Nat
  BY <1>1
<1>4. \A m \in Nat : n <= m + a => n <= m + MaxAttempts /\ n + 1 <= m + MaxAttempts + 1
  BY <1>1
<1> QED BY <1>2, <1>3, <1>4

LEMMA AnalyzeKeeps ==
    ASSUME NEW r \in Requests, SignalTypeOK, Fits(r), pc[r] = "context", port = "grok", Analyze(r),
           pc' = [pc EXCEPT ![r] = "analyse"], UNCHANGED <<port, signal, signals, stream, stalled>>
    PROVE  StillFits(r)
<1>1. /\ XaiTypeOK'
      /\ chat'[r] = "fetch" /\ attempt'[r] = 1 /\ result'[r] = None
      /\ fetches'[r] = fetches[r] + 1 /\ fatal' = fatal /\ 1 \in 1..MaxAttempts
      /\ \A q \in Requests \ {r} : chat'[q] = chat[q] /\ attempt'[q] = attempt[q]
                                   /\ result'[q] = result[q] /\ fetches'[q] = fetches[q]
  BY StartChatIs DEF Analyze
<1>2. agent[r] = "idle" /\ signal[r] = None /\ fetches[r] = 0 /\ chat[r] = "none"
  BY DEF Fits, ClientFits, RouteFits
<1>3. agent' = [agent EXCEPT ![r] = "chat"] /\ turn' = [turn EXCEPT ![r] = 1]
      /\ UNCHANGED <<records, finalSignal, runRow, callRows, untraced>>
  BY DEF Analyze
<1>4. 1 \in 0..MaxTurns /\ 1 \in 1..MaxTurns
  BY AgentAssumption
<1>5. SignalTypeOK'
  BY <1>1, <1>3, <1>4 DEF SignalTypeOK, AgentTypeOK, Places
<1>6. agent'[r] = "chat" /\ turn'[r] = 1 /\ pc'[r] = "analyse" /\ signal'[r] = None
  BY <1>2, <1>3 DEF SignalTypeOK, AgentTypeOK
<1>7. ClientFits(r)'
  <2>1. (1 - 1) * MaxAttempts = 0
    BY XaiAssumption
  <2>2. r \notin fatal
    BY <1>2 DEF Fits, ClientFits
  <2>3. fetches'[r] <= (turn'[r] - 1) * MaxAttempts + attempt'[r]
    BY <1>1, <1>2, <1>6, <2>1
  <2>4. chat'[r] # "backoff" /\ chat'[r] # "none" /\ chat'[r] # "done"
    BY <1>1
  <2> QED BY <1>1, <1>4, <1>6, <2>2, <2>3, <2>4 DEF ClientFits
<1>8. AgentFits(r)'
  BY <1>2, <1>3, <1>6 DEF Fits, AgentFits
<1>9. RouteFits(r)'
  BY <1>6 DEF RouteFits
<1>10. \A q \in Requests \ {r} : Same(q)
  BY <1>1, <1>3 DEF Same, SignalTypeOK, AgentTypeOK
<1> QED BY <1>5, <1>7, <1>8, <1>9, <1>10 DEF StillFits, Fits

(* What tools answer is added to the records of the agent.                  *)
LEMMA CallToolsIs ==
    ASSUME NEW r \in Requests, SignalTypeOK, NEW n \in Nat, CallTools(r, n)
    PROVE  /\ records' \in [Requests -> Seq(Envelopes)]
           /\ \A q \in Requests \ {r} : records'[q] = records[q]
<1>1. PICK new \in [1..n -> Envelopes] : records' = [records EXCEPT ![r] = @ \o new]
  BY DEF CallTools
<1>2. new \in Seq(Envelopes) /\ records[r] \in Seq(Envelopes)
  BY DEF SignalTypeOK, AgentTypeOK
<1>3. records[r] \o new \in Seq(Envelopes)
  BY <1>2, ConcatProperties
<1> QED BY <1>1, <1>3 DEF SignalTypeOK, AgentTypeOK

(* The agent has the answer of a turn.                                      *)
LEMMA Answered ==
    ASSUME NEW r \in Requests, SignalTypeOK, Fits(r), agent[r] = "chat", chat[r] = "done"
    PROVE  /\ result[r] \in ToolTurn \cup Finish \cup Failure
           /\ finalSignal[r] = None /\ runRow[r] = None /\ Len(callRows[r]) = 0
           /\ attempt[r] \in 1..MaxAttempts /\ turn[r] \in 1..MaxTurns /\ fetches[r] \in Nat
           /\ fetches[r] <= (turn[r] - 1) * MaxAttempts + attempt[r]
           /\ records[r] \in Seq(Envelopes) /\ callRows[r] \in Seq(Envelopes)
           /\ signal[r] = None
           /\ r \in fatal => HasError(result[r])
<1>1. signal[r] = None
  <2>1. port \in {"grok", "stub"}
    BY DEF SignalTypeOK
  <2> QED BY <2>1 DEF Fits, RouteFits
<1>2. result[r] # None
  BY DEF Fits, ClientFits
<1> QED BY <1>1, <1>2 DEF Fits, ClientFits, AgentFits, SignalTypeOK, XaiTypeOK, AgentTypeOK

LEMMA ConcludesKeeps ==
    ASSUME NEW r \in Requests, SignalTypeOK, Fits(r), agent[r] = "chat", chat[r] = "done",
           Concludes(r, Verdict(result[r])), records' \in [Requests -> Seq(Envelopes)],
           \A q \in Requests \ {r} : records'[q] = records[q],
           UNCHANGED <<turn, runRow, callRows, untraced, chatVars, signalVars>>
    PROVE  StillFits(r)
<1>1. /\ result[r] \in ToolTurn \cup Finish \cup Failure /\ result[r] # None
      /\ runRow[r] = None /\ Len(callRows[r]) = 0 /\ signal[r] = None
  BY Answered, ReplyIs
<1>2. Verdict(result[r]) \in Signal /\ Verdict(result[r]) # None
  BY <1>1, VerdictIs
<1>3. agent' = [agent EXCEPT ![r] = "run"] /\ finalSignal' = [finalSignal EXCEPT ![r] = Verdict(result[r])]
  BY DEF Concludes
<1>4. agent'[r] = "run" /\ finalSignal'[r] = Verdict(result[r])
      /\ \A q \in Requests \ {r} : agent'[q] = agent[q] /\ finalSignal'[q] = finalSignal[q]
  BY <1>3 DEF SignalTypeOK, AgentTypeOK
<1>5. SignalTypeOK'
  BY <1>2, <1>3 DEF SignalTypeOK, XaiTypeOK, AgentTypeOK, chatVars, signalVars
<1>6. ClientFits(r)'
  BY <1>4 DEF Fits, ClientFits, chatVars, HasError
<1>7. AgentFits(r)'
  <2>1. Verdict(result[r])' = Verdict(result[r])
    BY DEF Verdict, HasError, HasTools, chatVars
  <2>2. records'[r] \in Seq(Envelopes) /\ Len(callRows'[r]) = 0 /\ Len(records'[r]) \in Nat
    BY <1>1
  <2>3. runRow'[r] = None /\ chat'[r] = "done"
    BY <1>1 DEF chatVars
  <2> QED BY <1>4, <2>1, <2>2, <2>3 DEF AgentFits, chatVars
<1>8. RouteFits(r)'
  BY <1>1, <1>4 DEF Fits, RouteFits, signalVars
<1>9. \A q \in Requests \ {r} : Same(q)
  BY <1>4 DEF Same, chatVars, signalVars
<1> QED BY <1>5, <1>6, <1>7, <1>8, <1>9 DEF StillFits, Fits, signalVars

LEMMA FinalTurnEndsKeeps ==
    ASSUME NEW r \in Requests, SignalTypeOK, Fits(r), FinalTurnEnds(r), UNCHANGED signalVars
    PROVE  StillFits(r)
<1>1. agent[r] = "chat" /\ chat[r] = "done" /\ HasFinal(result[r])
  BY DEF FinalTurnEnds
<1>2. Concludes(r, Verdict(result[r]))
  <2>1. result[r] \in ToolTurn \cup Finish \cup Failure
    BY <1>1, Answered
  <2> QED BY <1>1, <2>1, VerdictIs DEF FinalTurnEnds, Fallback
<1>3. UNCHANGED <<turn, records, runRow, callRows, untraced, chatVars>>
  BY DEF FinalTurnEnds
<1> QED BY <1>1, <1>2, <1>3, ConcludesKeeps DEF SignalTypeOK, AgentTypeOK

LEMMA ChatThrowsKeeps ==
    ASSUME NEW r \in Requests, SignalTypeOK, Fits(r), ChatThrows(r), UNCHANGED signalVars
    PROVE  StillFits(r)
<1>1. agent[r] = "chat" /\ chat[r] = "done" /\ HasError(result[r])
  BY DEF ChatThrows
<1>2. Concludes(r, Verdict(result[r]))
  <2>1. result[r] \in ToolTurn \cup Finish \cup Failure
    BY <1>1, Answered
  <2> QED BY <1>1, <2>1, VerdictIs DEF ChatThrows, Fallback
<1>3. UNCHANGED <<turn, records, runRow, callRows, untraced, chatVars>>
  BY DEF ChatThrows
<1> QED BY <1>1, <1>2, <1>3, ConcludesKeeps DEF SignalTypeOK, AgentTypeOK

LEMMA ToolTurnEndsKeeps ==
    ASSUME NEW r \in Requests, SignalTypeOK, Fits(r), ToolTurnEnds(r), UNCHANGED signalVars
    PROVE  StillFits(r)
<1>1. agent[r] = "chat" /\ chat[r] = "done" /\ HasTools(result[r]) /\ CallTools(r, result[r].tools)
      /\ UNCHANGED <<runRow, callRows, untraced>>
  BY DEF ToolTurnEnds
<1>2. /\ result[r] \in ToolTurn /\ finalSignal[r] = None /\ runRow[r] = None /\ Len(callRows[r]) = 0
      /\ attempt[r] \in 1..MaxAttempts /\ turn[r] \in 1..MaxTurns /\ fetches[r] \in Nat
      /\ fetches[r] <= (turn[r] - 1) * MaxAttempts + attempt[r]
      /\ signal[r] = None /\ r \notin fatal
  BY <1>1, Answered, ReplyIs
<1>3. result[r].tools \in Nat
  BY <1>2, ReplyIs, XaiAssumption
<1>4. /\ records' \in [Requests -> Seq(Envelopes)]
      /\ \A q \in Requests \ {r} : records'[q] = records[q]
  BY <1>1, <1>3, CallToolsIs
<1>5. CASE TurnsOver(r)
  <2>1. Concludes(r, Verdict(result[r])) /\ UNCHANGED <<turn, chatVars>>
    BY <1>1, <1>2, <1>5, VerdictIs DEF ToolTurnEnds, Fallback
  <2> QED BY <1>1, <1>4, <2>1, ConcludesKeeps
<1>6. CASE ~TurnsOver(r)
  <2>1. turn' = [turn EXCEPT ![r] = @ + 1] /\ StartChat(r) /\ UNCHANGED <<agent, finalSignal>>
    BY <1>6 DEF ToolTurnEnds
  <2>2. /\ XaiTypeOK'
        /\ chat'[r] = "fetch" /\ attempt'[r] = 1 /\ result'[r] = None
        /\ fetches'[r] = fetches[r] + 1 /\ fatal' = fatal /\ 1 \in 1..MaxAttempts
        /\ \A q \in Requests \ {r} : chat'[q] = chat[q] /\ attempt'[q] = attempt[q]
                                     /\ result'[q] = result[q] /\ fetches'[q] = fetches[q]
    BY <2>1, StartChatIs
  <2>3. turn[r] + 1 \in 1..MaxTurns /\ turn[r] + 1 \in 0..MaxTurns
    BY <1>2, <1>6, AgentAssumption DEF TurnsOver
  <2>4. turn'[r] = turn[r] + 1 /\ \A q \in Requests \ {r} : turn'[q] = turn[q]
    BY <2>1 DEF SignalTypeOK, AgentTypeOK
  <2>5. SignalTypeOK'
    BY <1>1, <1>4, <2>1, <2>2, <2>3 DEF SignalTypeOK, AgentTypeOK, signalVars
  <2>6. fetches'[r] <= (turn'[r] - 1) * MaxAttempts + attempt'[r]
    <3> DEFINE k == turn[r] - 1
    <3>1. k \in Nat /\ k + 1 = turn[r] /\ turn'[r] - 1 = k + 1
      BY <1>2, <2>4, AgentAssumption
    <3>2. attempt[r] \in 0..MaxAttempts
      BY <1>2
    <3>3. fetches[r] <= k * MaxAttempts + attempt[r]
      BY <1>2
    <3> HIDE DEF k
    <3>4. fetches[r] + 1 <= (k + 1) * MaxAttempts + 1
      BY <1>2, <3>1, <3>2, <3>3, NextTurn
    <3> QED BY <2>2, <3>1, <3>4
  <2>7. ClientFits(r)'
    BY <1>1, <1>2, <2>1, <2>2, <2>3, <2>4, <2>6 DEF ClientFits
  <2>8. AgentFits(r)'
    <3>1. records'[r] \in Seq(Envelopes) /\ Len(callRows'[r]) = 0 /\ Len(records'[r]) \in Nat
      BY <1>1, <1>2, <1>4
    <3> QED BY <1>1, <1>2, <2>1, <3>1 DEF AgentFits
  <2>9. RouteFits(r)'
    BY <1>1, <2>1 DEF Fits, RouteFits, signalVars
  <2>10. \A q \in Requests \ {r} : Same(q)
    BY <1>1, <1>4, <2>1, <2>2, <2>4 DEF Same, signalVars
  <2> QED BY <2>5, <2>7, <2>8, <2>9, <2>10 DEF StillFits, Fits, signalVars
<1> QED BY <1>5, <1>6


-----------------------------------------------------------------------------
(* persistAuditTrail.                                                       *)
LEMMA AuditKeeps ==
    ASSUME NEW r \in Requests, SignalTypeOK, Fits(r), agent[r] \in {"run", "calls"},
           NEW a \in {"calls", "done"}, agent' = [agent EXCEPT ![r] = a],
           runRow' \in [Requests -> Signal \cup {None}], callRows' \in [Requests -> Seq(Envelopes)],
           untraced' \subseteq Requests,
           \A q \in Requests \ {r} : runRow'[q] = runRow[q] /\ callRows'[q] = callRows[q]
                                     /\ (q \in untraced' <=> q \in untraced),
           UNCHANGED <<turn, records, finalSignal, chatVars, signalVars>>,
           AgentFits(r)'
    PROVE  StillFits(r)
<1>1. agent'[r] = a /\ \A q \in Requests \ {r} : agent'[q] = agent[q]
  BY DEF SignalTypeOK, AgentTypeOK
<1>2. SignalTypeOK'
  BY DEF SignalTypeOK, XaiTypeOK, AgentTypeOK, chatVars, signalVars
<1>3. ClientFits(r)'
  BY <1>1 DEF Fits, ClientFits, chatVars, HasError
<1>4. signal[r] = None
  <2>1. port \in {"grok", "stub"}
    BY DEF SignalTypeOK
  <2> QED BY <2>1 DEF Fits, RouteFits
<1>5. RouteFits(r)'
  BY <1>1, <1>4 DEF Fits, RouteFits, signalVars
<1>6. \A q \in Requests \ {r} : Same(q)
  BY <1>1 DEF Same, chatVars, signalVars
<1> QED BY <1>2, <1>3, <1>5, <1>6 DEF StillFits, Fits, signalVars

LEMMA Auditing ==
    ASSUME NEW r \in Requests, SignalTypeOK, Fits(r), agent[r] \in {"run", "calls"}
    PROVE  /\ chat[r] = "done" /\ finalSignal[r] = Verdict(result[r])
           /\ finalSignal[r] \in Signal /\ finalSignal[r] # None
           /\ records[r] \in Seq(Envelopes) /\ callRows[r] \in Seq(Envelopes)
           /\ Len(callRows[r]) \in Nat /\ Len(records[r]) \in Nat
<1>1. chat[r] = "done" /\ finalSignal[r] = Verdict(result[r])
  BY DEF Fits, AgentFits
<1>2. result[r] \in ToolTurn \cup Finish \cup Failure
  BY <1>1 DEF Fits, ClientFits, SignalTypeOK, XaiTypeOK
<1>3. finalSignal[r] \in Signal /\ finalSignal[r] # None
  BY <1>1, <1>2, VerdictIs
<1> QED BY <1>1, <1>3, LenProperties DEF SignalTypeOK, AgentTypeOK

LEMMA AuditRunKeeps ==
    ASSUME NEW r \in Requests, SignalTypeOK, Fits(r), AuditRun(r), UNCHANGED signalVars
    PROVE  StillFits(r)
<1> DEFINE a == IF records[r] = <<>> THEN "done" ELSE "calls"
<1>1. /\ agent[r] = "run" /\ agent' = [agent EXCEPT ![r] = a]
      /\ runRow' = [runRow EXCEPT ![r] = finalSignal[r]]
      /\ UNCHANGED <<turn, records, finalSignal, callRows, untraced, chatVars>>
  BY DEF AuditRun
<1>2. /\ chat[r] = "done" /\ finalSignal[r] = Verdict(result[r])
      /\ finalSignal[r] \in Signal /\ finalSignal[r] # None
      /\ records[r] \in Seq(Envelopes) /\ callRows[r] \in Seq(Envelopes)
      /\ Len(callRows[r]) \in Nat /\ Len(records[r]) \in Nat
  BY <1>1, Auditing
<1>3. a = "done" => Len(records[r]) = 0
  OBVIOUS
<1>4. a = "calls" => Len(records[r]) > 0
  BY <1>2, EmptySeq
<1>5. agent'[r] = a /\ runRow'[r] = finalSignal[r] /\ \A q \in Requests \ {r} : runRow'[q] = runRow[q]
  BY <1>1 DEF SignalTypeOK, AgentTypeOK
<1>6. a \in {"calls", "done"}
  OBVIOUS
<1> HIDE DEF a
<1>7. AgentFits(r)'
  <2>1. Len(callRows[r]) = 0
    BY <1>1 DEF Fits, AgentFits
  <2>2. Verdict(result[r])' = Verdict(result[r]) /\ chat'[r] = "done"
    BY <1>1, <1>2 DEF Verdict, HasError, HasTools, chatVars
  <2> QED BY <1>1, <1>2, <1>3, <1>4, <1>5, <1>6, <2>1, <2>2 DEF AgentFits
<1>8. /\ runRow' \in [Requests -> Signal \cup {None}] /\ callRows' \in [Requests -> Seq(Envelopes)]
      /\ untraced' \subseteq Requests
  BY <1>1, <1>2 DEF SignalTypeOK, AgentTypeOK
<1> QED BY <1>1, <1>5, <1>6, <1>7, <1>8, AuditKeeps

LEMMA AuditCallKeeps ==
    ASSUME NEW r \in Requests, SignalTypeOK, Fits(r), AuditCall(r), UNCHANGED signalVars
    PROVE  StillFits(r)
<1> DEFINE n == Len(callRows[r])
           a == IF n + 1 = Len(records[r]) THEN "done" ELSE "calls"
<1>1. /\ agent[r] = "calls"
      /\ callRows' = [callRows EXCEPT ![r] = Append(@, records[r][Len(@) + 1])]
      /\ agent' = [agent EXCEPT ![r] = IF Len(callRows'[r]) = Len(records[r]) THEN "done" ELSE "calls"]
      /\ UNCHANGED <<turn, records, finalSignal, runRow, untraced, chatVars>>
  BY DEF AuditCall
<1>2. /\ chat[r] = "done" /\ finalSignal[r] = Verdict(result[r])
      /\ finalSignal[r] \in Signal /\ finalSignal[r] # None
      /\ records[r] \in Seq(Envelopes) /\ callRows[r] \in Seq(Envelopes)
      /\ n \in Nat /\ Len(records[r]) \in Nat
  BY <1>1, Auditing
<1>3. /\ runRow[r] = finalSignal[r] /\ n < Len(records[r])
      /\ \A i \in 1..n : callRows[r][i] = records[r][i]
  BY <1>1 DEF Fits, AgentFits
<1>4. callRows'[r] = Append(callRows[r], records[r][n + 1])
      /\ \A q \in Requests \ {r} : callRows'[q] = callRows[q]
  BY <1>1 DEF SignalTypeOK, AgentTypeOK
<1>5. n + 1 \in 1..Len(records[r]) /\ records[r][n + 1] \in Envelopes
  BY <1>2, <1>3, ElementOfSeq
<1>6. /\ callRows'[r] \in Seq(Envelopes) /\ Len(callRows'[r]) = n + 1
      /\ \A i \in 1..n : callRows'[r][i] = callRows[r][i]
      /\ callRows'[r][n + 1] = records[r][n + 1]
  BY <1>2, <1>4, <1>5, AppendProperties
<1>7. \A i \in 1..(n + 1) : callRows'[r][i] = records[r][i]
  <2> SUFFICES ASSUME NEW i \in 1..(n + 1)
               PROVE  callRows'[r][i] = records[r][i]
    OBVIOUS
  <2>1. i \in 1..n \/ i = n + 1
    BY <1>2
  <2> QED BY <1>3, <1>6, <2>1
<1>8. agent' = [agent EXCEPT ![r] = a] /\ agent'[r] = a /\ a \in {"calls", "done"}
  BY <1>1, <1>6 DEF SignalTypeOK, AgentTypeOK
<1>9. /\ a = "calls" => n + 1 < Len(records[r])
      /\ a = "done" => n + 1 = Len(records[r])
      /\ n + 1 <= Len(records[r])
  BY <1>2, <1>3
<1> HIDE DEF a, n
<1>10. AgentFits(r)'
  <2>1. Verdict(result[r])' = Verdict(result[r]) /\ chat'[r] = "done"
    BY <1>1, <1>2 DEF Verdict, HasError, HasTools, chatVars
  <2> QED BY <1>1, <1>2, <1>3, <1>6, <1>7, <1>8, <1>9, <2>1 DEF AgentFits
<1>11. /\ runRow' \in [Requests -> Signal \cup {None}] /\ callRows' \in [Requests -> Seq(Envelopes)]
       /\ untraced' \subseteq Requests
  <2>1. callRows' \in [Requests -> Seq(Envelopes)]
    BY <1>1, <1>4, <1>6 DEF SignalTypeOK, AgentTypeOK
  <2> QED BY <1>1, <2>1 DEF SignalTypeOK, AgentTypeOK
<1> QED BY <1>1, <1>4, <1>8, <1>10, <1>11, AuditKeeps

LEMMA AuditFailsKeeps ==
    ASSUME NEW r \in Requests, SignalTypeOK, Fits(r), AuditFails(r), UNCHANGED signalVars
    PROVE  StillFits(r)
<1>1. /\ agent[r] \in {"run", "calls"} /\ agent' = [agent EXCEPT ![r] = "done"]
      /\ untraced' = untraced \cup {r}
      /\ UNCHANGED <<turn, records, finalSignal, runRow, callRows, chatVars>>
  BY DEF AuditFails
<1>2. agent'[r] = "done"
  BY <1>1 DEF SignalTypeOK, AgentTypeOK
<1>3. AgentFits(r)'
  <2>1. chat[r] = "done" /\ finalSignal[r] = Verdict(result[r])
    BY <1>1, Auditing
  <2>2. Verdict(result[r])' = Verdict(result[r]) /\ chat'[r] = "done"
    BY <1>1, <2>1 DEF Verdict, HasError, HasTools, chatVars
  <2> QED BY <1>1, <1>2, <2>1, <2>2 DEF Fits, AgentFits
<1>4. /\ runRow' \in [Requests -> Signal \cup {None}] /\ callRows' \in [Requests -> Seq(Envelopes)]
      /\ untraced' \subseteq Requests
  BY <1>1 DEF SignalTypeOK, AgentTypeOK
<1> QED BY <1>1, <1>3, <1>4, AuditKeeps


-----------------------------------------------------------------------------
(* The route: its step leaves the agent alone.                              *)
LEMMA RouteKeeps ==
    ASSUME NEW r \in Requests, SignalTypeOK, Fits(r), NEW to \in Places, pc' = [pc EXCEPT ![r] = to],
           NEW s \in Signal \cup {None}, signal' = [signal EXCEPT ![r] = s],
           signals' \in Seq(Stored), stream' \in Seq(Stored), UNCHANGED <<chatVars, agentVars, port, stalled>>,
           RouteFits(r)'
    PROVE  StillFits(r)
<1>1. \A q \in Requests \ {r} : pc'[q] = pc[q] /\ signal'[q] = signal[q]
  BY DEF SignalTypeOK
<1>2. SignalTypeOK'
  BY DEF SignalTypeOK, XaiTypeOK, AgentTypeOK, chatVars, agentVars
<1>3. ClientFits(r)'
  BY DEF Fits, ClientFits, chatVars, agentVars, HasError
<1>4. AgentFits(r)'
  BY DEF Fits, AgentFits, chatVars, agentVars, Verdict, HasError, HasTools
<1>5. \A q \in Requests \ {r} : Same(q)
  BY <1>1 DEF Same, chatVars, agentVars
<1> QED BY <1>2, <1>3, <1>4, <1>5 DEF StillFits, Fits

LEMMA RowIs ==
    ASSUME NEW rows \in Seq(Stored)
    PROVE  \A i \in 1..Len(rows) : /\ rows[i] \in Stored /\ rows[i].request \in Requests
                                   /\ rows[i].signal \in Signal
<1> SUFFICES ASSUME NEW i \in 1..Len(rows)
             PROVE  rows[i] \in Stored /\ rows[i].request \in Requests /\ rows[i].signal \in Signal
  OBVIOUS
<1>1. rows[i] \in Stored
  BY ElementOfSeq
<1> QED BY <1>1 DEF Stored

(* A step that stores and publishes nothing of a request that has not       *)
(* stored, or that ends it.                                                 *)
LEMMA RowsStay ==
    ASSUME NEW r \in Requests, SignalTypeOK, RowsFit, UNCHANGED <<signals, stream>>,
           \A q \in Requests \ {r} : pc'[q] = pc[q] /\ signal'[q] = signal[q],
           pc'[r] \notin {"publish", "answered"},
           \/ pc[r] \notin {"publish", "answered", "failed", "crashed"}
           \/ /\ pc[r] # "answered" /\ signal'[r] = signal[r]
              /\ pc'[r] \in {"failed", "crashed"}
    PROVE  RowsFit'
<1>1. \A i \in 1..Len(signals) : signals[i] \in Stored /\ signals[i].request \in Requests
  BY RowIs DEF SignalTypeOK
<1>2. \A i \in 1..Len(stream) : stream[i] \in Stored /\ stream[i].request \in Requests
  BY RowIs DEF SignalTypeOK
<1>3. ASSUME NEW i \in 1..Len(signals)
      PROVE  /\ signals[i].signal = signal'[signals[i].request]
             /\ pc'[signals[i].request] \in {"publish", "answered", "failed", "crashed"}
  <2>1. CASE signals[i].request = r
    BY <2>1 DEF RowsFit
  <2>2. CASE signals[i].request # r
    BY <1>1, <2>2 DEF RowsFit
  <2> QED BY <2>1, <2>2
<1>4. ASSUME NEW i \in 1..Len(stream)
      PROVE  pc'[stream[i].request] = "answered"
  <2>1. stream[i].request # r
    BY DEF RowsFit
  <2> QED BY <1>2, <2>1 DEF RowsFit
<1>5. \A i, j \in 1..Len(signals) : signals[i].request = signals[j].request => i = j
  BY DEF RowsFit
<1>6. /\ \A i \in 1..Len(stream) : \E j \in 1..Len(signals) : stream[i] = signals[j]
      /\ \A i, j \in 1..Len(stream) : stream[i].request = stream[j].request => i = j
  BY DEF RowsFit
<1>7. ASSUME NEW q \in Requests
      PROVE  /\ pc'[q] \in {"publish", "answered"} => \E i \in 1..Len(signals) : signals[i].request = q
             /\ pc'[q] = "answered" => \E i \in 1..Len(stream) : stream[i].request = q
  <2>1. CASE q = r
    BY <2>1
  <2>2. CASE q # r
    BY <2>2 DEF RowsFit
  <2> QED BY <2>1, <2>2
<1> QED BY <1>3, <1>4, <1>5, <1>6, <1>7 DEF RowsFit

LEMMA GotoIs ==
    ASSUME NEW r \in Requests, SignalTypeOK, NEW to \in Places, pc' = [pc EXCEPT ![r] = to]
    PROVE  pc'[r] = to /\ \A q \in Requests \ {r} : pc'[q] = pc[q]
BY DEF SignalTypeOK

LEMMA SignalUnchanged ==
    ASSUME NEW r \in Requests, SignalTypeOK, signal' = signal
    PROVE  signal' = [signal EXCEPT ![r] = signal[r]] /\ signal[r] \in Signal \cup {None}
BY DEF SignalTypeOK

(* The handler and its reads.                                               *)
LEMMA ReadsKeep ==
    ASSUME NEW r \in Requests, SignalTypeOK, Fits(r), RowsFit, Analyse(r) \/ ReadPrice(r)
    PROVE  StillFits(r) /\ RowsFit'
<1>1. PICK to \in {"price", "context", "refused"} :
        /\ pc[r] \in {"idle", "price"} /\ pc' = [pc EXCEPT ![r] = to]
        /\ UNCHANGED <<chatVars, agentVars, port, signal, signals, stream, stalled>>
  BY DEF Analyse, ReadPrice, Goto
<1>2. to \in Places
  BY DEF Places
<1>3. pc'[r] = to /\ \A q \in Requests \ {r} : pc'[q] = pc[q]
  BY <1>1, <1>2, GotoIs
<1>4. RouteFits(r)'
  BY <1>1, <1>3 DEF Fits, RouteFits, agentVars
<1>5. signals' \in Seq(Stored) /\ stream' \in Seq(Stored)
  BY <1>1 DEF SignalTypeOK
<1>6. StillFits(r)
  BY <1>1, <1>2, <1>4, <1>5, SignalUnchanged, RouteKeeps
<1>7. RowsFit'
  BY <1>1, <1>3, RowsStay
<1> QED BY <1>6, <1>7

LEMMA ReadContextKeeps ==
    ASSUME NEW r \in Requests, SignalTypeOK, Fits(r), RowsFit, ReadContext(r)
    PROVE  StillFits(r) /\ RowsFit'
<1>1. pc[r] = "context" /\ UNCHANGED <<port, signals, stream, stalled>> /\ port \in {"grok", "stub"}
  BY DEF ReadContext, SignalTypeOK
<1>2. CASE port = "grok"
  <2>1. pc' = [pc EXCEPT ![r] = "analyse"] /\ Analyze(r) /\ UNCHANGED signal
    BY <1>2 DEF ReadContext
  <2>2. pc'[r] = "analyse" /\ \A q \in Requests \ {r} : pc'[q] = pc[q]
    BY <2>1, GotoIs DEF Places
  <2>3. StillFits(r)
    BY <1>1, <1>2, <2>1, AnalyzeKeeps
  <2>4. RowsFit'
    BY <1>1, <2>1, <2>2, RowsStay
  <2> QED BY <2>3, <2>4
<1>3. CASE port = "stub"
  <2>1. /\ pc' = [pc EXCEPT ![r] = "store"] /\ signal' = [signal EXCEPT ![r] = StubSignal]
        /\ UNCHANGED <<chatVars, agentVars>>
    BY <1>3 DEF ReadContext, StubSignal
  <2>2. "store" \in Places /\ StubSignal \in Signal \cup {None} /\ StubSignal # None
    BY AgentAssumption DEF Places, StubSignal, Signal, Actions
  <2>3. pc'[r] = "store" /\ \A q \in Requests \ {r} : pc'[q] = pc[q]
    BY <2>1, <2>2, GotoIs
  <2>4. signal'[r] = StubSignal /\ \A q \in Requests \ {r} : signal'[q] = signal[q]
    BY <2>1 DEF SignalTypeOK
  <2>5. StubSignal' = StubSignal
    BY DEF StubSignal
  <2>6. RouteFits(r)'
    BY <1>1, <1>3, <2>1, <2>2, <2>3, <2>4, <2>5 DEF Fits, RouteFits, agentVars
  <2>7. StillFits(r)
    BY <1>1, <2>1, <2>2, <2>6, RouteKeeps DEF SignalTypeOK
  <2>8. RowsFit'
    BY <1>1, <2>3, <2>4, RowsStay
  <2> QED BY <2>7, <2>8
<1> QED BY <1>1, <1>2, <1>3

LEMMA AnalysedKeeps ==
    ASSUME NEW r \in Requests, SignalTypeOK, Fits(r), RowsFit, Analysed(r)
    PROVE  StillFits(r) /\ RowsFit'
<1>1. /\ pc[r] = "analyse" /\ pc' = [pc EXCEPT ![r] = "store"] /\ agent[r] = "done"
      /\ signal' = [signal EXCEPT ![r] = finalSignal[r]]
      /\ UNCHANGED <<chatVars, agentVars, port, signals, stream, stalled>>
  BY DEF Analysed, Goto
<1>2. pc'[r] = "store" /\ \A q \in Requests \ {r} : pc'[q] = pc[q]
  BY <1>1, GotoIs DEF Places
<1>3. signal'[r] = finalSignal[r] /\ \A q \in Requests \ {r} : signal'[q] = signal[q]
  BY <1>1 DEF SignalTypeOK
<1>4. finalSignal[r] \in Signal \cup {None} /\ finalSignal[r] # None
  <2>1. chat[r] = "done" /\ finalSignal[r] = Verdict(result[r])
    BY <1>1 DEF Fits, AgentFits
  <2>2. result[r] \in ToolTurn \cup Finish \cup Failure
    BY <2>1 DEF Fits, ClientFits, SignalTypeOK, XaiTypeOK
  <2> QED BY <2>1, <2>2, VerdictIs
<1>5. port = "grok"
  BY <1>1 DEF Fits, RouteFits
<1>6. RouteFits(r)'
  BY <1>1, <1>2, <1>3, <1>4, <1>5 DEF RouteFits, agentVars
<1>7. StillFits(r)
  BY <1>1, <1>4, <1>6, RouteKeeps DEF SignalTypeOK, Places
<1>8. RowsFit'
  BY <1>1, <1>2, <1>3, RowsStay
<1> QED BY <1>7, <1>8

LEMMA EndsKeep ==
    ASSUME NEW r \in Requests, SignalTypeOK, Fits(r), RowsFit, Rejects(r) \/ Crash(r)
    PROVE  StillFits(r) /\ RowsFit'
<1>1. PICK to \in {"failed", "crashed"} :
        /\ pc[r] \in {"price", "context", "analyse", "store", "publish"} /\ pc' = [pc EXCEPT ![r] = to]
        /\ UNCHANGED <<chatVars, agentVars, port, signal, signals, stream, stalled>>
  BY DEF Rejects, Crash
<1>2. to \in Places
  BY DEF Places
<1>3. pc'[r] = to /\ \A q \in Requests \ {r} : pc'[q] = pc[q]
  BY <1>1, <1>2, GotoIs
<1>4. RouteFits(r)'
  BY <1>1, <1>3 DEF Fits, RouteFits, agentVars, StubSignal
<1>5. signals' \in Seq(Stored) /\ stream' \in Seq(Stored)
  BY <1>1 DEF SignalTypeOK
<1>6. StillFits(r)
  BY <1>1, <1>2, <1>4, <1>5, SignalUnchanged, RouteKeeps
<1>7. RowsFit'
  BY <1>1, <1>3, RowsStay
<1> QED BY <1>6, <1>7

(* Store and Publish: a row, or an event, of a request that has none.       *)
LEMMA StoreKeeps ==
    ASSUME NEW r \in Requests, SignalTypeOK, Fits(r), RowsFit, Store(r)
    PROVE  StillFits(r) /\ RowsFit'
<1> DEFINE row == [request |-> r, signal |-> signal[r]]
           n == Len(signals)
<1>1. /\ pc[r] = "store" /\ pc' = [pc EXCEPT ![r] = "publish"]
      /\ signals' = Append(signals, row)
      /\ UNCHANGED <<chatVars, agentVars, port, signal, stream, stalled>>
  BY DEF Store, Goto
<1>2. pc'[r] = "publish" /\ \A q \in Requests \ {r} : pc'[q] = pc[q]
  BY <1>1, GotoIs DEF Places
<1>3. signal[r] # None /\ signal[r] \in Signal
  BY <1>1 DEF Fits, RouteFits, SignalTypeOK
<1>4. row \in Stored /\ row.request = r /\ row.signal = signal[r]
  BY <1>3 DEF Stored
<1> HIDE DEF row
<1>5. /\ signals' \in Seq(Stored) /\ Len(signals') = n + 1 /\ n \in Nat
      /\ \A i \in 1..n : signals'[i] = signals[i]
      /\ signals'[n + 1] = row
  BY <1>1, <1>4, AppendProperties, LenProperties DEF SignalTypeOK
<1>6. RouteFits(r)'
  BY <1>1, <1>2, <1>3 DEF Fits, RouteFits, agentVars, StubSignal
<1>7. StillFits(r)
  BY <1>1, <1>5, <1>6, SignalUnchanged, RouteKeeps DEF SignalTypeOK, Places
<1>8. \A i \in 1..n : signals[i].request \in Requests \ {r}
  <2>1. \A i \in 1..n : signals[i].request \in Requests
    BY RowIs DEF SignalTypeOK
  <2>2. \A i \in 1..n : pc[signals[i].request] # "store"
    BY DEF RowsFit
  <2> QED BY <1>1, <2>1, <2>2
<1>9. \A i \in 1..Len(stream) : stream[i].request \in Requests \ {r}
  <2>1. \A i \in 1..Len(stream) : stream[i].request \in Requests
    BY RowIs DEF SignalTypeOK
  <2>2. \A i \in 1..Len(stream) : pc[stream[i].request] # "store"
    BY DEF RowsFit
  <2> QED BY <1>1, <2>1, <2>2
<1>10. \A i \in 1..(n + 1) : i \in 1..n \/ i = n + 1
  BY <1>5
<1>11. n + 1 \in 1..(n + 1) /\ \A i \in 1..n : i \in 1..(n + 1)
  BY <1>5
<1> HIDE DEF n
<1>12. ASSUME NEW i \in 1..(n + 1)
       PROVE  /\ signals'[i].signal = signal[signals'[i].request]
              /\ pc'[signals'[i].request] \in {"publish", "answered", "failed", "crashed"}
  <2>1. CASE i \in 1..n
    BY <1>2, <1>5, <1>8, <2>1 DEF RowsFit, n
  <2>2. CASE i = n + 1
    BY <1>2, <1>4, <1>5, <2>2
  <2> QED BY <1>10, <2>1, <2>2
<1>13. ASSUME NEW i \in 1..(n + 1), NEW j \in 1..(n + 1), signals'[i].request = signals'[j].request
       PROVE  i = j
  <2>1. CASE i \in 1..n /\ j \in 1..n
    BY <1>5, <1>13, <2>1 DEF RowsFit, n
  <2>2. CASE i = n + 1 /\ j \in 1..n
    BY <1>4, <1>5, <1>8, <1>13, <2>2
  <2>3. CASE i \in 1..n /\ j = n + 1
    BY <1>4, <1>5, <1>8, <1>13, <2>3
  <2> QED BY <1>10, <2>1, <2>2, <2>3
<1>14. ASSUME NEW i \in 1..Len(stream)
       PROVE  pc'[stream[i].request] = "answered" /\ \E j \in 1..(n + 1) : stream[i] = signals'[j]
  <2>1. PICK j \in 1..n : stream[i] = signals[j]
    BY DEF RowsFit, n
  <2>2. pc'[stream[i].request] = "answered"
    BY <1>2, <1>9 DEF RowsFit
  <2> QED BY <1>5, <1>11, <2>1, <2>2
<1>15. ASSUME NEW q \in Requests
       PROVE  /\ pc'[q] \in {"publish", "answered"} => \E i \in 1..(n + 1) : signals'[i].request = q
              /\ pc'[q] = "answered" => \E i \in 1..Len(stream) : stream[i].request = q
  <2>1. CASE q = r
    BY <1>2, <1>4, <1>5, <1>11, <2>1
  <2>2. CASE q # r
    <3>1. pc'[q] \in {"publish", "answered"} => \E i \in 1..n : signals[i].request = q
      BY <1>2, <2>2 DEF RowsFit, n
    <3>2. pc'[q] = "answered" => \E i \in 1..Len(stream) : stream[i].request = q
      BY <1>2, <2>2 DEF RowsFit
    <3> QED BY <1>5, <1>11, <3>1, <3>2
  <2> QED BY <2>1, <2>2
<1>16. \A i, j \in 1..Len(stream) : stream[i].request = stream[j].request => i = j
  BY DEF RowsFit
<1>17. RowsFit'
  BY <1>1, <1>5, <1>12, <1>13, <1>14, <1>15, <1>16 DEF RowsFit
<1> QED BY <1>7, <1>17


LEMMA PublishKeeps ==
    ASSUME NEW r \in Requests, SignalTypeOK, Fits(r), RowsFit, Publish(r)
    PROVE  StillFits(r) /\ RowsFit'
<1> DEFINE event == [request |-> r, signal |-> signal[r]]
           n == Len(stream)
<1>1. /\ pc[r] = "publish" /\ pc' = [pc EXCEPT ![r] = "answered"]
      /\ stream' = Append(stream, event)
      /\ UNCHANGED <<chatVars, agentVars, port, signal, signals, stalled>>
  BY DEF Publish, Goto
<1>2. pc'[r] = "answered" /\ \A q \in Requests \ {r} : pc'[q] = pc[q]
  BY <1>1, GotoIs DEF Places
<1>3. signal[r] # None /\ signal[r] \in Signal
  BY <1>1 DEF Fits, RouteFits, SignalTypeOK
<1>4. event \in Stored /\ event.request = r /\ event.signal = signal[r]
  BY <1>3 DEF Stored
<1>5. PICK j \in 1..Len(signals) : signals[j].request = r
  BY <1>1 DEF RowsFit
<1>6. signals[j] = event
  <2>1. signals[j] \in Stored /\ signals[j].signal = signal[r]
    BY <1>5, RowIs DEF RowsFit, SignalTypeOK
  <2> QED BY <1>5, <2>1 DEF Stored
<1> HIDE DEF event
<1>7. /\ stream' \in Seq(Stored) /\ Len(stream') = n + 1 /\ n \in Nat
      /\ \A i \in 1..n : stream'[i] = stream[i]
      /\ stream'[n + 1] = event
  BY <1>1, <1>4, AppendProperties, LenProperties DEF SignalTypeOK
<1>8. RouteFits(r)'
  BY <1>1, <1>2, <1>3 DEF Fits, RouteFits, agentVars, StubSignal
<1>9. StillFits(r)
  BY <1>1, <1>7, <1>8, SignalUnchanged, RouteKeeps DEF SignalTypeOK, Places
<1>10. \A i \in 1..n : stream[i].request \in Requests \ {r}
  <2>1. \A i \in 1..n : stream[i].request \in Requests
    BY RowIs DEF SignalTypeOK
  <2>2. \A i \in 1..n : pc[stream[i].request] # "publish"
    BY DEF RowsFit
  <2> QED BY <1>1, <2>1, <2>2
<1>11. \A i \in 1..(n + 1) : i \in 1..n \/ i = n + 1
  BY <1>7
<1>12. n + 1 \in 1..(n + 1) /\ \A i \in 1..n : i \in 1..(n + 1)
  BY <1>7
<1> HIDE DEF n
<1>13. ASSUME NEW i \in 1..Len(signals)
       PROVE  /\ signals[i].signal = signal[signals[i].request]
              /\ pc'[signals[i].request] \in {"publish", "answered", "failed", "crashed"}
  <2>1. signals[i].request \in Requests
    BY RowIs DEF SignalTypeOK
  <2>2. signals[i].request # r => pc'[signals[i].request] = pc[signals[i].request]
    BY <1>2, <2>1
  <2> QED BY <1>2, <2>2 DEF RowsFit
<1>14. ASSUME NEW i \in 1..(n + 1), NEW k \in 1..(n + 1), stream'[i].request = stream'[k].request
       PROVE  i = k
  <2>1. CASE i \in 1..n /\ k \in 1..n
    BY <1>7, <1>14, <2>1 DEF RowsFit, n
  <2>2. CASE i = n + 1 /\ k \in 1..n
    BY <1>4, <1>7, <1>10, <1>14, <2>2
  <2>3. CASE i \in 1..n /\ k = n + 1
    BY <1>4, <1>7, <1>10, <1>14, <2>3
  <2> QED BY <1>11, <2>1, <2>2, <2>3
<1>15. ASSUME NEW i \in 1..(n + 1)
       PROVE  pc'[stream'[i].request] = "answered" /\ \E k \in 1..Len(signals) : stream'[i] = signals[k]
  <2>1. CASE i \in 1..n
    <3>1. stream'[i] = stream[i] /\ pc'[stream[i].request] = pc[stream[i].request]
      BY <1>2, <1>7, <1>10, <2>1
    <3> QED BY <2>1, <3>1 DEF RowsFit, n
  <2>2. CASE i = n + 1
    BY <1>2, <1>4, <1>5, <1>6, <1>7, <2>2
  <2> QED BY <1>11, <2>1, <2>2
<1>16. ASSUME NEW q \in Requests
       PROVE  /\ pc'[q] \in {"publish", "answered"} => \E i \in 1..Len(signals) : signals[i].request = q
              /\ pc'[q] = "answered" => \E i \in 1..(n + 1) : stream'[i].request = q
  <2>1. CASE q = r
    BY <1>4, <1>5, <1>7, <1>12, <2>1
  <2>2. CASE q # r
    <3>1. pc'[q] = pc[q]
      BY <1>2, <2>2
    <3>2. pc[q] = "answered" => \E i \in 1..n : stream[i].request = q
      BY DEF RowsFit, n
    <3>3. pc[q] \in {"publish", "answered"} => \E i \in 1..Len(signals) : signals[i].request = q
      BY DEF RowsFit
    <3> QED BY <1>7, <1>12, <3>1, <3>2, <3>3
  <2> QED BY <2>1, <2>2
<1>17. \A i, k \in 1..Len(signals) : signals[i].request = signals[k].request => i = k
  BY DEF RowsFit
<1>18. RowsFit'
  <2>1. signals' = signals /\ signal' = signal
    BY <1>1
  <2> QED BY <1>7, <1>13, <1>14, <1>15, <1>16, <1>17, <2>1 DEF RowsFit
<1> QED BY <1>9, <1>18

-----------------------------------------------------------------------------
(* The steps of a request: its agent, its client and the network.           *)
LEMMA ClientStepKeeps ==
    ASSUME NEW r \in Requests, SignalTypeOK, Fits(r), ClientStep(r) \/ NetworkStep(r),
           UNCHANGED <<agentVars, signalVars>>
    PROVE  StillFits(r)
<1>1. {"timeout", "network", "malformed", "auth", "rate_limit", "server", "request"} \subseteq Transient \cup Fatal
  BY DEF Transient, Fatal
<1>2. CASE Retry(r)
  BY <1>2, RetryKeeps
<1>3. CASE TimesOut(r)
  BY <1>1, <1>3, FailsKeeps DEF TimesOut
<1>4. CASE NoConnection(r)
  BY <1>1, <1>4, FailsKeeps DEF NoConnection
<1>5. CASE Headers(r)
  BY <1>5, HeadersKeeps
<1>6. CASE ErrorBody(r)
  BY <1>1, <1>6, FailsKeeps DEF ErrorBody
<1>7. CASE Body(r)
  <2>1. CASE \E c \in ToolTurn \cup Finish : Completes(r, c)
    BY <2>1, CompletesKeeps
  <2>2. CASE chat[r] = "body" /\ Fails(r, "malformed")
    BY <1>1, <2>2, FailsKeeps
  <2> QED BY <1>7, <2>1, <2>2 DEF Body
<1> QED BY <1>2, <1>3, <1>4, <1>5, <1>6, <1>7 DEF ClientStep, NetworkStep, BodyStep

LEMMA AgentStepKeeps ==
    ASSUME NEW r \in Requests, SignalTypeOK, Fits(r), AgentStep(r), UNCHANGED signalVars
    PROVE  StillFits(r)
<1>1. CASE ClientStep(r) /\ UNCHANGED agentVars
  BY <1>1, ClientStepKeeps
<1> QED BY <1>1, ToolTurnEndsKeeps, FinalTurnEndsKeeps, ChatThrowsKeeps, AuditRunKeeps, AuditCallKeeps
        DEF AgentStep

LEMMA BodyStallsKeeps ==
    ASSUME NEW r \in Requests, SignalTypeOK, Fits(r), BodyStalls(r)
    PROVE  StillFits(r)
<1>1. stalled' = stalled \cup {r} /\ UNCHANGED <<chatVars, agentVars, port, pc, signal, signals, stream>>
  BY DEF BodyStalls
<1>2. SignalTypeOK'
  BY <1>1 DEF SignalTypeOK, XaiTypeOK, AgentTypeOK, chatVars, agentVars
<1>3. \A q \in Requests : Same(q)
  BY <1>1 DEF Same, chatVars, agentVars
<1>4. ClientFits(r)'
  BY <1>1 DEF Fits, ClientFits, chatVars, agentVars, HasError
<1>5. AgentFits(r)'
  BY <1>1 DEF Fits, AgentFits, chatVars, agentVars, Verdict, HasError, HasTools
<1>6. RouteFits(r)'
  BY <1>1 DEF Fits, RouteFits, chatVars, agentVars, StubSignal
<1> QED BY <1>1, <1>2, <1>3, <1>4, <1>5, <1>6 DEF StillFits, Fits

LEMMA RequestKeeps ==
    ASSUME NEW r \in Requests, SignalTypeOK, Fits(r), RowsFit,
           Analyse(r) \/ RequestStep(r) \/ Replies(r) \/ Fault(r)
    PROVE  StillFits(r) /\ RowsFit'
<1>1. CASE Analyse(r) \/ ReadPrice(r)
  BY <1>1, ReadsKeep
<1>2. CASE ReadContext(r)
  BY <1>2, ReadContextKeeps
<1>3. CASE Analysed(r)
  BY <1>3, AnalysedKeeps
<1>4. CASE Store(r)
  BY <1>4, StoreKeeps
<1>5. CASE Publish(r)
  BY <1>5, PublishKeeps
<1>6. CASE Rejects(r) \/ Crash(r)
  BY <1>6, EndsKeep
<1>7. UNCHANGED <<pc, signal, signals, stream>> => RowsFit'
  <2> SUFFICES ASSUME UNCHANGED <<pc, signal, signals, stream>> PROVE RowsFit'
    OBVIOUS
  <2> QED BY DEF RowsFit
<1>8. CASE Moves(r)
  <2>1. AgentStep(r) /\ UNCHANGED signalVars
    BY <1>8 DEF Moves
  <2> QED BY <1>7, <2>1, AgentStepKeeps DEF signalVars
<1>9. CASE Replies(r)
  <2>1. NetworkStep(r) /\ UNCHANGED <<agentVars, signalVars>>
    BY <1>9 DEF Replies
  <2> QED BY <1>7, <2>1, ClientStepKeeps DEF signalVars
<1>10. CASE BodyStalls(r)
  <2>1. UNCHANGED <<pc, signal, signals, stream>>
    BY <1>10 DEF BodyStalls
  <2> QED BY <1>7, <1>10, <2>1, BodyStallsKeeps
<1>11. CASE AuditFails(r) /\ UNCHANGED signalVars
  BY <1>7, <1>11, AuditFailsKeeps DEF signalVars
<1> QED BY <1>1, <1>2, <1>3, <1>4, <1>5, <1>6, <1>8, <1>9, <1>10, <1>11 DEF RequestStep, Fault

LEMMA InitAnalysisInv == ASSUME Init PROVE AnalysisInv
<1>1. None \in Signal \cup {None} /\ <<>> \in Seq(Stored) /\ <<>> \in Seq(Envelopes)
      /\ Len(<<>>) = 0 /\ 0 \in 0..MaxAttempts /\ 0 \in 0..MaxTurns
  BY XaiAssumption, AgentAssumption
<1>2. SignalTypeOK
  BY <1>1 DEF Init, XaiInit, AgentInit, SignalTypeOK, XaiTypeOK, AgentTypeOK, Places
<1>3. ASSUME NEW r \in Requests
      PROVE  Fits(r)
  <2>1. /\ chat[r] = "none" /\ result[r] = None /\ fetches[r] = 0 /\ r \notin fatal /\ agent[r] = "idle"
        /\ finalSignal[r] = None /\ runRow[r] = None /\ callRows[r] = <<>> /\ records[r] = <<>>
        /\ pc[r] = "idle" /\ signal[r] = None
    BY DEF Init, XaiInit, AgentInit
  <2>2. ClientFits(r)
    BY <2>1 DEF ClientFits
  <2>3. AgentFits(r)
    BY <2>1, <1>1 DEF AgentFits
  <2>4. RouteFits(r)
    BY <2>1 DEF RouteFits
  <2> QED BY <2>2, <2>3, <2>4 DEF Fits
<1>4. RowsFit
  BY <1>1 DEF Init, RowsFit
<1> QED BY <1>2, <1>3, <1>4 DEF AnalysisInv

LEMMA NextAnalysisInv == ASSUME AnalysisInv, [Next]_vars PROVE AnalysisInv'
<1>1. CASE UNCHANGED vars
  <2>1. UNCHANGED <<chatVars, agentVars, signalVars>>
    BY <1>1 DEF vars
  <2>2. SignalTypeOK'
    BY <2>1 DEF AnalysisInv, SignalTypeOK, XaiTypeOK, AgentTypeOK, chatVars, agentVars, signalVars
  <2>3. ASSUME NEW q \in Requests PROVE Fits(q)'
    <3>1. ClientFits(q)'
      BY <2>1 DEF AnalysisInv, Fits, ClientFits, chatVars, agentVars, HasError
    <3>2. AgentFits(q)'
      BY <2>1 DEF AnalysisInv, Fits, AgentFits, chatVars, agentVars, Verdict, HasError, HasTools
    <3>3. RouteFits(q)'
      BY <2>1 DEF AnalysisInv, Fits, RouteFits, agentVars, signalVars, StubSignal
    <3> QED BY <3>1, <3>2, <3>3 DEF Fits
  <2>4. RowsFit'
    BY <2>1 DEF AnalysisInv, RowsFit, signalVars
  <2> QED BY <2>2, <2>3, <2>4 DEF AnalysisInv
<1>2. ASSUME NEW r \in Requests, Analyse(r) \/ RequestStep(r) \/ Replies(r) \/ Fault(r)
      PROVE  AnalysisInv'
  <2>1. StillFits(r) /\ RowsFit'
    BY <1>2, RequestKeeps DEF AnalysisInv
  <2>2. \A q \in Requests : Fits(q)'
    BY <2>1, OthersFit DEF AnalysisInv, StillFits
  <2> QED BY <2>1, <2>2 DEF AnalysisInv, StillFits
<1> QED BY <1>1, <1>2 DEF Next

(* Types, order, trail and rows of every analysis, whatever fails.          *)
THEOREM AnalysisInvariant == Spec => []AnalysisInv
<1> QED BY InitAnalysisInv, NextAnalysisInv, PTL DEF Spec

-----------------------------------------------------------------------------
(* What the engine promises follows from the invariant.                     *)
LEMMA CallsAreBounded == ASSUME AnalysisInv PROVE CallsBounded
<1> SUFFICES ASSUME NEW r \in Requests
             PROVE  /\ fetches[r] <= MaxTurns * MaxAttempts
                    /\ r \in fatal => chat[r] = "done" /\ HasError(result[r])
  BY DEF CallsBounded
<1>1. Fits(r) /\ fetches[r] \in Nat
  BY DEF AnalysisInv, SignalTypeOK, XaiTypeOK
<1>2. MaxTurns \in Nat /\ MaxAttempts \in Nat /\ MaxTurns * MaxAttempts \in Nat
  BY XaiAssumption, AgentAssumption
<1>3. CASE agent[r] = "idle"
  BY <1>1, <1>2, <1>3 DEF Fits, ClientFits
<1>4. CASE agent[r] # "idle"
  <2> DEFINE k == turn[r] - 1
  <2>1. /\ k \in Nat /\ k + 1 \in Nat /\ k + 1 <= MaxTurns /\ attempt[r] \in 0..MaxAttempts
        /\ fetches[r] <= k * MaxAttempts + attempt[r]
    BY <1>1, <1>2, <1>4 DEF Fits, ClientFits
  <2> HIDE DEF k
  <2>2. fetches[r] <= (k + 1) * MaxAttempts
    BY <1>1, <2>1, NextTurn
  <2>3. PICK d \in Nat : MaxTurns = (k + 1) + d
    <3>1. MaxTurns - (k + 1) \in Nat /\ MaxTurns = (k + 1) + (MaxTurns - (k + 1))
      BY <1>2, <2>1
    <3> QED BY <3>1
  <2>4. MaxTurns * MaxAttempts = (k + 1) * MaxAttempts + d * MaxAttempts
    BY <1>2, <2>1, <2>3
  <2>5. d * MaxAttempts \in Nat /\ (k + 1) * MaxAttempts \in Nat
    BY <1>2, <2>1, <2>3
  <2>6. \A x, y, z \in Nat : x <= y => x <= y + z
    OBVIOUS
  <2>7. fetches[r] <= MaxTurns * MaxAttempts
    BY <1>1, <2>2, <2>4, <2>5, <2>6
  <2> QED BY <1>1, <2>7 DEF Fits, ClientFits
<1> QED BY <1>3, <1>4

LEMMA StoredIsFinal ==
    ASSUME AnalysisInv, NEW i \in 1..Len(signals)
    PROVE  LET r == signals[i].request
           IN  /\ r \in Requests /\ signals[i].signal = signal[r]
               /\ port = "grok" => /\ agent[r] = "done" /\ signal[r] = finalSignal[r]
                                   /\ signal[r] = Verdict(result[r])
                                   /\ result[r] \in ToolTurn \cup Finish \cup Failure
               /\ port # "grok" => signal[r] = StubSignal /\ result[r] = None
<1> DEFINE r == signals[i].request
<1>1. r \in Requests /\ signals[i].signal = signal[r] /\ signal[r] \in Signal
  BY RowIs DEF AnalysisInv, SignalTypeOK, RowsFit
<1>2. signal[r] # None /\ Fits(r)
  BY <1>1, AgentAssumption DEF AnalysisInv
<1> HIDE DEF r
<1>3. CASE port = "grok"
  <2>1. agent[r] = "done" /\ signal[r] = finalSignal[r]
    BY <1>2, <1>3 DEF Fits, RouteFits
  <2>2. chat[r] = "done" /\ finalSignal[r] = Verdict(result[r])
    BY <1>2, <2>1 DEF Fits, AgentFits
  <2>3. result[r] \in ToolTurn \cup Finish \cup Failure
    BY <1>1, <1>2, <2>2 DEF Fits, ClientFits, AnalysisInv, SignalTypeOK, XaiTypeOK
  <2> QED BY <1>1, <1>3, <2>1, <2>2, <2>3 DEF r
<1>4. CASE port # "grok"
  <2>1. signal[r] = StubSignal /\ port = "stub"
    BY <1>2, <1>4 DEF Fits, RouteFits, AnalysisInv, SignalTypeOK
  <2>2. chat[r] = "none" /\ result[r] = None
    BY <1>2, <2>1 DEF Fits, ClientFits, RouteFits
  <2> QED BY <1>1, <1>4, <2>1, <2>2 DEF r
<1> QED BY <1>3, <1>4

LEMMA TradesAnswer == ASSUME AnalysisInv PROVE TradesAreAnswers
<1> SUFFICES ASSUME NEW i \in DOMAIN signals
             PROVE  LET r == signals[i].request
                        s == signals[i].signal
                    IN  /\ s.action # "PASS" => HasFinal(result[r]) /\ result[r].final = s.action
                        /\ s.reason = "agent_error" <=> HasError(result[r])
                        /\ s.reason = "invalid_output_schema" <=>
                               HasFinal(result[r]) /\ result[r].final = "invalid"
                        /\ s.reason = "agent_iteration_cap_exceeded" <=> HasTools(result[r])
  BY DEF TradesAreAnswers
<1> DEFINE r == signals[i].request
           s == signals[i].signal
<1>1. i \in 1..Len(signals)
  BY LenProperties DEF AnalysisInv, SignalTypeOK
<1>2. None \notin Reasons
  BY AgentAssumption
<1>3. {"agent_error", "invalid_output_schema", "agent_iteration_cap_exceeded"} = Reasons
  BY DEF Reasons
<1>4. CASE port = "grok"
  <2>1. s = Verdict(result[r]) /\ result[r] \in ToolTurn \cup Finish \cup Failure
    BY <1>1, <1>4, StoredIsFinal
  <2> HIDE DEF s, r
  <2>2. CASE result[r] \in Failure
    <3>1. s = [action |-> "PASS", reason |-> "agent_error"]
      BY <2>1, <2>2, ReplyIs, VerdictIs
    <3> QED BY <2>2, <3>1, ReplyIs DEF r, s
  <2>3. CASE result[r] \in ToolTurn
    <3>1. s = [action |-> "PASS", reason |-> "agent_iteration_cap_exceeded"]
      BY <2>1, <2>3, ReplyIs, VerdictIs
    <3> QED BY <2>3, <3>1, ReplyIs DEF r, s
  <2>4. CASE result[r] \in Finish /\ result[r].final = "invalid"
    <3>1. s = [action |-> "PASS", reason |-> "invalid_output_schema"]
      BY <2>1, <2>4, ReplyIs, VerdictIs
    <3> QED BY <2>4, <3>1, ReplyIs DEF r, s
  <2>5. CASE result[r] \in Finish /\ result[r].final # "invalid"
    <3>1. s = [action |-> result[r].final, reason |-> None]
      BY <2>1, <2>5, ReplyIs, VerdictIs
    <3>2. s.action = result[r].final /\ s.reason \notin Reasons
      BY <1>2, <3>1
    <3> QED BY <1>3, <2>5, <3>2, ReplyIs DEF r, s
  <2> QED BY <2>1, <2>2, <2>3, <2>4, <2>5
<1>5. CASE port # "grok"
  <2>1. s = StubSignal /\ result[r] = None
    BY <1>1, <1>5, StoredIsFinal
  <2>2. s.action = "PASS" /\ s.reason \notin Reasons
    BY <1>2, <2>1 DEF StubSignal
  <2>3. ~HasFinal(result[r]) /\ ~HasError(result[r]) /\ ~HasTools(result[r])
    BY <2>1 DEF HasFinal, HasError, HasTools
  <2> QED BY <1>3, <2>2, <2>3
<1> QED BY <1>4, <1>5


LEMMA EventsStored == ASSUME AnalysisInv PROVE EventsAreStored
<1>1. signals \in Seq(Stored) /\ stream \in Seq(Stored) /\ RowsFit
  BY DEF AnalysisInv, SignalTypeOK
<1>2. DOMAIN signals = 1..Len(signals) /\ DOMAIN stream = 1..Len(stream)
  BY <1>1, LenProperties
<1> SUFFICES ASSUME NEW r \in Requests
             PROVE  /\ Cardinality(StoredOf(r)) <= 1 /\ Cardinality(EventsOf(r)) <= 1
                    /\ \A i \in EventsOf(r) : \E j \in StoredOf(r) : stream[i] = signals[j]
                    /\ pc[r] = "answered" => StoredOf(r) # {} /\ EventsOf(r) # {}
  BY DEF EventsAreStored
<1>3. \A i, j \in StoredOf(r) : i = j
  BY <1>1, <1>2 DEF StoredOf, RowsFit
<1>4. \A i, j \in EventsOf(r) : i = j
  BY <1>1, <1>2 DEF EventsOf, RowsFit
<1>5. ASSUME NEW S, \A i, j \in S : i = j
      PROVE  Cardinality(S) <= 1
  <2>1. CASE S = {}
    BY <2>1, FS_EmptySet
  <2>2. CASE S # {}
    <3>1. PICK i \in S : S = {i}
      BY <1>5, <2>2
    <3>2. Cardinality({i}) = 1
      BY FS_Singleton
    <3> QED BY <3>1, <3>2
  <2> QED BY <2>1, <2>2
<1>6. ASSUME NEW i \in EventsOf(r)
      PROVE  \E j \in StoredOf(r) : stream[i] = signals[j]
  <2>1. i \in 1..Len(stream) /\ stream[i].request = r
    BY <1>2 DEF EventsOf
  <2>2. PICK j \in 1..Len(signals) : stream[i] = signals[j]
    BY <1>1, <2>1 DEF RowsFit
  <2> QED BY <1>2, <2>1, <2>2 DEF StoredOf
<1>7. pc[r] = "answered" => StoredOf(r) # {} /\ EventsOf(r) # {}
  BY <1>1, <1>2 DEF StoredOf, EventsOf, RowsFit
<1> QED BY <1>3, <1>4, <1>5, <1>6, <1>7

LEMMA StoredAudited == ASSUME AnalysisInv PROVE StoredIsAudited
<1> SUFFICES ASSUME NEW r \in Requests
             PROVE  /\ callRows[r] = SubSeq(records[r], 1, Len(callRows[r]))
                    /\ callRows[r] # <<>> => runRow[r] # None
                    /\ runRow[r] # None => runRow[r] = finalSignal[r]
                    /\ StoredOf(r) # {} /\ port = "grok" /\ r \notin untraced =>
                           runRow[r] = signal[r] /\ callRows[r] = records[r]
  BY DEF StoredIsAudited
<1> DEFINE n == Len(callRows[r])
<1>1. Fits(r) /\ callRows[r] \in Seq(Envelopes) /\ records[r] \in Seq(Envelopes)
  BY DEF AnalysisInv, SignalTypeOK, AgentTypeOK
<1>2. n \in Nat /\ Len(records[r]) \in Nat
  BY <1>1, LenProperties
<1>3. /\ n <= Len(records[r]) /\ \A i \in 1..n : callRows[r][i] = records[r][i]
      /\ n > 0 => runRow[r] # None
      /\ runRow[r] # None => runRow[r] = finalSignal[r]
  BY <1>1 DEF Fits, AgentFits
<1>4. callRows[r] # <<>> => n > 0
  BY <1>1, EmptySeq
<1>5. callRows[r] = SubSeq(records[r], 1, n)
  <2>1. \A i \in 1..n : records[r][i] \in Envelopes
    BY <1>1, <1>2, <1>3, ElementOfSeq
  <2>2. /\ SubSeq(records[r], 1, n) \in Seq(Envelopes)
        /\ Len(SubSeq(records[r], 1, n)) = IF 1 <= n THEN n - 1 + 1 ELSE 0
        /\ \A i \in 1..(n - 1 + 1) : SubSeq(records[r], 1, n)[i] = records[r][1 + i - 1]
    BY <1>2, <2>1, SubSeqProperties
  <2>3. Len(SubSeq(records[r], 1, n)) = n
    BY <1>2, <2>2
  <2>4. \A i \in 1..n : i \in 1..(n - 1 + 1) /\ 1 + i - 1 = i
    BY <1>2
  <2>5. \A i \in 1..n : callRows[r][i] = SubSeq(records[r], 1, n)[i]
    BY <1>3, <2>2, <2>4
  <2> QED BY <1>1, <2>2, <2>3, <2>5, SeqEqual
<1>6. ASSUME StoredOf(r) # {}, port = "grok", r \notin untraced
      PROVE  runRow[r] = signal[r] /\ callRows[r] = records[r]
  <2>1. PICK i \in DOMAIN signals : signals[i].request = r
    BY <1>6 DEF StoredOf
  <2>2. i \in 1..Len(signals)
    BY LenProperties DEF AnalysisInv, SignalTypeOK
  <2>3. agent[r] = "done" /\ signal[r] = finalSignal[r]
    BY <1>6, <2>1, <2>2, StoredIsFinal
  <2>4. runRow[r] = finalSignal[r] /\ n = Len(records[r])
    BY <1>1, <1>6, <2>3 DEF Fits, AgentFits
  <2>5. callRows[r] = records[r]
    BY <1>1, <1>3, <2>4, SeqEqual
  <2> QED BY <2>3, <2>4, <2>5
<1> QED BY <1>3, <1>4, <1>5, <1>6

(* SignalInv: calls are bounded, and rows, events and trail agree, for any  *)
(* number of requests, turns and attempts, whatever fails.                  *)
THEOREM SignalInvHolds == Spec => []SignalInv
<1>1. AnalysisInv => SignalInv
  BY CallsAreBounded, EventsStored, StoredAudited DEF SignalInv, AnalysisInv
<1> QED BY <1>1, AnalysisInvariant, PTL

(* TradesAreAnswers: only the model's own last, valid answer makes a trade. *)
THEOREM TradesAreAnswersHolds == Spec => []TradesAreAnswers
<1>1. AnalysisInv => TradesAreAnswers
  BY TradesAnswer
<1> QED BY <1>1, AnalysisInvariant, PTL

HIDE SignalAssumption
HIDE AgentAssumption
HIDE XaiAssumption

-----------------------------------------------------------------------------
(***************************************************************************)
(* Discovery.  Induction over the numbers: of the intervals that end in a  *)
(* number outside P, one is minimal.                                       *)
(***************************************************************************)
LEMMA EveryNumber ==
    ASSUME NEW P \in SUBSET Nat, 0 \in P, \A k \in P : k + 1 \in P
    PROVE  P = Nat
<1> SUFFICES ASSUME NEW n \in Nat, n \notin P PROVE FALSE
  OBVIOUS
<1> DEFINE T == {1..p : p \in {k \in 1..n : k \notin P}}
           R == StrictSubsetOrdering(1..n)
           S == FiniteSubsetsOf(1..n)
<1>1. T \subseteq S /\ T # {}
  <2>1. ASSUME NEW p \in 1..n PROVE 1..p \in S
    <3>1. p \in Int /\ 1..p \subseteq 1..n
      OBVIOUS
    <3>2. IsFiniteSet(1..p)
      BY <3>1, FS_Interval
    <3> QED BY <3>1, <3>2 DEF FiniteSubsetsOf
  <2>2. n # 0 /\ 1..n \in T
    OBVIOUS
  <2> QED BY <2>1, <2>2
<1>2. IsWellFoundedOn(R, S)
  BY FS_StrictSubsetOrderingWellFounded
<1>3. PICK t \in T : \A u \in T : ~(<<u, t>> \in R)
  <2> HIDE DEF T, R, S
  <2> QED BY <1>1, <1>2, WFMin
<1>4. PICK p \in 1..n : t = 1..p /\ p \notin P
  OBVIOUS
<1>5. p - 1 \in 1..n /\ p - 1 \notin P
  <2>1. p - 1 \in Nat /\ p - 1 \notin P
    BY <1>4
  <2>2. p - 1 # 0
    BY <2>1
  <2> QED BY <2>1, <2>2
<1>6. 1..(p - 1) \in T /\ 1..(p - 1) \subseteq 1..p /\ 1..(p - 1) # 1..p
  BY <1>5
<1>7. 1..(p - 1) \in SUBSET (1..n) /\ 1..p \in SUBSET (1..n)
  OBVIOUS
<1>8. <<1..(p - 1), 1..p>> \in R
  BY <1>6, <1>7 DEF StrictSubsetOrdering
<1> QED BY <1>3, <1>4, <1>6, <1>8

(* What is kept of the first n elements, and that there is such a function. *)
KeptStep(s, wanted, g, n) ==
    IF n = 0 THEN <<>>
    ELSE IF s[n] \in wanted THEN Append(g[n - 1], s[n]) ELSE g[n - 1]

KeptUpto(s, wanted, k, g) ==
    g \in [0..k -> Seq(wanted)] /\ \A n \in 0..k : g[n] = KeptStep(s, wanted, g, n)

LEMMA KeptExists ==
    ASSUME NEW s, NEW wanted, NEW k \in Nat
    PROVE  \E g : KeptUpto(s, wanted, k, g)
<1> DEFINE P == {n \in Nat : \E g : KeptUpto(s, wanted, n, g)}
<1>1. 0 \in P
  <2> DEFINE g == [n \in 0..0 |-> <<>>]
  <2>1. g \in [0..0 -> Seq(wanted)]
    BY EmptySeq
  <2>2. \A n \in 0..0 : g[n] = KeptStep(s, wanted, g, n)
    BY DEF KeptStep
  <2> QED BY <2>1, <2>2 DEF KeptUpto
<1>2. ASSUME NEW n \in P PROVE n + 1 \in P
  <2>1. PICK g : KeptUpto(s, wanted, n, g)
    OBVIOUS
  <2> DEFINE e == IF s[n + 1] \in wanted THEN Append(g[n], s[n + 1]) ELSE g[n]
             h == [m \in 0..n + 1 |-> IF m = n + 1 THEN e ELSE g[m]]
  <2>2. n \in Nat /\ n \in 0..n /\ g \in [0..n -> Seq(wanted)]
    BY <2>1 DEF KeptUpto
  <2>3. e \in Seq(wanted)
    BY <2>2, AppendProperties
  <2> HIDE DEF e
  <2>4. /\ h \in [0..n + 1 -> Seq(wanted)]
        /\ h[n + 1] = e /\ \A m \in 0..n : h[m] = g[m]
    BY <2>2, <2>3
  <2> HIDE DEF h
  <2>5. ASSUME NEW m \in 0..n + 1 PROVE h[m] = KeptStep(s, wanted, h, m)
    <3>1. CASE m = n + 1
      <4>1. h[m - 1] = g[n]
        BY <2>2, <2>4, <3>1
      <4> QED BY <2>2, <2>4, <3>1, <4>1 DEF KeptStep, e
    <3>2. CASE m \in 0..n
      <4>1. g[m] = KeptStep(s, wanted, g, m)
        BY <2>1, <3>2 DEF KeptUpto
      <4>2. m # 0 => h[m - 1] = g[m - 1]
        BY <2>2, <2>4, <3>2
      <4> QED BY <2>2, <2>4, <3>2, <4>1, <4>2 DEF KeptStep
    <3> QED BY <2>2, <3>1, <3>2
  <2>6. KeptUpto(s, wanted, n + 1, h)
    BY <2>4, <2>5 DEF KeptUpto
  <2> QED BY <2>2, <2>6
<1>3. P = Nat
  <2> HIDE DEF P
  <2>1. P \in SUBSET Nat
    BY DEF P
  <2> QED BY <1>1, <1>2, <2>1, EveryNumber
<1> QED BY <1>3

(* Two such functions agree, so that any of them tells what is kept.        *)
LEMMA KeptIs ==
    ASSUME NEW s, NEW wanted, Len(s) \in Nat
    PROVE  \E g : KeptUpto(s, wanted, Len(s), g) /\ Kept(s, wanted) = g[Len(s)]
<1> DEFINE Is(g) == g = [n \in 0..Len(s) |-> KeptStep(s, wanted, g, n)]
           c == CHOOSE g : Is(g)
<1>1. PICK g : KeptUpto(s, wanted, Len(s), g)
  BY KeptExists
<1>2. g = [n \in 0..Len(s) |-> KeptStep(s, wanted, g, n)]
  BY <1>1 DEF KeptUpto
<1>3. Is(c)
  BY <1>2
<1>4. Kept(s, wanted) = c[Len(s)]
  BY DEF Kept, KeptStep
<1> HIDE DEF c
<1>5. \A n \in 0..Len(s) : c[n] = KeptStep(s, wanted, c, n)
  BY <1>3
<1>6. DOMAIN c = 0..Len(s)
  BY <1>3
<1> DEFINE P == {n \in Nat : n <= Len(s) => c[n] \in Seq(wanted)}
<1>7. P = Nat
  <2>1. 0 \in P
    <3>1. c[0] = <<>>
      BY <1>5 DEF KeptStep
    <3> QED BY <3>1, EmptySeq
  <2>2. ASSUME NEW n \in P PROVE n + 1 \in P
    <3>1. n \in Nat /\ (n + 1 <= Len(s) => c[n] \in Seq(wanted))
      OBVIOUS
    <3>2. ASSUME n + 1 <= Len(s) PROVE c[n + 1] \in Seq(wanted)
      <4>1. c[n + 1] = IF s[n + 1] \in wanted THEN Append(c[n], s[n + 1]) ELSE c[n]
        <5>1. n + 1 \in 0..Len(s) /\ n + 1 # 0 /\ (n + 1) - 1 = n
          BY <3>1, <3>2
        <5> QED BY <1>5, <5>1 DEF KeptStep
      <4> QED BY <3>1, <3>2, <4>1, AppendProperties
    <3> QED BY <3>1, <3>2
  <2>3. P \in SUBSET Nat
    OBVIOUS
  <2> HIDE DEF P
  <2> QED BY <2>1, <2>2, <2>3, EveryNumber
<1>8. c \in [0..Len(s) -> Seq(wanted)]
  <2>1. \A n \in 0..Len(s) : c[n] \in Seq(wanted)
    BY <1>7
  <2>2. c = [n \in 0..Len(s) |-> c[n]]
    BY <1>3, <1>6
  <2> QED BY <2>1, <2>2
<1> QED BY <1>4, <1>5, <1>8 DEF KeptUpto

LEMMA KeptType ==
    ASSUME NEW S, NEW s \in Seq(S), NEW wanted
    PROVE  Kept(s, wanted) \in Seq(wanted)
<1>1. Len(s) \in Nat /\ Len(s) \in 0..Len(s)
  BY LenProperties
<1>2. PICK g : KeptUpto(s, wanted, Len(s), g) /\ Kept(s, wanted) = g[Len(s)]
  BY <1>1, KeptIs
<1> QED BY <1>1, <1>2 DEF KeptUpto

LEMMA KeptOfNothing ==
    ASSUME NEW wanted
    PROVE  Kept(<<>>, wanted) = <<>>
<1>1. Len(<<>>) = 0
  OBVIOUS
<1>2. PICK g : KeptUpto(<<>>, wanted, 0, g) /\ Kept(<<>>, wanted) = g[0]
  BY <1>1, KeptIs
<1>3. 0 \in 0..0
  OBVIOUS
<1> QED BY <1>2, <1>3 DEF KeptUpto, KeptStep

LEMMA AppendToJoined ==
    ASSUME NEW S, NEW x \in Seq(S), NEW y \in Seq(S), NEW e \in S
    PROVE  Append(x \o y, e) = x \o Append(y, e)
<1>1. x \o y \in Seq(S) /\ <<e>> \in Seq(S)
  BY ConcatProperties
<1>2. Append(x \o y, e) = (x \o y) \o <<e>> /\ Append(y, e) = y \o <<e>>
  BY <1>1, AppendIsConcat
<1>3. (x \o y) \o <<e>> = x \o (y \o <<e>>)
  BY <1>1, ConcatAssociative
<1> QED BY <1>2, <1>3

(* What is kept of two sequences is what is kept of both joined.            *)
LEMMA KeptOfJoined ==
    ASSUME NEW S, NEW s \in Seq(S), NEW t \in Seq(S), NEW wanted
    PROVE  Kept(s \o t, wanted) = Kept(s, wanted) \o Kept(t, wanted)
<1> DEFINE a == Len(s)
           b == Len(t)
<1>1. /\ a \in Nat /\ b \in Nat /\ Len(s \o t) = a + b
      /\ \A i \in 1..a : (s \o t)[i] = s[i]
      /\ \A i \in 1..b : (s \o t)[a + i] = t[i]
  BY LenProperties, ConcatProperties
<1>2. PICK f : KeptUpto(s, wanted, a, f) /\ Kept(s, wanted) = f[a]
  BY <1>1, KeptIs
<1>3. PICK g : KeptUpto(t, wanted, b, g) /\ Kept(t, wanted) = g[b]
  BY <1>1, KeptIs
<1>4. PICK h : KeptUpto(s \o t, wanted, a + b, h) /\ Kept(s \o t, wanted) = h[a + b]
  <2> DEFINE st == s \o t
  <2>1. Len(st) = a + b /\ Len(st) \in Nat
    BY <1>1
  <2> HIDE DEF st, a, b
  <2>2. PICK h : KeptUpto(st, wanted, Len(st), h) /\ Kept(st, wanted) = h[Len(st)]
    BY <2>1, KeptIs
  <2>3. KeptUpto(st, wanted, a + b, h) /\ Kept(st, wanted) = h[a + b]
    BY <2>1, <2>2
  <2> QED BY <2>3 DEF st
<1>0. a \in Nat /\ b \in Nat
  BY <1>1
<1> HIDE DEF a, b
<1>5. ASSUME NEW n \in Nat, n <= a PROVE h[n] = f[n]
  <2> DEFINE P == {k \in Nat : k <= a => h[k] = f[k]}
  <2>1. 0 \in P
    <3>1. 0 \in 0..a /\ 0 \in 0..a + b
      BY <1>1
    <3> QED BY <1>2, <1>4, <3>1 DEF KeptUpto, KeptStep
  <2>2. ASSUME NEW k \in P PROVE k + 1 \in P
    <3>1. k \in Nat /\ (k + 1 <= a => h[k] = f[k])
      BY <1>1
    <3>2. ASSUME k + 1 <= a PROVE h[k + 1] = f[k + 1]
      <4>1. k + 1 \in 0..a /\ k + 1 \in 0..a + b /\ k + 1 # 0 /\ (k + 1) - 1 = k
        BY <1>0, <3>1, <3>2
      <4>2. (s \o t)[k + 1] = s[k + 1]
        BY <1>1, <4>1
      <4>3. f[k + 1] = KeptStep(s, wanted, f, k + 1) /\ h[k + 1] = KeptStep(s \o t, wanted, h, k + 1)
        BY <1>2, <1>4, <4>1 DEF KeptUpto
      <4> QED BY <3>1, <3>2, <4>1, <4>2, <4>3 DEF KeptStep
    <3> QED BY <3>1, <3>2
  <2>3. P \in SUBSET Nat
    OBVIOUS
  <2>4. P = Nat
    <3> HIDE DEF P
    <3> QED BY <2>1, <2>2, <2>3, EveryNumber
  <2> QED BY <1>5, <2>4
<1>6. f[a] \in Seq(wanted) /\ \A n \in 0..b : g[n] \in Seq(wanted)
  BY <1>1, <1>2, <1>3 DEF KeptUpto
<1>7. ASSUME NEW n \in Nat, n <= b PROVE h[a + n] = f[a] \o g[n]
  <2> DEFINE Holds(k) == h[a + k] = f[a] \o g[k]
             P == {k \in Nat : k <= b => Holds(k)}
  <2>1. Holds(0)
    <3>1. g[0] = <<>>
      <4>1. 0 \in 0..b
        BY <1>1
      <4> QED BY <1>3, <4>1 DEF KeptUpto, KeptStep
    <3>2. h[a + 0] = f[a]
      BY <1>1, <1>5
    <3>3. f[a] \o <<>> = f[a]
      BY <1>6, ConcatEmptySeq
    <3> QED BY <3>1, <3>2, <3>3
  <2>2. ASSUME NEW k \in P PROVE k + 1 \in P
    <3>1. k \in Nat /\ (k + 1 <= b => Holds(k))
      <4> HIDE DEF Holds
      <4> QED BY <1>1
    <3>2. ASSUME k + 1 <= b PROVE Holds(k + 1)
      <4>1. /\ k + 1 \in 0..b /\ k + 1 # 0 /\ (k + 1) - 1 = k /\ k \in 0..b
            /\ a + (k + 1) \in 0..a + b /\ a + (k + 1) # 0 /\ (a + (k + 1)) - 1 = a + k
        BY <1>0, <3>1, <3>2
      <4>2. (s \o t)[a + (k + 1)] = t[k + 1]
        BY <1>1, <4>1
      <4>3. /\ g[k + 1] = KeptStep(t, wanted, g, k + 1)
            /\ h[a + (k + 1)] = KeptStep(s \o t, wanted, h, a + (k + 1))
        BY <1>3, <1>4, <4>1 DEF KeptUpto
      <4>4. g[k] \in Seq(wanted) /\ h[a + k] = f[a] \o g[k]
        BY <1>6, <3>1, <3>2, <4>1
      <4>5. ASSUME NEW e \in wanted
            PROVE  Append(f[a] \o g[k], e) = f[a] \o Append(g[k], e)
        <5>1. f[a] \in Seq(wanted) /\ g[k] \in Seq(wanted)
          BY <1>6, <4>4
        <5>2. \A x, y \in Seq(wanted) : \A z \in wanted : Append(x \o y, z) = x \o Append(y, z)
          BY AppendToJoined
        <5> HIDE DEF Holds, P
        <5> QED BY <5>1, <5>2, Zenon
      <4>6. CASE t[k + 1] \in wanted
        <5>1. g[k + 1] = Append(g[k], t[k + 1])
          BY <4>1, <4>3, <4>6 DEF KeptStep
        <5>2. h[a + (k + 1)] = Append(h[a + k], t[k + 1])
          BY <4>1, <4>2, <4>3, <4>6 DEF KeptStep
        <5> QED BY <4>4, <4>5, <4>6, <5>1, <5>2
      <4>7. CASE t[k + 1] \notin wanted
        <5>1. g[k + 1] = g[k]
          BY <4>1, <4>3, <4>7 DEF KeptStep
        <5>2. h[a + (k + 1)] = h[a + k]
          BY <4>1, <4>2, <4>3, <4>7 DEF KeptStep
        <5> QED BY <4>4, <5>1, <5>2
      <4> QED BY <4>6, <4>7
    <3> HIDE DEF Holds
    <3> QED BY <3>1, <3>2
  <2>3. P \in SUBSET Nat
    OBVIOUS
  <2>4. P = Nat
    <3>1. 0 \in P
      <4> HIDE DEF Holds
      <4> QED BY <2>1
    <3> HIDE DEF P
    <3> QED BY <2>2, <2>3, <3>1, EveryNumber
  <2>5. Holds(n)
    <3> HIDE DEF Holds
    <3> QED BY <1>7, <2>4
  <2> QED BY <2>5
<1>8. h[a + b] = f[a] \o g[b]
  <2>1. b \in Nat /\ b <= b
    BY <1>1
  <2> QED BY <1>7, <2>1, Zenon
<1> QED BY <1>2, <1>3, <1>4, <1>8

(***************************************************************************)
(* How far a fetch has got: the pages behind the cursor are those read, and *)
(* every request is one of the attempts of its page.                       *)
(***************************************************************************)
Behind == Kept(SubSeq(listing, 1, cursor), Parsed)

PagesRead ==
    fetch \in {"call", "backoff"} /\ ~shifted =>
        /\ cursor <= Len(listing) /\ cursor <= (page - 1) * PageSize
        /\ cursor = (page - 1) * PageSize \/ cursor = Len(listing)
        /\ all = Behind

CallsCounted ==
    /\ calls <= (page - 1) * ListAttempts + attemptNo
    /\ fetch = "backoff" => attemptNo < ListAttempts

FetchInv ==
    /\ DiscoveryTypeOK
    /\ PagesCoverListing
    /\ PagesRead
    /\ CallsCounted
    /\ refused => fetch = "failed"

LEMMA Bounds ==
    /\ PageSize \in Nat \ {0} /\ MaxPages \in Nat \ {0} /\ ListAttempts \in Nat \ {0}
    /\ 1 \in 1..MaxPages /\ 1 \in 1..ListAttempts
BY DiscoveryAssumption

(* Two neighbours of the multiples of a positive number, by name.           *)
LEMMA NextMultiple ==
    ASSUME NEW d \in Nat \ {0}, NEW p \in Nat \ {0}
    PROVE  /\ (p - 1) * d \in Nat /\ p * d = (p - 1) * d + d
           /\ \A q : q = p + 1 => (q - 1) * d = p * d
BY SMT

LEMMA MultiplesOrdered ==
    ASSUME NEW d \in Nat \ {0}, NEW q \in Nat, NEW p \in 1..q
    PROVE  p * d <= q * d
<1>1. q - p \in Nat /\ q * d = p * d + (q - p) * d
  BY SMT
<1>2. (q - p) * d \in Nat
  BY <1>1
<1>3. p * d \in Int
  OBVIOUS
<1> DEFINE x == p * d
           y == (q - p) * d
<1> HIDE DEF x, y
<1> QED BY <1>1, <1>2, <1>3 DEF x, y

(* A stretch of the listing, and two that are neighbours.                   *)
LEMMA StretchType ==
    ASSUME listing \in Seq(Entries), NEW m \in Nat \ {0}, NEW n \in Nat
    PROVE  Stretch(m, n) \in Seq(Entries)
<1>1. Len(listing) \in Nat /\ \A i \in 1..Len(listing) : listing[i] \in Entries
  BY LenProperties, ElementOfSeq
<1>2. PICK k \in Nat : k <= Len(listing) /\ Stretch(m, n) = SubSeq(listing, m, k)
  BY <1>1 DEF Stretch
<1>3. \A i \in m..k : listing[i] \in Entries
  BY <1>1, <1>2
<1>4. SubSeq(listing, m, k) \in Seq(Entries)
  BY <1>3, SubSeqProperties
<1> QED BY <1>2, <1>4

LEMMA PageBehind ==
    ASSUME listing \in Seq(Entries), NEW c \in Nat, c <= Len(listing), PageSize \in Nat,
           NEW end, end = IF c + PageSize <= Len(listing) THEN c + PageSize ELSE Len(listing)
    PROVE  /\ end \in c..Len(listing)
           /\ Kept(SubSeq(listing, 1, c), Parsed) \o Kept(PageAt(c), Parsed)
                = Kept(SubSeq(listing, 1, end), Parsed)
<1>1. Len(listing) \in Nat /\ \A i \in 1..Len(listing) : listing[i] \in Entries
  BY LenProperties, ElementOfSeq
<1>2. end \in c..Len(listing)
  BY <1>1
<1>3. PageAt(c) = SubSeq(listing, c + 1, end)
  BY DEF PageAt, Stretch
<1>4. SubSeq(listing, 1, c) \in Seq(Entries)
  <2>1. \A i \in 1..c : listing[i] \in Entries
    BY <1>1
  <2> QED BY <2>1, SubSeqProperties
<1>5. PageAt(c) \in Seq(Entries)
  <2>1. \A i \in c + 1..end : listing[i] \in Entries
    BY <1>1, <1>2
  <2>2. SubSeq(listing, c + 1, end) \in Seq(Entries)
    BY <1>2, <2>1, SubSeqProperties
  <2> QED BY <1>3, <2>2
<1>6. SubSeq(listing, 1, c) \o SubSeq(listing, c + 1, end) = SubSeq(listing, 1, end)
  <2>1. 1 \in 1..Len(listing) + 1 /\ c \in (1 - 1)..Len(listing) /\ end \in c..Len(listing)
    BY <1>1, <1>2
  <2> QED BY <2>1, ConcatAdjacentSubSeq
<1>7. Kept(SubSeq(listing, 1, c) \o PageAt(c), Parsed)
        = Kept(SubSeq(listing, 1, c), Parsed) \o Kept(PageAt(c), Parsed)
  <2> DEFINE x == SubSeq(listing, 1, c)
             y == PageAt(c)
  <2>1. x \in Seq(Entries) /\ y \in Seq(Entries)
    BY <1>4, <1>5
  <2> HIDE DEF x, y
  <2>2. Kept(x \o y, Parsed) = Kept(x, Parsed) \o Kept(y, Parsed)
    BY <2>1, KeptOfJoined
  <2> QED BY <2>2 DEF x, y
<1> QED BY <1>2, <1>3, <1>6, <1>7

-----------------------------------------------------------------------------
LEMMA InitFetch == ASSUME DiscoveryInit PROVE FetchInv
<1>1. DiscoveryTypeOK
  <2>1. listing \in Seq(Entries)
    BY DiscoveryAssumption DEF DiscoveryInit
  <2>2. <<>> \in Seq(Entries)
    BY EmptySeq
  <2> QED BY <2>1, <2>2, Bounds DEF DiscoveryInit, DiscoveryTypeOK
<1>2. (page - 1) * ListAttempts = 0
  BY Bounds DEF DiscoveryInit
<1> QED BY <1>1, <1>2, Bounds DEF FetchInv, DiscoveryInit, PagesCoverListing, PagesRead, CallsCounted

(* The exchange changes its list, and the fetch is no longer measured by it.*)
LEMMA ShiftKeeps == ASSUME FetchInv, Shift PROVE FetchInv'
<1>1. listing' \in Seq(Entries)
  <2>1. ASSUME NEW e \in Entries, listing' = <<e>> \o listing PROVE listing' \in Seq(Entries)
    <3>1. <<e>> \in Seq(Entries) /\ listing \in Seq(Entries)
      BY DEF FetchInv, DiscoveryTypeOK
    <3> QED BY <2>1, <3>1, ConcatProperties
  <2>2. ASSUME NEW i \in DOMAIN listing, listing' = Without(listing, i)
        PROVE  listing' \in Seq(Entries)
    <3>1. /\ listing \in Seq(Entries) /\ Len(listing) \in Nat /\ i \in 1..Len(listing)
          /\ \A j \in 1..Len(listing) : listing[j] \in Entries
      BY LenProperties, ElementOfSeq DEF FetchInv, DiscoveryTypeOK
    <3>2. SubSeq(listing, 1, i - 1) \in Seq(Entries)
      <4>1. \A j \in 1..i - 1 : listing[j] \in Entries
        BY <3>1
      <4> QED BY <3>1, <4>1, SubSeqProperties
    <3>3. SubSeq(listing, i + 1, Len(listing)) \in Seq(Entries)
      <4>1. \A j \in i + 1..Len(listing) : listing[j] \in Entries
        BY <3>1
      <4> QED BY <3>1, <4>1, SubSeqProperties
    <3> QED BY <2>2, <3>2, <3>3, ConcatProperties DEF Without
  <2> QED BY <2>1, <2>2 DEF Shift
<1>2. shifted' /\ UNCHANGED <<fetch, page, attemptNo, cursor, all, calls, refused>>
  BY DEF Shift
<1> QED BY <1>1, <1>2
     DEF FetchInv, Shift, DiscoveryTypeOK, PagesCoverListing, PagesRead, CallsCounted

LEMMA FetchAllKeeps == ASSUME FetchInv, FetchAll PROVE FetchInv'
<1>1. DiscoveryTypeOK'
  <2>1. <<>> \in Seq(Entries)
    BY EmptySeq
  <2> QED BY <2>1, Bounds DEF FetchInv, FetchAll, DiscoveryTypeOK
<1>2. PagesRead'
  <2>1. cursor' = 0 /\ page' = 1 /\ all' = <<>> /\ listing' = listing
    BY DEF FetchAll
  <2>2. (page' - 1) * PageSize = 0 /\ Len(listing') \in Nat
    BY <2>1, Bounds, LenProperties DEF FetchInv, DiscoveryTypeOK
  <2>3. SubSeq(listing', 1, cursor') = <<>>
    BY <2>1, SubSeqEmpty
  <2>4. Behind' = <<>>
    BY <2>3, KeptOfNothing DEF Behind, Parsed
  <2> QED BY <2>1, <2>2, <2>4 DEF PagesRead
<1>3. CallsCounted'
  <2>1. (page' - 1) * ListAttempts = 0
    BY Bounds DEF FetchAll
  <2> QED BY <2>1 DEF FetchAll, CallsCounted
<1> QED BY <1>1, <1>2, <1>3 DEF FetchInv, FetchAll, PagesCoverListing

(* A call that fails leaves what has been read.                             *)
LEMMA CallFailsKeeps == ASSUME FetchInv, NEW class \in Classes, CallFails(class) PROVE FetchInv'
<1>1. /\ UNCHANGED <<listing, page, attemptNo, cursor, all, calls, shifted>>
      /\ fetch = "call" /\ fetch' \in {"backoff", "failed"}
      /\ fetch' = "backoff" => MayRetry(class) /\ attemptNo < ListAttempts
  BY DEF CallFails
<1>2. ~refused /\ refused' \in BOOLEAN
  BY <1>1 DEF FetchInv, CallFails, DiscoveryTypeOK
<1>3. refused' => fetch' = "failed"
  BY <1>1, <1>2 DEF CallFails, MayRetry
<1>4. DiscoveryTypeOK'
  BY <1>1, <1>2 DEF FetchInv, DiscoveryTypeOK
<1>5. PagesRead' /\ PagesCoverListing' /\ CallsCounted'
  BY <1>1 DEF FetchInv, PagesRead, PagesCoverListing, CallsCounted, Behind, Parsed
<1> QED BY <1>3, <1>4, <1>5 DEF FetchInv

LEMMA CallAgainKeeps == ASSUME FetchInv, CallAgain PROVE FetchInv'
<1>1. /\ UNCHANGED <<listing, page, cursor, all, refused, shifted>>
      /\ fetch = "backoff" /\ fetch' = "call"
      /\ attemptNo' = attemptNo + 1 /\ calls' = calls + 1
  BY DEF CallAgain
<1>2. attemptNo < ListAttempts /\ calls <= (page - 1) * ListAttempts + attemptNo /\ ~refused
  BY <1>1 DEF FetchInv, CallsCounted
<1>3. DiscoveryTypeOK'
  BY <1>1, <1>2, Bounds DEF FetchInv, DiscoveryTypeOK
<1>4. (page - 1) * ListAttempts \in Nat
  BY Bounds, NextMultiple DEF FetchInv, DiscoveryTypeOK
<1>5. CallsCounted'
  <2> DEFINE before == (page - 1) * ListAttempts
  <2>1. before \in Nat /\ calls <= before + attemptNo
    BY <1>2, <1>4
  <2> HIDE DEF before
  <2>2. calls' <= before + attemptNo'
    BY <1>1, <2>1 DEF FetchInv, DiscoveryTypeOK
  <2> QED BY <1>1, <2>2 DEF CallsCounted, before
<1>6. PagesRead' /\ PagesCoverListing'
  BY <1>1 DEF FetchInv, PagesRead, PagesCoverListing, Behind, Parsed
<1> QED BY <1>1, <1>2, <1>3, <1>5, <1>6 DEF FetchInv

LEMMA NotAPageKeeps == ASSUME FetchInv, NotAPage PROVE FetchInv'
BY DEF FetchInv, NotAPage, DiscoveryTypeOK, PagesRead, PagesCoverListing, CallsCounted

(* A page is read: the pages behind the cursor are one more, or the fetch   *)
(* is at the end of the list or at the cap.                                 *)
LEMMA PageReadKeeps == ASSUME FetchInv, PageRead PROVE FetchInv'
<1> DEFINE end == IF cursor + PageSize <= Len(listing) THEN cursor + PageSize ELSE Len(listing)
           here == (page - 1) * PageSize
<1>1. /\ UNCHANGED <<listing, refused, shifted>> /\ fetch = "call"
      /\ all' = all \o Kept(PageAt(cursor), Parsed)
  BY DEF PageRead
<1>2. PICK next \in NextCursors(cursor) :
         IF IsLastPage(next) \/ AtCap
         THEN fetch' = "done" /\ UNCHANGED <<page, attemptNo, cursor, calls>>
         ELSE /\ UNCHANGED fetch
              /\ page' = page + 1 /\ attemptNo' = 1 /\ cursor' = next /\ calls' = calls + 1
  BY DEF PageRead
<1>3. /\ listing \in Seq(Entries) /\ Len(listing) \in Nat /\ cursor \in Nat
      /\ page \in 1..MaxPages /\ page \in Nat \ {0} /\ attemptNo \in 1..ListAttempts /\ calls \in Nat
      /\ all \in Seq(Entries) /\ shifted \in BOOLEAN /\ ~refused
  BY <1>1, Bounds, LenProperties DEF FetchInv, DiscoveryTypeOK
<1>4. all' \in Seq(Entries)
  <2>1. PageAt(cursor) \in Seq(Entries)
    <3>1. cursor + 1 \in Nat \ {0} /\ cursor + PageSize \in Nat
      BY <1>3, Bounds
    <3> QED BY <1>3, <3>1, StretchType DEF PageAt
  <2>2. Kept(PageAt(cursor), Parsed) \in Seq(Parsed)
    BY <2>1, KeptType
  <2>3. Parsed \subseteq Entries
    BY DEF Parsed
  <2>4. Kept(PageAt(cursor), Parsed) \in Seq(Entries)
    BY <2>2, <2>3, SeqMonotonic
  <2> QED BY <1>1, <1>3, <2>4, ConcatProperties
<1>5. next = NoCursor \/ next \in Nat
  BY <1>2, <1>3, Bounds DEF NextCursors
<1>6. DiscoveryTypeOK'
  <2>1. CASE IsLastPage(next) \/ AtCap
    BY <1>1, <1>2, <1>4, <2>1 DEF FetchInv, DiscoveryTypeOK
  <2>2. CASE ~(IsLastPage(next) \/ AtCap)
    <3>1. next \in Nat /\ page + 1 \in 1..MaxPages
      BY <1>3, <1>5, <2>2, Bounds DEF IsLastPage, AtCap
    <3> QED BY <1>1, <1>2, <1>3, <1>4, <2>2, <3>1, Bounds DEF FetchInv, DiscoveryTypeOK
  <2> QED BY <2>1, <2>2
<1>7. CallsCounted'
  <2> DEFINE before == (page - 1) * ListAttempts
  <2>1. /\ before \in Nat /\ page * ListAttempts = before + ListAttempts
        /\ \A q : q = page + 1 => (q - 1) * ListAttempts = page * ListAttempts
    BY <1>3, Bounds, NextMultiple
  <2>2. calls <= before + attemptNo
    BY DEF FetchInv, CallsCounted
  <2> HIDE DEF before
  <2>3. CASE IsLastPage(next) \/ AtCap
    BY <1>2, <2>2, <2>3 DEF CallsCounted, before
  <2>4. CASE ~(IsLastPage(next) \/ AtCap)
    <3>1. calls' <= before + ListAttempts + 1
      BY <1>2, <1>3, <2>1, <2>2, <2>4, Bounds
    <3>2. (page' - 1) * ListAttempts = before + ListAttempts /\ attemptNo' = 1
      <4>1. page' = page + 1 /\ attemptNo' = 1
        BY <1>2, <2>4
      <4> QED BY <2>1, <4>1, Zenon
    <3> QED BY <1>1, <1>2, <2>4, <3>1, <3>2 DEF CallsCounted
  <2> QED BY <2>3, <2>4
<1>8. ASSUME ~shifted
      PROVE  /\ cursor <= Len(listing) /\ cursor <= here
             /\ cursor = here \/ cursor = Len(listing)
             /\ end \in cursor..Len(listing)
             /\ all' = Kept(SubSeq(listing, 1, end), Parsed)
  <2>1. /\ cursor <= Len(listing) /\ cursor <= here /\ (cursor = here \/ cursor = Len(listing))
        /\ all = Kept(SubSeq(listing, 1, cursor), Parsed)
    BY <1>1, <1>8 DEF FetchInv, PagesRead, Behind
  <2>2. /\ end \in cursor..Len(listing)
        /\ Kept(SubSeq(listing, 1, cursor), Parsed) \o Kept(PageAt(cursor), Parsed)
             = Kept(SubSeq(listing, 1, end), Parsed)
    <3>1. end = IF cursor + PageSize <= Len(listing) THEN cursor + PageSize ELSE Len(listing)
      OBVIOUS
    <3> HIDE DEF end
    <3>2. PageSize \in Nat /\ cursor <= Len(listing)
      BY <2>1, Bounds
    <3> QED BY <1>3, <3>1, <3>2, PageBehind
  <2> HIDE DEF end, here
  <2> QED BY <1>1, <2>1, <2>2
<1>9. /\ here \in Nat /\ page * PageSize = here + PageSize
      /\ \A q : q = page + 1 => (q - 1) * PageSize = here + PageSize
      /\ here + PageSize <= MaxPages * PageSize /\ MaxPages * PageSize \in Nat
  <2>1. /\ here \in Nat /\ page * PageSize = here + PageSize
        /\ \A q : q = page + 1 => (q - 1) * PageSize = here + PageSize
    BY <1>3, Bounds, NextMultiple
  <2>2. page * PageSize <= MaxPages * PageSize
    BY <1>3, Bounds, MultiplesOrdered
  <2>3. MaxPages * PageSize \in Nat
    BY Bounds
  <2> HIDE DEF here
  <2> QED BY <2>1, <2>2, <2>3
<1> HIDE DEF here, end
<1>10. PagesRead'
  <2>1. SUFFICES ASSUME fetch' \in {"call", "backoff"}, ~shifted
                 PROVE  /\ cursor' <= Len(listing) /\ cursor' <= (page' - 1) * PageSize
                        /\ cursor' = (page' - 1) * PageSize \/ cursor' = Len(listing)
                        /\ all' = Kept(SubSeq(listing, 1, cursor'), Parsed)
    BY <1>1 DEF PagesRead, Behind, Parsed
  <2>2. ~(IsLastPage(next) \/ AtCap)
    BY <1>2, <2>1
  <2>3. page' = page + 1 /\ cursor' = next /\ next # NoCursor /\ (page' - 1) * PageSize = here + PageSize
    <3>1. page' = page + 1 /\ cursor' = next /\ next # NoCursor
      BY <1>2, <2>2 DEF IsLastPage
    <3> QED BY <1>9, <3>1, Zenon
  <2>4. CASE cursor + PageSize < Len(listing)
    <3>1. next = cursor + PageSize /\ end = next /\ cursor = here
      BY <1>2, <1>3, <1>8, <2>1, <2>3, <2>4, Bounds DEF NextCursors, end
    <3> QED BY <1>3, <1>8, <1>9, <2>1, <2>3, <2>4, <3>1, Bounds
  <2>5. CASE ~(cursor + PageSize < Len(listing))
    <3>1. next = Len(listing) /\ end = Len(listing)
      BY <1>2, <1>3, <1>8, <2>1, <2>3, <2>5, Bounds DEF NextCursors, end
    <3> QED BY <1>3, <1>8, <1>9, <2>1, <2>3, <2>5, <3>1, Bounds
  <2> QED BY <2>4, <2>5
<1>11. PagesCoverListing'
  <2>1. SUFFICES ASSUME fetch' = "done", ~shifted
                 PROVE  all' = Kept(Stretch(1, MaxPages * PageSize), Parsed)
    BY <1>1 DEF PagesCoverListing, Stretch, Parsed
  <2>2. IsLastPage(next) \/ AtCap
    BY <1>1, <1>2, <2>1
  <2> DEFINE most == MaxPages * PageSize
  <2>3. most \in Nat /\ here + PageSize <= most /\ (AtCap => here + PageSize = most)
    BY <1>9 DEF AtCap
  <2> HIDE DEF most
  <2>4. end = IF most <= Len(listing) THEN most ELSE Len(listing)
    <3>1. CASE cursor = Len(listing)
      BY <1>3, <1>8, <1>9, <2>1, <2>3, <3>1, Bounds DEF end
    <3>2. CASE cursor = here /\ AtCap
      BY <1>3, <1>9, <2>3, <3>2, Bounds DEF end
    <3>3. CASE cursor = here /\ IsLastPage(next)
      <4>1. ~(cursor + PageSize < Len(listing))
        BY <1>2, <1>3, <3>3, Bounds, DiscoveryAssumption DEF NextCursors, IsLastPage
      <4> QED BY <1>3, <1>9, <2>3, <3>3, <4>1, Bounds DEF end
    <3> QED BY <1>8, <2>1, <2>2, <3>1, <3>2, <3>3
  <2> QED BY <1>8, <2>1, <2>4 DEF Stretch, most
<1> QED BY <1>1, <1>3, <1>6, <1>7, <1>10, <1>11 DEF FetchInv

LEMMA NextFetch == ASSUME FetchInv, [DiscoveryNext]_discoveryVars PROVE FetchInv'
<1>1. CASE DiscoveryNext
  BY <1>1, FetchAllKeeps, CallFailsKeeps, CallAgainKeeps, NotAPageKeeps, PageReadKeeps, ShiftKeeps
     DEF DiscoveryNext, ClientMoves, CallTimesOut, CallErrors, Classes
<1>2. CASE UNCHANGED discoveryVars
  BY <1>2 DEF discoveryVars, FetchInv, DiscoveryTypeOK, PagesCoverListing, PagesRead, CallsCounted,
              Behind, Stretch, Parsed
<1> QED BY <1>1, <1>2

(* What is accepted is clear, whatever has been read.                       *)
LEMMA AcceptedClear == ASSUME DiscoveryTypeOK PROVE OnlyClearMarkets
<1> DEFINE T == {e \in Entries : IsAccepted(e)}
<1>1. Accepted \in Seq(T)
  BY KeptType DEF Accepted, DiscoveryTypeOK
<1> SUFFICES ASSUME NEW i \in DOMAIN Scanned
             PROVE  LET raw == RawOf[Scanned[i].id]
                    IN  /\ raw.names = {Scanned[i].asset} /\ Scanned[i].asset \in EnabledAssets
                        /\ {"yes", "no"} \subseteq raw.outcomes
                        /\ raw.threshold \/ raw.dollars # "none" => Scanned[i].strike
                        /\ raw.end - raw.start \in 270..330
  BY DEF OnlyClearMarkets
<1>2. i \in DOMAIN Accepted /\ Scanned[i] = MarketOf(Accepted[i])
  BY DEF Scanned
<1>3. Accepted[i] \in T
  <2>1. i \in 1..Len(Accepted)
    BY <1>1, <1>2, LenProperties
  <2> HIDE DEF T
  <2> QED BY <1>1, <2>1, ElementOfSeq
<1> DEFINE raw == RawOf[Accepted[i]]
<1>4. Accepted[i] \in Entries /\ IsAccepted(Accepted[i])
  BY <1>3
<1>5. raw \in RawMarkets
  BY <1>4, DiscoveryAssumption
<1>6. /\ Scanned[i].id = Accepted[i] /\ Scanned[i].asset = DetectAsset(raw)
      /\ Scanned[i].strike = (raw.dollars = "number")
  BY <1>2 DEF MarketOf
<1>7. /\ IsSupported(raw) /\ DetectAsset(raw) \in EnabledAssets /\ {"yes", "no"} \subseteq raw.outcomes
  BY <1>4 DEF IsAccepted
<1> HIDE DEF raw
<1>8. raw.names = {DetectAsset(raw)}
  <2>1. raw.names \subseteq Assets
    BY <1>5 DEF RawMarkets
  <2>2. ("BTC" \in raw.names) # ("ETH" \in raw.names)
    <3>1. DetectAsset(raw) # NoAsset
      BY <1>7 DEF IsSupported
    <3> QED BY <3>1 DEF DetectAsset
  <2>3. CASE "BTC" \in raw.names /\ "ETH" \notin raw.names
    <3>1. DetectAsset(raw) = "BTC"
      BY <2>3 DEF DetectAsset
    <3> QED BY <2>1, <2>3, <3>1 DEF Assets
  <2>4. CASE "BTC" \notin raw.names /\ "ETH" \in raw.names
    <3>1. DetectAsset(raw) = "ETH"
      BY <2>4 DEF DetectAsset
    <3> QED BY <2>1, <2>4, <3>1 DEF Assets
  <2> QED BY <2>2, <2>3, <2>4
<1>9. raw.threshold \/ raw.dollars # "none" => raw.dollars = "number"
  BY <1>7 DEF IsSupported, StrikeIsClear
<1>10. raw.end - raw.start \in 270..330
  <2>1. LastsFiveMinutes(raw) /\ raw.end \in Nat /\ raw.start \in Nat
    BY <1>5, <1>7 DEF IsSupported, RawMarkets
  <2> QED BY <2>1 DEF LastsFiveMinutes, Lasts, FIVE_MINUTES, DURATION_TOLERANCE
<1> QED BY <1>6, <1>7, <1>8, <1>9, <1>10 DEF raw

LEMMA FetchInvEnough == ASSUME FetchInv PROVE DiscoveryInv
<1>1. AsksAreBounded
  <2> DEFINE before == (page - 1) * ListAttempts
  <2>1. before \in Nat /\ page * ListAttempts = before + ListAttempts
    <3>1. page \in Nat \ {0}
      BY DEF FetchInv, DiscoveryTypeOK
    <3> QED BY <3>1, Bounds, NextMultiple
  <2>2. calls <= before + attemptNo
    BY DEF FetchInv, CallsCounted
  <2> HIDE DEF before
  <2>3. calls <= before + ListAttempts
    BY <2>1, <2>2, Bounds DEF FetchInv, DiscoveryTypeOK
  <2> QED BY <2>1, <2>3 DEF AsksAreBounded, FetchInv
<1>2. OnlyClearMarkets
  BY AcceptedClear DEF FetchInv
<1> QED BY <1>1, <1>2 DEF FetchInv, DiscoveryInv

(* The fetches of the scanner: a list that does not change is handed on     *)
(* whole and in order, at a bounded number of calls, and only its clear     *)
(* markets go into the scan.                                                *)
THEOREM DiscoveryInvHolds == DiscoverySpec => []DiscoveryInv
<1>1. DiscoveryInit => FetchInv
  BY InitFetch
<1>2. FetchInv /\ [DiscoveryNext]_discoveryVars => FetchInv'
  BY NextFetch
<1>3. FetchInv => DiscoveryInv
  BY FetchInvEnough
<1> QED BY <1>1, <1>2, <1>3, PTL DEF DiscoverySpec
=============================================================================
