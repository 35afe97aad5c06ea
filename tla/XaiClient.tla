------------------------------ MODULE XaiClient --------------------------------
(***************************************************************************)
(* XaiClient.chat of packages/xai: one chat completion, tried again after a *)
(* transient failure.  The timeout is over once the headers have come; the *)
(* body is read without one.                                               *)
(*                                                                         *)
(* A completion is what its reader tells apart: how many tools it calls, or*)
(* what its final content parses to.  Back-off delays are left out.        *)
(***************************************************************************)
EXTENDS Naturals, FiniteSets, Sequences

CONSTANTS
    Requests,
    MaxAttempts,    \* config.maxAttempts
    MaxTools,       \* bound on the tool calls of one completion
    None

Transient == {"timeout", "network", "rate_limit", "server"}
Fatal     == {"auth", "request", "malformed"}
Finals    == {"BUY_YES", "BUY_NO", "PASS", "invalid"}   \* the content of a last turn

ToolTurn  == [tools : 1..MaxTools]
Finish    == [final : Finals]
Failure   == [error : Transient \cup Fatal]

ASSUME XaiAssumption ==
    /\ MaxAttempts \in Nat \ {0}
    /\ MaxTools \in Nat
    /\ None \notin Requests \cup ToolTurn \cup Finish \cup Failure

VARIABLES
    chat,           \* "none", "fetch", "body", "error_body", "backoff", "done"
    attempt,        \* of the chat that runs
    result,         \* what chat() has returned or thrown, or None
    fetches,        \* (history) requests sent to xAI
    fatal           \* (history) requests that met a failure not to be retried

chatVars == <<chat, attempt, result, fetches, fatal>>

XaiTypeOK ==
    /\ chat \in [Requests -> {"none", "fetch", "body", "error_body", "backoff", "done"}]
    /\ attempt \in [Requests -> 0..MaxAttempts]
    /\ result \in [Requests -> ToolTurn \cup Finish \cup Failure \cup {None}]
    /\ fetches \in [Requests -> Nat]
    /\ fatal \subseteq Requests

XaiInit ==
    /\ chat = [r \in Requests |-> "none"]
    /\ attempt = [r \in Requests |-> 0]
    /\ result = [r \in Requests |-> None]
    /\ fetches = [r \in Requests |-> 0]
    /\ fatal = {}

-----------------------------------------------------------------------------
(* doChat: the request is built from the messages so far, and sent.         *)
Fetch(r) ==
    /\ chat' = [chat EXCEPT ![r] = "fetch"]
    /\ fetches' = [fetches EXCEPT ![r] = @ + 1]

(* chat(): the first attempt.                                               *)
StartChat(r) ==
    /\ Fetch(r)
    /\ attempt' = [attempt EXCEPT ![r] = 1]
    /\ result' = [result EXCEPT ![r] = None]
    /\ UNCHANGED fatal

(* withRetry: an error is thrown to the caller if it is not retryable or the *)
(* attempts are used up.                                                    *)
Retryable(e) == e \in Transient

LastTry(r) == attempt[r] = MaxAttempts

Fails(r, e) ==
    /\ fatal' = IF e \in Fatal THEN fatal \cup {r} ELSE fatal
    /\ IF Retryable(e) /\ ~LastTry(r)
       THEN chat' = [chat EXCEPT ![r] = "backoff"] /\ UNCHANGED result
       ELSE chat' = [chat EXCEPT ![r] = "done"] /\ result' = [result EXCEPT ![r] = [error |-> e]]
    /\ UNCHANGED <<attempt, fetches>>

Retry(r) ==
    /\ chat[r] = "backoff"
    /\ Fetch(r)
    /\ attempt' = [attempt EXCEPT ![r] = @ + 1]
    /\ UNCHANGED <<result, fatal>>

(* fetch: no headers in time, no connection, or headers of either kind.     *)
NoTimer(r) ==           \* wrong: a first attempt is not aborted
    chat[r] = "fetch" /\ attempt[r] > 1 /\ Fails(r, "timeout")

TimesOut(r) ==
    chat[r] = "fetch" /\ Fails(r, "timeout")

NoConnection(r) ==
    chat[r] = "fetch" /\ Fails(r, "network")

Headers(r) ==
    /\ chat[r] = "fetch"
    /\ \E next \in {"body", "error_body"} : chat' = [chat EXCEPT ![r] = next]
    /\ UNCHANGED <<attempt, result, fetches, fatal>>

(* classifyErrorResponse: its body is read too, for the message; whatever it *)
(* is, the status decides.                                                  *)
ErrorBody(r) ==
    chat[r] = "error_body" /\ \E e \in {"auth", "rate_limit", "server", "request"} : Fails(r, e)

(* The body: a completion, or not JSON, or JSON of another shape.           *)
Completes(r, completion) ==
    /\ chat[r] = "body"
    /\ chat' = [chat EXCEPT ![r] = "done"]
    /\ result' = [result EXCEPT ![r] = completion]
    /\ UNCHANGED <<attempt, fetches, fatal>>

Body(r) ==
    \/ \E completion \in ToolTurn \cup Finish : Completes(r, completion)
    \/ chat[r] = "body" /\ Fails(r, "malformed")

(* What XaiClient does by its timers, and what the network does.            *)
ClientStep(r)  == Retry(r) \/ TimesOut(r)
BodyStep(r)    == ErrorBody(r) \/ Body(r)
NetworkStep(r) == NoConnection(r) \/ Headers(r) \/ BodyStep(r)
=============================================================================
