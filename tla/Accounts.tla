------------------------------- MODULE Accounts -------------------------------
(***************************************************************************)
(* routes/auth.ts of the API, one action per await: sign-up, log-in behind *)
(* its rate limiter, and the two halves of a password reset.  Accounts are *)
(* rows with a unique user name, the e-mail address has no such index;     *)
(* attempts and reset tokens are in Redis.                                 *)
(*                                                                         *)
(* A user name is the lower-case one and stands for the account's id.  A   *)
(* password is known by the reset that set it, or Null for the first one;  *)
(* a token by the request that asked for it.  Bodies refused before the    *)
(* first await are left out.                                               *)
(***************************************************************************)
EXTENDS Naturals, FiniteSets

CONSTANTS
    Calls,          \* the requests of a behaviour
    Names,
    Emails,
    Accounts0,      \* <<name, email>> of the accounts there are at the start
    Limit,          \* LOGIN_ATTEMPT_LIMIT
    CallsMayFail,   \* calls to Redis and the database may reject
    Null

ASSUME AccountsAssumption ==
    /\ Accounts0 \in SUBSET (Names \X (Emails \cup {Null}))
    /\ \A a, b \in Accounts0 : a[2] = b[2] /\ a[2] # Null => a = b
    /\ Limit \in Nat \ {0}
    /\ CallsMayFail \in BOOLEAN
    /\ Null \notin Calls \cup Emails \cup Names

VARIABLES
    users,          \* the row of each user name: e-mail and password
    attempts,       \* Redis: the login counter of a name (and its one address)
    expires,        \* the counters whose EXPIRE has been set
    tokens,         \* Redis: the account of each reset token
    call, at,       \* what each request asks for, and its next await
    read,           \* what it has read: a count, an account, or Null
    allowed,        \* (history) attempts the limiter let through in a window
    stuck,          \* (history) counters whose EXPIRE was never sent
    raced,          \* (history) e-mails two sign-ups looked for at once
    doubleRead      \* (history) tokens two resets read before one deleted it

accountVars == <<users, attempts, expires, tokens, call, at, read,
                 allowed, stuck, raced, doubleRead>>

NoRow == [email |-> Null, password |-> Null, exists |-> FALSE]

SignUp == [kind : {"signup"}, name : Names, email : Emails \cup {Null}]
LogIn  == [kind : {"login"}, name : Names]
Ask    == [kind : {"ask"}, email : Emails]
Reset  == [kind : {"reset"}, token : Calls]

ASSUME NullAssumption == Null \notin SignUp \cup LogIn \cup Ask \cup Reset

AccountsTypeOK ==
    /\ users \in [Names -> [email : Emails \cup {Null}, password : Calls \cup {Null}, exists : BOOLEAN]]
    /\ attempts \in [Names -> Nat]
    /\ expires \subseteq Names
    /\ tokens \in [Calls -> Names \cup {Null}]
    /\ call \in [Calls -> SignUp \cup LogIn \cup Ask \cup Reset \cup {Null}]
    /\ at \in [Calls -> {"new", "name", "email", "insert", "incr", "expire", "check",
                         "look", "put", "send", "get", "del", "set", "ok", "refused"}]
    /\ read \in [Calls -> Nat \cup Names \cup {Null}]
    /\ allowed \in [Names -> Nat]
    /\ stuck \subseteq Names
    /\ raced \subseteq Emails
    /\ doubleRead \subseteq Calls

AccountsInit ==
    /\ users = [n \in Names |->
           IF \E e \in Emails \cup {Null} : <<n, e>> \in Accounts0
           THEN [email |-> CHOOSE e \in Emails \cup {Null} : <<n, e>> \in Accounts0,
                 password |-> Null, exists |-> TRUE]
           ELSE NoRow]
    /\ attempts = [n \in Names |-> 0]
    /\ expires = {}
    /\ tokens = [c \in Calls |-> Null]
    /\ call = [c \in Calls |-> Null]
    /\ at = [c \in Calls |-> "new"]
    /\ read = [c \in Calls |-> Null]
    /\ allowed = [n \in Names |-> 0]
    /\ stuck = {}
    /\ raced = {}
    /\ doubleRead = {}

Go(c, l) == at' = [at EXCEPT ![c] = l]

Receives(c, request, l) ==
    /\ at[c] = "new"
    /\ call' = [call EXCEPT ![c] = request]
    /\ Go(c, l)
    /\ UNCHANGED <<users, attempts, expires, tokens, read, allowed, stuck, raced, doubleRead>>

-----------------------------------------------------------------------------
(* POST /api/auth/signup.                                                   *)
SignUpCall(c, n, e) ==
    Receives(c, [kind |-> "signup", name |-> n, email |-> e], "name")

(* findByUsername, then findByEmail if there is an e-mail.                  *)
LookForName(c) ==
    /\ at[c] = "name"
    /\ Go(c, IF users[call[c].name].exists THEN "refused"
             ELSE IF call[c].email = Null THEN "insert" ELSE "email")
    /\ UNCHANGED <<users, attempts, expires, tokens, call, read, allowed, stuck, raced, doubleRead>>

OwnersOf(e) == {n \in Names : users[n].exists /\ users[n].email = e}

(* The sign-ups that found e free and have not inserted their row.          *)
About(e) == {d \in Calls : at[d] = "insert" /\ call[d].email = e}

(* wrong: what the look-up found is not refused.                            *)
EmailUnchecked(c) ==
    /\ at[c] = "email"
    /\ Go(c, "insert")
    /\ UNCHANGED <<users, attempts, expires, tokens, call, read, allowed, stuck, raced, doubleRead>>

LookForEmail(c) ==
    LET e == call[c].email
    IN  /\ at[c] = "email"
        /\ IF OwnersOf(e) # {}
           THEN Go(c, "refused") /\ UNCHANGED raced
           ELSE /\ Go(c, "insert")
                /\ raced' = IF About(e) # {} THEN raced \cup {e} ELSE raced
        /\ UNCHANGED <<users, attempts, expires, tokens, call, read, allowed, stuck, doubleRead>>

(* users.create, after the hash: the unique index throws for a taken name.  *)
InsertUser(c) ==
    LET n == call[c].name
    IN  /\ at[c] = "insert"
        /\ IF users[n].exists
           THEN UNCHANGED users /\ Go(c, "refused")
           ELSE /\ users' = [users EXCEPT ![n] =
                      [email |-> call[c].email, password |-> Null, exists |-> TRUE]]
                /\ Go(c, "ok")
        /\ UNCHANGED <<attempts, expires, tokens, call, read, allowed, stuck, raced, doubleRead>>

-----------------------------------------------------------------------------
(* POST /api/auth/login.                                                    *)
LogInCall(c, n) == Receives(c, [kind |-> "login", name |-> n], "incr")

(* checkRateLimit: the INCR.                                                *)
WithinLimit(k) == k <= Limit

LetIn(n, k) == allowed' = IF WithinLimit(k) THEN [allowed EXCEPT ![n] = @ + 1] ELSE allowed

CountAttempt(c) ==
    LET n == call[c].name
        k == attempts[n] + 1
    IN  /\ at[c] = "incr"
        /\ attempts' = [attempts EXCEPT ![n] = k]
        /\ read' = [read EXCEPT ![c] = k]
        /\ LetIn(n, k)
        /\ Go(c, IF k = 1 THEN "expire" ELSE IF WithinLimit(k) THEN "check" ELSE "refused")
        /\ UNCHANGED <<users, expires, tokens, call, stuck, raced, doubleRead>>

(* wrong: an expiry only for a name that has an account.                    *)
ExpiryIfKnown(c) ==
    /\ at[c] = "expire"
    /\ expires' = IF users[call[c].name].exists THEN expires \cup {call[c].name} ELSE expires
    /\ Go(c, IF WithinLimit(read[c]) THEN "check" ELSE "refused")
    /\ UNCHANGED <<users, attempts, tokens, call, read, allowed, stuck, raced, doubleRead>>

(* The EXPIRE of the first attempt.                                         *)
SetExpiry(c) ==
    /\ at[c] = "expire"
    /\ expires' = expires \cup {call[c].name}
    /\ Go(c, IF WithinLimit(read[c]) THEN "check" ELSE "refused")
    /\ UNCHANGED <<users, attempts, tokens, call, read, allowed, stuck, raced, doubleRead>>

(* findByUsername and verifyPassword: the client may know the password.     *)
CheckPassword(c) ==
    /\ at[c] = "check"
    /\ \E l \in {"ok", "refused"} :
        /\ l = "ok" => users[call[c].name].exists
        /\ Go(c, l)
    /\ UNCHANGED <<users, attempts, expires, tokens, call, read, allowed, stuck, raced, doubleRead>>

(* The window ends: Redis drops the counter.                                *)
WindowEnds(n) ==
    /\ n \in expires
    /\ attempts' = [attempts EXCEPT ![n] = 0]
    /\ expires' = expires \ {n}
    /\ allowed' = [allowed EXCEPT ![n] = 0]
    /\ UNCHANGED <<users, tokens, call, at, read, stuck, raced, doubleRead>>

-----------------------------------------------------------------------------
(* POST /api/auth/request-password-reset: one answer, found or not.         *)
AskCall(c, e) == Receives(c, [kind |-> "ask", email |-> e], "look")

(* findByEmail takes any one row that has the address.                      *)
FindAccount(c) ==
    LET owners == OwnersOf(call[c].email)
    IN  /\ at[c] = "look"
        /\ IF owners = {}
           THEN Go(c, "ok") /\ UNCHANGED read
           ELSE /\ \E n \in owners : read' = [read EXCEPT ![c] = n]
                /\ Go(c, "put")
        /\ UNCHANGED <<users, attempts, expires, tokens, call, allowed, stuck, raced, doubleRead>>

PutToken(c) ==
    /\ at[c] = "put"
    /\ tokens' = [tokens EXCEPT ![c] = read[c]]
    /\ Go(c, "send")
    /\ UNCHANGED <<users, attempts, expires, call, read, allowed, stuck, raced, doubleRead>>

(* emailSender.send.                                                        *)
SendMail(c) ==
    /\ at[c] = "send"
    /\ Go(c, "ok")
    /\ UNCHANGED <<users, attempts, expires, tokens, call, read, allowed, stuck, raced, doubleRead>>

(* The hour of a token is over.                                             *)
TokenExpires(t) ==
    /\ tokens[t] # Null
    /\ tokens' = [tokens EXCEPT ![t] = Null]
    /\ UNCHANGED <<users, attempts, expires, call, at, read, allowed, stuck, raced, doubleRead>>

(* POST /api/auth/reset-password, with a token from a mail that was sent.   *)
ResetCall(c, t) ==
    /\ call[t] # Null /\ call[t].kind = "ask" /\ read[t] # Null /\ at[t] = "ok"
    /\ Receives(c, [kind |-> "reset", token |-> t], "get")

ReadToken(c) ==
    LET t == call[c].token
    IN  /\ at[c] = "get"
        /\ read' = [read EXCEPT ![c] = tokens[t]]
        /\ doubleRead' = IF \E d \in Calls : at[d] = "del" /\ call[d].token = t /\ read[d] # Null
                         THEN doubleRead \cup {t} ELSE doubleRead
        /\ Go(c, "del")
        /\ UNCHANGED <<users, attempts, expires, tokens, call, allowed, stuck, raced>>

(* wrong: the token is left to its expiry.                                  *)
KeepToken(c) ==
    /\ at[c] = "del"
    /\ Go(c, IF read[c] = Null THEN "refused" ELSE "set")
    /\ UNCHANGED <<users, attempts, expires, tokens, call, read, allowed, stuck, raced, doubleRead>>

DeleteToken(c) ==
    /\ at[c] = "del"
    /\ tokens' = [tokens EXCEPT ![call[c].token] = Null]
    /\ Go(c, IF read[c] = Null THEN "refused" ELSE "set")
    /\ UNCHANGED <<users, attempts, expires, call, read, allowed, stuck, raced, doubleRead>>

(* setPasswordHash, after the hash.                                         *)
SetPassword(c) ==
    /\ at[c] = "set"
    /\ users' = [users EXCEPT ![read[c]].password = c]
    /\ Go(c, "ok")
    /\ UNCHANGED <<attempts, expires, tokens, call, read, allowed, stuck, raced, doubleRead>>

-----------------------------------------------------------------------------
(* An await rejects, or the process ends: nothing after it happens.         *)
CallFails(c) ==
    /\ CallsMayFail
    /\ at[c] \notin {"new", "ok", "refused"}
    /\ stuck' = IF at[c] = "expire" THEN stuck \cup {call[c].name} ELSE stuck
    /\ Go(c, "refused")
    /\ UNCHANGED <<users, attempts, expires, tokens, call, read, allowed, raced, doubleRead>>

Serves(c) ==
    \/ LookForName(c) \/ LookForEmail(c) \/ InsertUser(c)
    \/ CountAttempt(c) \/ SetExpiry(c) \/ CheckPassword(c)
    \/ FindAccount(c) \/ PutToken(c) \/ SendMail(c)
    \/ ReadToken(c) \/ DeleteToken(c) \/ SetPassword(c)

AccountsNext ==
    \/ \E c \in Calls :
        \/ \E n \in Names : \/ LogInCall(c, n)
                            \/ \E e \in Emails \cup {Null} : SignUpCall(c, n, e)
        \/ \E e \in Emails : AskCall(c, e)
        \/ \E t \in Calls : ResetCall(c, t)
        \/ Serves(c)
        \/ CallFails(c)
    \/ \E n \in Names : WindowEnds(n)
    \/ \E t \in Calls : TokenExpires(t)

AccountsSpec == AccountsInit /\ [][AccountsNext]_accountVars

-----------------------------------------------------------------------------
(* An e-mail address belongs to one account, which is what a reset mail is  *)
(* sent by, unless two sign-ups found it free before either inserted: the   *)
(* route's look-up is all that keeps it, the table has no index for it.     *)
EmailUnique == \A e \in Emails \ raced : Cardinality(OwnersOf(e)) <= 1

(* In one window a name gets at most Limit attempts, however many requests  *)
(* count at once and whichever of them still has to set the expiry.         *)
AttemptsBounded == \A n \in Names : allowed[n] <= Limit

(* A counter that refuses will be dropped by Redis: its expiry is set, or   *)
(* the request that counted first is about to set it, or that request failed*)
(* right there, and then the name is locked out for good.                   *)
LockoutEnds ==
    \A n \in Names : attempts[n] > 0 =>
        \/ n \in expires \cup stuck
        \/ \E c \in Calls : at[c] = "expire" /\ call[c].name = n

(* "A token can never be replayed", as far as it is true: it sets one       *)
(* password, unless two requests had read it before either deleted it.      *)
Resetting(c) == call[c] # Null /\ call[c].kind = "reset" /\ at[c] \in {"set", "ok"}

TokenUsedOnce ==
    \A c, d \in Calls :
        /\ c # d /\ Resetting(c) /\ Resetting(d)
        /\ call[c].token = call[d].token
        => call[c].token \in doubleRead

(* A password is only ever replaced through a mail to its own account: the  *)
(* look-up, the token and the reset, in whatever order they overlap with    *)
(* sign-ups and other resets, end at the account with that address.         *)
ResetReachesOwner ==
    \A n \in Names : users[n].password # Null =>
        call[call[users[n].password].token].email = users[n].email

(* Attempts, tokens and passwords under any interleaving of the routes, of  *)
(* failures and of what expires: no attempt too many, no token replayed, no *)
(* password of a stranger.                                                  *)
AccountsInv == AccountsTypeOK /\ AttemptsBounded /\ TokenUsedOnce /\ ResetReachesOwner
=============================================================================
