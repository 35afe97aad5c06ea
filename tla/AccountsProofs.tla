---------------------------- MODULE AccountsProofs ----------------------------
(***************************************************************************)
(* Proofs about Accounts, WalletLink and Broadcast, for any number of      *)
(* requests, accounts, addresses, tokens, nonces, orders and sockets: every*)
(* property their run checks.                                              *)
(***************************************************************************)
EXTENDS Accounts, WalletLink, Broadcast, FiniteSetTheorems, TLAPS

USE AccountsAssumption

(* What a request was sent as, and what it has read, at each of its awaits. *)
CallFits(c) ==
    /\ at[c] = "new" => call[c] = Null
    /\ at[c] \in {"name", "email", "insert"} => call[c] \in SignUp
    /\ at[c] = "email" => call[c].email # Null
    /\ at[c] \in {"incr", "expire", "check"} => call[c] \in LogIn
    /\ at[c] = "expire" => read[c] \in Nat
    /\ at[c] \in {"look", "put", "send"} => call[c] \in Ask
    /\ at[c] \in {"get", "del", "set"} => call[c] \in Reset
    /\ at[c] = "del" => read[c] \in Names \cup {Null}
    /\ at[c] \in {"put", "set"} => read[c] \in Names

TypeInv == AccountsTypeOK /\ \A c \in Calls : CallFits(c)

LEMMA InitTypeInv == ASSUME AccountsInit PROVE TypeInv
<1>1. users \in [Names -> [email : Emails \cup {Null}, password : Calls \cup {Null}, exists : BOOLEAN]]
  <2> SUFFICES ASSUME NEW n \in Names
               PROVE  users[n] \in [email : Emails \cup {Null}, password : Calls \cup {Null},
                                    exists : BOOLEAN]
    BY DEF AccountsInit
  <2>1. CASE \E e \in Emails \cup {Null} : <<n, e>> \in Accounts0
    <3>1. (CHOOSE e \in Emails \cup {Null} : <<n, e>> \in Accounts0) \in Emails \cup {Null}
      BY <2>1
    <3> QED BY <2>1, <3>1 DEF AccountsInit
  <2>2. CASE ~\E e \in Emails \cup {Null} : <<n, e>> \in Accounts0
    BY <2>2 DEF AccountsInit, NoRow
  <2> QED BY <2>1, <2>2
<1> QED BY <1>1 DEF AccountsInit, TypeInv, AccountsTypeOK, CallFits

(* A request is sent.                                                       *)
Sent(c) ==
    \/ \E n \in Names : LogInCall(c, n) \/ \E e \in Emails \cup {Null} : SignUpCall(c, n, e)
    \/ \E e \in Emails : AskCall(c, e)
    \/ \E t \in Calls : ResetCall(c, t)

LEMMA SentTypeInv ==
    ASSUME TypeInv, NEW c \in Calls, Sent(c)
    PROVE  TypeInv'
<1>1. PICK q \in SignUp \cup LogIn \cup Ask \cup Reset, l \in {"name", "incr", "look", "get"} :
          /\ Receives(c, q, l)
          /\ l = "name" => q \in SignUp
          /\ l = "incr" => q \in LogIn
          /\ l = "look" => q \in Ask
          /\ l = "get" => q \in Reset
  <2>1. ASSUME NEW n \in Names PROVE [kind |-> "login", name |-> n] \in LogIn
    BY DEF LogIn
  <2>2. ASSUME NEW n \in Names, NEW e \in Emails \cup {Null}
        PROVE  [kind |-> "signup", name |-> n, email |-> e] \in SignUp
    BY DEF SignUp
  <2>3. ASSUME NEW e \in Emails PROVE [kind |-> "ask", email |-> e] \in Ask
    BY DEF Ask
  <2>4. ASSUME NEW t \in Calls PROVE [kind |-> "reset", token |-> t] \in Reset
    BY DEF Reset
  <2> QED BY <2>1, <2>2, <2>3, <2>4 DEF Sent, LogInCall, SignUpCall, AskCall, ResetCall
<1> QED BY <1>1 DEF Receives, Go, TypeInv, AccountsTypeOK, CallFits

LEMMA ServedTypeInv ==
    ASSUME TypeInv, NEW c \in Calls, Serves(c) \/ CallFails(c)
    PROVE  TypeInv'
<1> USE DEF TypeInv, AccountsTypeOK, CallFits, Go
<1>1. CASE LookForName(c)
  BY <1>1 DEF LookForName
<1>2. CASE LookForEmail(c)
  <2>1. call[c].email \in Emails
    BY <1>2 DEF LookForEmail, SignUp
  <2> QED BY <1>2, <2>1 DEF LookForEmail
<1>3. CASE InsertUser(c)
  <2>1. /\ call[c].name \in Names
        /\ [email |-> call[c].email, password |-> Null, exists |-> TRUE]
              \in [email : Emails \cup {Null}, password : Calls \cup {Null}, exists : BOOLEAN]
    BY <1>3 DEF InsertUser, SignUp
  <2>2. users' \in [Names -> [email : Emails \cup {Null}, password : Calls \cup {Null},
                             exists : BOOLEAN]]
    <3>1. PICK row \in [email : Emails \cup {Null}, password : Calls \cup {Null}, exists : BOOLEAN] :
              users' = users \/ users' = [users EXCEPT ![call[c].name] = row]
      BY <1>3, <2>1 DEF InsertUser
    <3>2. users \in [Names -> [email : Emails \cup {Null}, password : Calls \cup {Null},
                               exists : BOOLEAN]]
      BY DEF TypeInv
    <3> HIDE DEF TypeInv, AccountsTypeOK, CallFits
    <3> QED BY <3>1, <3>2
  <2>3. \E l \in {"refused", "ok"} : at' = [at EXCEPT ![c] = l]
    BY <1>3 DEF InsertUser
  <2> QED BY <1>3, <2>2, <2>3 DEF InsertUser
<1>4. CASE CountAttempt(c)
  <2>1. call[c].name \in Names /\ attempts[call[c].name] + 1 \in Nat
    BY <1>4 DEF CountAttempt, LogIn
  <2>2. allowed' \in [Names -> Nat]
    BY <1>4, <2>1 DEF CountAttempt, LetIn
  <2> QED BY <1>4, <2>1, <2>2 DEF CountAttempt
<1>5. CASE SetExpiry(c)
  BY <1>5 DEF SetExpiry, LogIn
<1>6. CASE CheckPassword(c)
  BY <1>6 DEF CheckPassword
<1>7. CASE FindAccount(c)
  BY <1>7 DEF FindAccount, OwnersOf
<1>8. CASE PutToken(c)
  BY <1>8 DEF PutToken
<1>9. CASE SendMail(c)
  BY <1>9 DEF SendMail
<1>10. CASE ReadToken(c)
  BY <1>10 DEF ReadToken, Reset
<1>11. CASE DeleteToken(c)
  BY <1>11 DEF DeleteToken
<1>12. CASE SetPassword(c)
  <2>1. /\ read[c] \in Names
        /\ users' = [users EXCEPT ![read[c]] = [users[read[c]] EXCEPT !.password = c]]
    BY <1>12 DEF SetPassword
  <2>2. [users[read[c]] EXCEPT !.password = c]
            \in [email : Emails \cup {Null}, password : Calls \cup {Null}, exists : BOOLEAN]
    BY <2>1
  <2> QED BY <1>12, <2>1, <2>2 DEF SetPassword
<1>13. CASE CallFails(c)
  BY <1>13 DEF CallFails, LogIn
<1> QED
  BY <1>1, <1>2, <1>3, <1>4, <1>5, <1>6, <1>7, <1>8, <1>9, <1>10, <1>11, <1>12, <1>13
  DEF Serves

(* A window or a token runs out.                                            *)
RunsOut == (\E n \in Names : WindowEnds(n)) \/ (\E t \in Calls : TokenExpires(t))

LEMMA NextSplits ==
    ASSUME AccountsNext
    PROVE  RunsOut \/ \E c \in Calls : Sent(c) \/ Serves(c) \/ CallFails(c)
BY DEF AccountsNext, RunsOut, Sent

LEMMA NextTypeInv == ASSUME TypeInv, [AccountsNext]_accountVars PROVE TypeInv'
<1>1. CASE UNCHANGED accountVars
  BY <1>1 DEF accountVars, TypeInv, AccountsTypeOK, CallFits
<1>2. ASSUME NEW n \in Names, WindowEnds(n) PROVE TypeInv'
  <2>1. \A c \in Calls : CallFits(c)'
    BY <1>2 DEF WindowEnds, TypeInv, CallFits
  <2> QED BY <1>2, <2>1 DEF WindowEnds, TypeInv, AccountsTypeOK
<1>3. ASSUME NEW t \in Calls, TokenExpires(t) PROVE TypeInv'
  <2>1. \A c \in Calls : CallFits(c)'
    BY <1>3 DEF TokenExpires, TypeInv, CallFits
  <2> QED BY <1>3, <2>1 DEF TokenExpires, TypeInv, AccountsTypeOK
<1>4. CASE \E c \in Calls : Sent(c) \/ Serves(c) \/ CallFails(c)
  BY <1>4, SentTypeInv, ServedTypeInv
<1> QED BY <1>1, <1>2, <1>3, <1>4, NextSplits DEF RunsOut

(* AccountsTypeOK.                                                          *)
THEOREM AccountsTypeCorrect == AccountsSpec => []AccountsTypeOK
<1>1. AccountsInit => TypeInv
  BY InitTypeInv
<1>2. TypeInv /\ [AccountsNext]_accountVars => TypeInv'
  BY NextTypeInv
<1>3. TypeInv => AccountsTypeOK
  BY DEF TypeInv
<1> QED BY <1>1, <1>2, <1>3, PTL DEF AccountsSpec

(* A step of one request leaves the others where they are, and its own call *)
(* as it was sent.                                                          *)
LEMMA StepOfOne ==
    ASSUME TypeInv, NEW c \in Calls, Sent(c) \/ Serves(c) \/ CallFails(c)
    PROVE  /\ \A d \in Calls : d # c => UNCHANGED <<at[d], call[d], read[d]>>
           /\ at[c] # "new" => UNCHANGED call
<1>1. \E l : at' = [at EXCEPT ![c] = l]
  BY Zenon DEF Sent, Serves, CallFails, LogInCall, SignUpCall, AskCall, ResetCall, Receives,
       LookForName, LookForEmail, InsertUser, CountAttempt, SetExpiry, CheckPassword,
       FindAccount, PutToken, SendMail, ReadToken, DeleteToken, SetPassword, Go
<1>2. \E q : call' = [call EXCEPT ![c] = q]
  BY DEF Sent, Serves, CallFails, LogInCall, SignUpCall, AskCall, ResetCall, Receives,
       LookForName, LookForEmail, InsertUser, CountAttempt, SetExpiry, CheckPassword,
       FindAccount, PutToken, SendMail, ReadToken, DeleteToken, SetPassword,
       TypeInv, AccountsTypeOK
<1>3. \E q : read' = [read EXCEPT ![c] = q]
  BY DEF Sent, Serves, CallFails, LogInCall, SignUpCall, AskCall, ResetCall, Receives,
       LookForName, LookForEmail, InsertUser, CountAttempt, SetExpiry, CheckPassword,
       FindAccount, PutToken, SendMail, ReadToken, DeleteToken, SetPassword,
       TypeInv, AccountsTypeOK
<1>4. at[c] # "new" => UNCHANGED call
  BY DEF Sent, Serves, CallFails, LogInCall, SignUpCall, AskCall, ResetCall, Receives,
       LookForName, LookForEmail, InsertUser, CountAttempt, SetExpiry, CheckPassword,
       FindAccount, PutToken, SendMail, ReadToken, DeleteToken, SetPassword
<1> QED BY <1>1, <1>2, <1>3, <1>4 DEF TypeInv, AccountsTypeOK

-----------------------------------------------------------------------------
(***************************************************************************)
(* Attempts.                                                               *)
(***************************************************************************)
(* What the limiter let through it has counted.                             *)
Counted(n) == allowed[n] <= attempts[n] /\ allowed[n] <= Limit

(* A counter that is not empty will be dropped.                             *)
WillEnd(n) ==
    attempts[n] > 0 =>
        \/ n \in expires \cup stuck
        \/ \E c \in Calls : at[c] = "expire" /\ call[c].name = n

AttemptInv == \A n \in Names : Counted(n) /\ WillEnd(n)

LEMMA InitAttemptInv == ASSUME AccountsInit PROVE AttemptInv
BY DEF AccountsInit, AttemptInv, Counted, WillEnd

(* Where neither a counter nor its expiry changes.                          *)
LEMMA KeepsAttempts ==
    ASSUME TypeInv, AttemptInv, UNCHANGED <<attempts, expires, allowed, stuck>>,
           \A c \in Calls : at[c] = "expire" => UNCHANGED <<at[c], call[c]>>
    PROVE  AttemptInv'
<1> SUFFICES ASSUME NEW n \in Names
             PROVE  Counted(n)' /\ WillEnd(n)'
  BY DEF AttemptInv
<1>1. Counted(n)'
  BY DEF AttemptInv, Counted
<1>2. WillEnd(n)'
  BY DEF AttemptInv, WillEnd
<1> QED BY <1>1, <1>2

LEMMA CountAttemptInv ==
    ASSUME TypeInv, AttemptInv, NEW c \in Calls, CountAttempt(c)
    PROVE  AttemptInv'
<1> DEFINE m == call[c].name
<1>1. m \in Names /\ attempts[m] \in Nat /\ allowed[m] \in Nat /\ Limit \in Nat
  BY DEF CountAttempt, TypeInv, AccountsTypeOK, CallFits, LogIn
<1>2. /\ attempts' = [attempts EXCEPT ![m] = attempts[m] + 1]
      /\ allowed' = IF attempts[m] + 1 <= Limit THEN [allowed EXCEPT ![m] = @ + 1] ELSE allowed
      /\ attempts[m] = 0 => at'[c] = "expire"
      /\ UNCHANGED <<expires, stuck, call>>
  BY <1>1 DEF CountAttempt, LetIn, WithinLimit, Go, TypeInv, AccountsTypeOK
<1>3. at[c] = "incr" /\ \A d \in Calls : d # c => UNCHANGED at[d]
  BY DEF CountAttempt, Go, TypeInv, AccountsTypeOK
<1> SUFFICES ASSUME NEW n \in Names
             PROVE  Counted(n)' /\ WillEnd(n)'
  BY DEF AttemptInv
<1>4. Counted(n) /\ WillEnd(n)
  BY DEF AttemptInv
<1>5. Counted(n)'
  BY <1>1, <1>2, <1>4 DEF Counted, TypeInv, AccountsTypeOK
<1>6. WillEnd(n)'
  <2>1. CASE n = m /\ attempts[m] = 0
    BY <1>2, <2>1 DEF WillEnd
  <2>2. CASE n # m \/ attempts[m] # 0
    <3>1. attempts'[n] > 0 => attempts[n] > 0
      BY <1>1, <1>2, <2>2 DEF TypeInv, AccountsTypeOK
    <3> QED BY <1>2, <1>3, <1>4, <3>1 DEF WillEnd
  <2> QED BY <2>1, <2>2
<1> QED BY <1>5, <1>6

LEMMA ExpiryAttemptInv ==
    ASSUME TypeInv, AttemptInv, NEW c \in Calls, SetExpiry(c) \/ CallFails(c)
    PROVE  AttemptInv'
<1>1. /\ UNCHANGED <<attempts, allowed, call>>
      /\ expires \subseteq expires' /\ stuck \subseteq stuck'
      /\ at[c] = "expire" => call[c].name \in expires' \cup stuck'
      /\ \A d \in Calls : d # c => UNCHANGED at[d]
  BY DEF SetExpiry, CallFails, Go, TypeInv, AccountsTypeOK
<1> SUFFICES ASSUME NEW n \in Names
             PROVE  Counted(n)' /\ WillEnd(n)'
  BY DEF AttemptInv
<1>2. Counted(n)'
  BY <1>1 DEF AttemptInv, Counted
<1>3. WillEnd(n)'
  BY <1>1 DEF AttemptInv, WillEnd
<1> QED BY <1>2, <1>3

LEMMA NextAttemptInv == ASSUME TypeInv, AttemptInv, [AccountsNext]_accountVars PROVE AttemptInv'
<1>1. CASE UNCHANGED accountVars
  BY <1>1, KeepsAttempts DEF accountVars
<1>2. ASSUME NEW m \in Names, WindowEnds(m)
      PROVE  AttemptInv'
  <2> SUFFICES ASSUME NEW n \in Names
               PROVE  Counted(n)' /\ WillEnd(n)'
    BY DEF AttemptInv
  <2>1. Counted(n)'
    BY <1>2 DEF WindowEnds, AttemptInv, Counted, TypeInv, AccountsTypeOK
  <2>2. WillEnd(n)'
    BY <1>2 DEF WindowEnds, AttemptInv, WillEnd, TypeInv, AccountsTypeOK
  <2> QED BY <2>1, <2>2
<1>3. ASSUME NEW t \in Calls, TokenExpires(t)
      PROVE  AttemptInv'
  BY <1>3, KeepsAttempts DEF TokenExpires
<1>4. ASSUME NEW c \in Calls, Sent(c) \/ Serves(c) \/ CallFails(c)
      PROVE  AttemptInv'
  <2>1. CASE CountAttempt(c) \/ SetExpiry(c) \/ CallFails(c)
    BY <2>1, CountAttemptInv, ExpiryAttemptInv
  <2>2. CASE \/ Sent(c) \/ LookForName(c) \/ LookForEmail(c) \/ InsertUser(c) \/ CheckPassword(c)
             \/ FindAccount(c) \/ PutToken(c) \/ SendMail(c) \/ ReadToken(c) \/ DeleteToken(c)
             \/ SetPassword(c)
    <3>1. at[c] # "expire" /\ UNCHANGED <<attempts, expires, allowed, stuck>>
      BY <2>2 DEF Sent, LogInCall, SignUpCall, AskCall, ResetCall, Receives, LookForName,
         LookForEmail, InsertUser, CheckPassword, FindAccount, PutToken, SendMail, ReadToken,
         DeleteToken, SetPassword
    <3> QED BY <1>4, <3>1, StepOfOne, KeepsAttempts
  <2> QED BY <1>4, <2>1, <2>2 DEF Serves
<1> QED BY <1>1, <1>2, <1>3, <1>4, NextSplits DEF RunsOut

(* AttemptsBounded: whatever order the counts and expiries come in.         *)
THEOREM AttemptsBoundedHolds == AccountsSpec => []AttemptsBounded
<1>1. AccountsInit => TypeInv /\ AttemptInv
  BY InitTypeInv, InitAttemptInv
<1>2. TypeInv /\ AttemptInv /\ [AccountsNext]_accountVars => (TypeInv /\ AttemptInv)'
  BY NextTypeInv, NextAttemptInv
<1>3. AttemptInv => AttemptsBounded
  BY DEF AttemptInv, Counted, AttemptsBounded
<1> QED BY <1>1, <1>2, <1>3, PTL DEF AccountsSpec

(* LockoutEnds: but for a crash between INCR and EXPIRE.                    *)
THEOREM LockoutEndsHolds == AccountsSpec => []LockoutEnds
<1>1. AccountsInit => TypeInv /\ AttemptInv
  BY InitTypeInv, InitAttemptInv
<1>2. TypeInv /\ AttemptInv /\ [AccountsNext]_accountVars => (TypeInv /\ AttemptInv)'
  BY NextTypeInv, NextAttemptInv
<1>3. AttemptInv => LockoutEnds
  BY DEF AttemptInv, WillEnd, LockoutEnds
<1> QED BY <1>1, <1>2, <1>3, PTL DEF AccountsSpec

-----------------------------------------------------------------------------
(***************************************************************************)
(* Tokens.                                                                 *)
(***************************************************************************)
IsAsk(t)   == call[t] # Null /\ call[t].kind = "ask"
IsReset(c) == call[c] # Null /\ call[c].kind = "reset"

(* A reset comes with the token of a request that has been answered.        *)
TokenIsMailed(c) ==
    IsReset(c) => LET t == call[c].token IN t \in Calls /\ at[t] = "ok" /\ IsAsk(t)

(* A reset that goes through has deleted its token, for good.               *)
TokenIsGone(c) == Resetting(c) => tokens[call[c].token] = Null

(* The resets that read a token.                                            *)
HadToken(c) == IsReset(c) /\ ((at[c] = "del" /\ read[c] # Null) \/ at[c] \in {"set", "ok"})

SharedIsDouble(c, d) ==
    c # d /\ HadToken(c) /\ HadToken(d) /\ call[c].token = call[d].token
        => call[c].token \in doubleRead

TokenInv ==
    /\ \A c \in Calls : TokenIsMailed(c) /\ TokenIsGone(c)
    /\ \A c, d \in Calls : SharedIsDouble(c, d)

LEMMA InitTokenInv == ASSUME AccountsInit PROVE TokenInv
BY DEF AccountsInit, TokenInv, TokenIsMailed, TokenIsGone, SharedIsDouble, IsReset, HadToken,
       Resetting

LEMMA Kinds ==
    ASSUME TypeInv, NEW c \in Calls
    PROVE  /\ at[c] \in {"get", "del", "set"} => IsReset(c)
           /\ at[c] \in {"look", "put", "send"} => IsAsk(c)
           /\ at[c] \in {"name", "email", "insert", "incr", "expire", "check"}
                  => ~IsReset(c) /\ ~IsAsk(c)
           /\ IsReset(c) => call[c] \in Reset
           /\ IsAsk(c) => call[c] \in Ask
BY NullAssumption DEF TypeInv, AccountsTypeOK, CallFits, IsReset, IsAsk, SignUp, LogIn, Ask, Reset

(* A request that is sent: its token, if it has one, is that of a mail.     *)
LEMMA SentTokenInv ==
    ASSUME TypeInv, TokenInv, NEW c \in Calls, Sent(c)
    PROVE  TokenInv'
<1>1. /\ at[c] = "new" /\ at'[c] \in {"name", "incr", "look", "get"}
      /\ UNCHANGED <<tokens, read, doubleRead>>
      /\ \A d \in Calls : d # c => UNCHANGED <<at[d], call[d]>>
  BY DEF Sent, LogInCall, SignUpCall, AskCall, ResetCall, Receives, Go, TypeInv, AccountsTypeOK
<1>2. TokenIsMailed(c)'
  <2>1. CASE \E t \in Calls : ResetCall(c, t)
    <3>1. PICK t \in Calls : ResetCall(c, t)
      BY <2>1
    <3>2. t # c /\ at[t] = "ok" /\ IsAsk(t) /\ call'[c] = [kind |-> "reset", token |-> t]
      BY <1>1, <3>1 DEF ResetCall, Receives, IsAsk, TypeInv, AccountsTypeOK
    <3> QED BY <1>1, <3>2 DEF TokenIsMailed, IsAsk
  <2>2. CASE ~\E t \in Calls : ResetCall(c, t)
    <3>1. call'[c].kind # "reset"
      BY <2>2 DEF Sent, LogInCall, SignUpCall, AskCall, Receives, TypeInv, AccountsTypeOK
    <3> QED BY <3>1 DEF TokenIsMailed, IsReset
  <2> QED BY <2>1, <2>2
<1>3. ASSUME NEW d \in Calls
      PROVE  TokenIsMailed(d)' /\ TokenIsGone(d)'
  <2>1. CASE d = c
    BY <1>1, <1>2, <2>1 DEF TokenIsGone, Resetting
  <2>2. CASE d # c
    <3>1. TokenIsMailed(d) /\ TokenIsGone(d) /\ UNCHANGED <<at[d], call[d]>>
      BY <1>1, <2>2 DEF TokenInv
    <3>2. \A t \in Calls : at[t] = "ok" => UNCHANGED <<at[t], call[t]>>
      BY <1>1
    <3> QED BY <1>1, <3>1, <3>2 DEF TokenIsMailed, TokenIsGone, Resetting, IsReset, IsAsk
  <2> QED BY <2>1, <2>2
<1>4. ASSUME NEW d \in Calls, NEW e \in Calls
      PROVE  SharedIsDouble(d, e)'
  <2>1. ~HadToken(c)'
    BY <1>1 DEF HadToken
  <2>2. ASSUME NEW f \in Calls, f # c PROVE HadToken(f)' => HadToken(f) /\ UNCHANGED call[f]
    BY <1>1, <2>2 DEF HadToken, IsReset
  <2>3. SharedIsDouble(d, e)
    BY DEF TokenInv
  <2> QED BY <1>1, <2>1, <2>2, <2>3 DEF SharedIsDouble
<1> QED BY <1>3, <1>4 DEF TokenInv

(* Where a request only goes on, and no token comes up.                     *)
LEMMA KeepsTokens ==
    ASSUME TypeInv, TokenInv, UNCHANGED <<call, doubleRead>>,
           \A c \in Calls : at[c] = "ok" => at'[c] = "ok",
           \A c \in Calls : IsReset(c) /\ tokens[call[c].token] = Null
                                => tokens'[call[c].token] = Null,
           \A c \in Calls : HadToken(c)' => HadToken(c),
           \A c \in Calls : IsReset(c) /\ at'[c] \in {"set", "ok"}
                                => at[c] \in {"set", "ok"} \/ tokens'[call[c].token] = Null
    PROVE  TokenInv'
<1>1. ASSUME NEW c \in Calls PROVE TokenIsMailed(c)' /\ TokenIsGone(c)'
  <2>1. TokenIsMailed(c) /\ TokenIsGone(c)
    BY DEF TokenInv
  <2>2. TokenIsMailed(c)'
    BY <2>1 DEF TokenIsMailed, IsReset, IsAsk
  <2>3. TokenIsGone(c)'
    BY <2>1 DEF TokenIsGone, Resetting, IsReset
  <2> QED BY <2>2, <2>3
<1>2. ASSUME NEW c \in Calls, NEW d \in Calls PROVE SharedIsDouble(c, d)'
  BY DEF TokenInv, SharedIsDouble
<1> QED BY <1>1, <1>2 DEF TokenInv

LEMMA ReadTokenInv ==
    ASSUME TypeInv, TokenInv, NEW c \in Calls, ReadToken(c)
    PROVE  TokenInv'
<1>1. /\ at[c] = "get" /\ at' = [at EXCEPT ![c] = "del"]
      /\ read' = [read EXCEPT ![c] = tokens[call[c].token]]
      /\ UNCHANGED <<tokens, call>>
      /\ doubleRead \subseteq doubleRead'
  BY DEF ReadToken, Go
<1>2. DOMAIN at = Calls /\ DOMAIN read = Calls
  BY DEF TypeInv, AccountsTypeOK
<1>3. ASSUME NEW d \in Calls PROVE TokenIsMailed(d)' /\ TokenIsGone(d)'
  <2>1. TokenIsMailed(d) /\ TokenIsGone(d)
    BY DEF TokenInv
  <2>2. TokenIsMailed(d)'
    BY <1>1, <1>2, <2>1 DEF TokenIsMailed, IsReset, IsAsk
  <2>3. TokenIsGone(d)'
    BY <1>1, <1>2, <2>1 DEF TokenIsGone, Resetting
  <2> QED BY <2>2, <2>3
<1>4. ASSUME NEW d \in Calls, d # c, HadToken(c)', HadToken(d)', call[c].token = call[d].token
      PROVE  call[c].token \in doubleRead'
  <2>1. tokens[call[c].token] # Null
    BY <1>1, <1>2, <1>4 DEF HadToken
  <2>2. HadToken(d)
    BY <1>1, <1>2, <1>4 DEF HadToken, IsReset
  <2>3. ~Resetting(d)
    BY <1>4, <2>1 DEF TokenInv, TokenIsGone
  <2>4. at[d] = "del" /\ read[d] # Null
    BY <2>2, <2>3 DEF HadToken, IsReset, Resetting
  <2> QED BY <1>4, <2>4 DEF ReadToken
<1>5. ASSUME NEW d \in Calls, NEW e \in Calls PROVE SharedIsDouble(d, e)'
  <2>1. CASE d = c \/ e = c
    BY <1>1, <1>4, <2>1 DEF SharedIsDouble
  <2>2. CASE d # c /\ e # c
    <3>1. SharedIsDouble(d, e)
      BY DEF TokenInv
    <3>2. (HadToken(d)' => HadToken(d)) /\ (HadToken(e)' => HadToken(e))
      BY <1>1, <1>2, <2>2 DEF HadToken, IsReset
    <3> QED BY <1>1, <3>1, <3>2 DEF SharedIsDouble
  <2> QED BY <2>1, <2>2
<1> QED BY <1>3, <1>5 DEF TokenInv

LEMMA ServedTokenInv ==
    ASSUME TypeInv, TokenInv, NEW c \in Calls, Serves(c) \/ CallFails(c)
    PROVE  TokenInv'
<1>0. DOMAIN at = Calls /\ DOMAIN read = Calls /\ DOMAIN tokens = Calls
  BY DEF TypeInv, AccountsTypeOK
<1>1. CASE ReadToken(c)
  BY <1>1, ReadTokenInv
<1>2. CASE DeleteToken(c)
  <2>1. /\ at[c] = "del" /\ at' = [at EXCEPT ![c] = IF read[c] = Null THEN "refused" ELSE "set"]
        /\ tokens' = [tokens EXCEPT ![call[c].token] = Null]
        /\ UNCHANGED <<call, read, doubleRead>>
        /\ IsReset(c) /\ call[c].token \in Calls
    BY <1>2, Kinds DEF DeleteToken, Go, Reset
  <2>2. \A d \in Calls : HadToken(d)' => HadToken(d)
    BY <1>0, <2>1 DEF HadToken, IsReset
  <2> QED BY <1>0, <2>1, <2>2, KeepsTokens
<1>3. CASE PutToken(c)
  <2>1. /\ at[c] = "put" /\ at' = [at EXCEPT ![c] = "send"]
        /\ tokens' = [tokens EXCEPT ![c] = read[c]]
        /\ UNCHANGED <<call, read, doubleRead>>
    BY <1>3 DEF PutToken, Go
  <2>2. \A d \in Calls : IsReset(d) => call[d].token # c
    BY <2>1 DEF TokenInv, TokenIsMailed
  <2>3. \A d \in Calls : HadToken(d)' => HadToken(d)
    BY <1>0, <2>1 DEF HadToken, IsReset
  <2> QED BY <1>0, <2>1, <2>2, <2>3, KeepsTokens
<1>4. CASE SetPassword(c)
  <2>1. /\ at[c] = "set" /\ at' = [at EXCEPT ![c] = "ok"]
        /\ UNCHANGED <<tokens, call, read, doubleRead>>
    BY <1>4 DEF SetPassword, Go
  <2>2. \A d \in Calls : HadToken(d)' => HadToken(d)
    BY <1>0, <2>1 DEF HadToken, IsReset
  <2> QED BY <1>0, <2>1, <2>2, KeepsTokens
<1>5. CASE \/ LookForName(c) \/ LookForEmail(c) \/ InsertUser(c) \/ CountAttempt(c) \/ SetExpiry(c)
           \/ CheckPassword(c) \/ FindAccount(c) \/ SendMail(c)
  <2>1. /\ at[c] \in {"name", "email", "insert", "incr", "expire", "check", "look", "send"}
        /\ UNCHANGED <<tokens, call, doubleRead>>
    BY <1>5 DEF LookForName, LookForEmail, InsertUser, CountAttempt, SetExpiry, CheckPassword,
       FindAccount, SendMail
  <2>2. ~IsReset(c)
    BY <2>1, Kinds DEF IsReset, IsAsk
  <2>3. \A d \in Calls : d # c => UNCHANGED <<at[d], read[d]>>
    BY <1>5, StepOfOne DEF Serves
  <2>4. \A d \in Calls : HadToken(d)' => HadToken(d)
    BY <2>1, <2>2, <2>3 DEF HadToken, IsReset
  <2> QED BY <2>1, <2>2, <2>3, <2>4, KeepsTokens
<1>6. CASE CallFails(c)
  <2>1. /\ at[c] \notin {"ok", "new"} /\ at' = [at EXCEPT ![c] = "refused"]
        /\ UNCHANGED <<tokens, call, read, doubleRead>>
    BY <1>6 DEF CallFails, Go
  <2>2. \A d \in Calls : HadToken(d)' => HadToken(d)
    BY <1>0, <2>1 DEF HadToken, IsReset
  <2> QED BY <1>0, <2>1, <2>2, KeepsTokens
<1> QED BY <1>1, <1>2, <1>3, <1>4, <1>5, <1>6 DEF Serves

LEMMA NextTokenInv == ASSUME TypeInv, TokenInv, [AccountsNext]_accountVars PROVE TokenInv'
<1>1. CASE UNCHANGED accountVars
  <2>1. \A c \in Calls : HadToken(c)' => HadToken(c)
    BY <1>1 DEF accountVars, HadToken, IsReset
  <2> QED BY <1>1, <2>1, KeepsTokens DEF accountVars
<1>2. CASE RunsOut
  <2>1. /\ UNCHANGED <<call, at, read, doubleRead>>
        /\ \A t \in Calls : tokens[t] = Null => tokens'[t] = Null
    BY <1>2 DEF RunsOut, WindowEnds, TokenExpires, TypeInv, AccountsTypeOK
  <2>2. \A c \in Calls : (HadToken(c)' => HadToken(c)) /\ (IsReset(c) => call[c].token \in Calls)
    BY <2>1 DEF HadToken, IsReset, TokenInv, TokenIsMailed
  <2> QED BY <2>1, <2>2, KeepsTokens
<1>3. CASE \E c \in Calls : Sent(c) \/ Serves(c) \/ CallFails(c)
  BY <1>3, SentTokenInv, ServedTokenInv
<1> QED BY <1>1, <1>2, <1>3, NextSplits

(* TokenUsedOnce: however many resets there are.                            *)
THEOREM TokenUsedOnceHolds == AccountsSpec => []TokenUsedOnce
<1>1. AccountsInit => TypeInv /\ TokenInv
  BY InitTypeInv, InitTokenInv
<1>2. TypeInv /\ TokenInv /\ [AccountsNext]_accountVars => (TypeInv /\ TokenInv)'
  BY NextTypeInv, NextTokenInv
<1>3. TokenInv => TokenUsedOnce
  BY DEF TokenInv, SharedIsDouble, HadToken, IsReset, Resetting, TokenUsedOnce
<1> QED BY <1>1, <1>2, <1>3, PTL DEF AccountsSpec

-----------------------------------------------------------------------------
(***************************************************************************)
(* Resets.                                                                 *)
(***************************************************************************)
Owns(n, e) == n \in Names /\ users[n].exists /\ users[n].email = e

FirstPassword(n) == ~users[n].exists => users[n].password = Null

(* A token is of the account that has the address it was mailed to.         *)
TokenOwned(t) == tokens[t] # Null => IsAsk(t) /\ Owns(tokens[t], call[t].email)

(* And so is what a request has read to make one, or read from one.         *)
ReadOwned(c) ==
    /\ at[c] = "put" => Owns(read[c], call[c].email)
    /\ at[c] \in {"del", "set"} /\ read[c] # Null => Owns(read[c], call[call[c].token].email)

PasswordMailed(n) ==
    users[n].password # Null =>
        /\ users[n].password \in Calls /\ IsReset(users[n].password)
        /\ call[call[users[n].password].token].email = users[n].email

OwnerInv ==
    /\ \A n \in Names : FirstPassword(n) /\ PasswordMailed(n)
    /\ \A c \in Calls : TokenOwned(c) /\ ReadOwned(c)

LEMMA InitOwnerInv == ASSUME AccountsInit PROVE OwnerInv
<1>1. \A n \in Names : users[n].password = Null
  BY DEF AccountsInit, NoRow
<1> QED BY <1>1 DEF AccountsInit, OwnerInv, FirstPassword, PasswordMailed, TokenOwned, ReadOwned

(* Rows keep their address, and calls are kept as they were sent.           *)
RowsStay  == \A n \in Names : users[n].exists => users'[n].exists /\ users'[n].email = users[n].email
CallsStay == \A c \in Calls : call[c] # Null => UNCHANGED call[c]

LEMMA StaysOwned ==
    ASSUME RowsStay, NEW n, NEW e, Owns(n, e)
    PROVE  Owns(n, e)'
BY DEF RowsStay, Owns

LEMMA KeepsOwners ==
    ASSUME TypeInv, TokenInv, OwnerInv, RowsStay, CallsStay,
           \A n \in Names : FirstPassword(n)',
           \A n \in Names : users'[n].password = users[n].password \/ PasswordMailed(n)',
           \A t \in Calls : tokens'[t] \in {tokens[t], Null} \/ TokenOwned(t)',
           \A c \in Calls : UNCHANGED <<at[c], read[c]>> \/ ReadOwned(c)'
    PROVE  OwnerInv'
<1>1. ASSUME NEW n \in Names PROVE PasswordMailed(n)'
  <2>1. CASE users'[n].password = users[n].password /\ users[n].password # Null
    <3> DEFINE c == users[n].password
    <3>1. /\ c \in Calls /\ IsReset(c) /\ users[n].exists
          /\ call[call[c].token].email = users[n].email
      BY <2>1 DEF OwnerInv, PasswordMailed, FirstPassword
    <3>2. IsAsk(call[c].token) /\ call[c].token \in Calls
      BY <3>1 DEF TokenInv, TokenIsMailed
    <3>3. call'[c] = call[c] /\ call'[call[c].token] = call[call[c].token]
      BY <3>1, <3>2 DEF CallsStay, IsReset, IsAsk
    <3>4. users'[n].email = users[n].email
      BY <3>1 DEF RowsStay
    <3> QED BY <2>1, <3>1, <3>3, <3>4 DEF PasswordMailed, IsReset
  <2> QED BY <2>1 DEF PasswordMailed
<1>2. ASSUME NEW t \in Calls PROVE TokenOwned(t)'
  <2>1. CASE tokens'[t] = tokens[t] /\ tokens[t] # Null
    <3>1. PICK n : n = tokens[t]
      OBVIOUS
    <3>2. PICK e : e = call[t].email
      OBVIOUS
    <3>3. IsAsk(t) /\ Owns(n, e)
      BY <2>1, <3>1, <3>2 DEF OwnerInv, TokenOwned
    <3>4. Owns(n, e)' /\ call'[t] = call[t]
      BY <3>3, StaysOwned DEF CallsStay, IsAsk
    <3> QED BY <2>1, <3>1, <3>2, <3>3, <3>4 DEF TokenOwned, IsAsk
  <2> QED BY <2>1 DEF TokenOwned
<1>3. ASSUME NEW c \in Calls, UNCHANGED <<at[c], read[c]>> PROVE ReadOwned(c)'
  <2>1. ReadOwned(c)
    BY DEF OwnerInv
  <2>2. PICK n : n = read[c]
    OBVIOUS
  <2>3. CASE at[c] = "put"
    <3>1. PICK e : e = call[c].email
      OBVIOUS
    <3>2. Owns(n, e)' /\ call'[c] = call[c]
      BY <2>1, <2>2, <2>3, <3>1, StaysOwned, Kinds DEF ReadOwned, CallsStay, IsAsk
    <3> QED BY <1>3, <2>2, <2>3, <3>1, <3>2 DEF ReadOwned
  <2>4. CASE at[c] \in {"del", "set"} /\ read[c] # Null
    <3>1. PICK e : e = call[call[c].token].email
      OBVIOUS
    <3>2. IsReset(c) /\ call[c].token \in Calls /\ IsAsk(call[c].token)
      BY <2>4, Kinds DEF TokenInv, TokenIsMailed
    <3>3. call'[c] = call[c] /\ call'[call[c].token] = call[call[c].token]
      BY <3>2 DEF CallsStay, IsReset, IsAsk
    <3>4. Owns(n, e)'
      BY <2>1, <2>2, <2>4, <3>1, StaysOwned DEF ReadOwned
    <3> QED BY <1>3, <2>2, <2>4, <3>1, <3>3, <3>4 DEF ReadOwned
  <2> QED BY <1>3, <2>3, <2>4 DEF ReadOwned
<1> QED BY <1>1, <1>2, <1>3 DEF OwnerInv

(* The steps that leave rows and tokens alone.                              *)
LEMMA QuietOwnerInv ==
    ASSUME TypeInv, TokenInv, OwnerInv, UNCHANGED <<users, tokens>>, CallsStay,
           \A c \in Calls : UNCHANGED <<at[c], read[c]>> \/ ReadOwned(c)'
    PROVE  OwnerInv'
<1>1. \A n \in Names : FirstPassword(n)'
  BY DEF OwnerInv, FirstPassword
<1> QED BY <1>1, KeepsOwners DEF RowsStay

LEMMA ServedOwnerInv ==
    ASSUME TypeInv, TokenInv, OwnerInv, NEW c \in Calls, Serves(c) \/ CallFails(c)
    PROVE  OwnerInv'
<1>0. /\ DOMAIN at = Calls /\ DOMAIN read = Calls /\ DOMAIN tokens = Calls /\ DOMAIN users = Names
      /\ \A d \in Calls : d # c => UNCHANGED <<at[d], read[d]>>
      /\ CallsStay
  <2>1. at[c] # "new"
    BY DEF Serves, CallFails, LookForName, LookForEmail, InsertUser, CountAttempt, SetExpiry,
       CheckPassword, FindAccount, PutToken, SendMail, ReadToken, DeleteToken, SetPassword
  <2> QED BY <2>1, StepOfOne DEF CallsStay, TypeInv, AccountsTypeOK
<1>1. \A n \in Names : FirstPassword(n)
  BY DEF OwnerInv
<1>2. CASE InsertUser(c)
  <2>1. at[c] = "insert" /\ at'[c] \in {"ok", "refused"} /\ UNCHANGED <<tokens, read>>
    BY <1>0, <1>2 DEF InsertUser, Go
  <2>2. /\ RowsStay
        /\ \A n \in Names : FirstPassword(n)' /\ users'[n].password = users[n].password
    <3>1. \/ UNCHANGED users
          \/ /\ ~users[call[c].name].exists
             /\ users' = [users EXCEPT ![call[c].name] =
                    [email |-> call[c].email, password |-> Null, exists |-> TRUE]]
      BY <1>2 DEF InsertUser
    <3> QED BY <1>0, <1>1, <3>1 DEF RowsStay, FirstPassword
  <2>3. ReadOwned(c)'
    BY <2>1 DEF ReadOwned
  <2> QED BY <1>0, <2>1, <2>2, <2>3, KeepsOwners
<1>3. CASE FindAccount(c)
  <2>1. at[c] = "look" /\ UNCHANGED <<users, tokens, call>>
    BY <1>3 DEF FindAccount
  <2>2. \/ at'[c] = "ok"
        \/ at'[c] = "put" /\ \E n \in OwnersOf(call[c].email) : read'[c] = n
    BY <1>0, <1>3 DEF FindAccount, Go
  <2>3. ReadOwned(c)'
    BY <2>1, <2>2 DEF ReadOwned, Owns, OwnersOf
  <2> QED BY <1>0, <2>1, <2>3, QuietOwnerInv
<1>4. CASE PutToken(c)
  <2>1. /\ at[c] = "put" /\ at'[c] = "send" /\ tokens' = [tokens EXCEPT ![c] = read[c]]
        /\ UNCHANGED <<users, call, read>>
    BY <1>0, <1>4 DEF PutToken, Go
  <2>2. IsAsk(c) /\ Owns(read[c], call[c].email)
    BY <2>1, Kinds DEF OwnerInv, ReadOwned
  <2>3. TokenOwned(c)'
    BY <1>0, <2>1, <2>2 DEF TokenOwned, Owns, IsAsk
  <2>4. ReadOwned(c)'
    BY <2>1 DEF ReadOwned
  <2>5. \A n \in Names : FirstPassword(n)'
    BY <1>1, <2>1 DEF FirstPassword
  <2>6. RowsStay /\ \A n \in Names : users'[n].password = users[n].password
    BY <2>1 DEF RowsStay
  <2>7. \A t \in Calls : tokens'[t] \in {tokens[t], Null} \/ TokenOwned(t)'
    BY <1>0, <2>1, <2>3
  <2> QED BY <1>0, <2>4, <2>5, <2>6, <2>7, KeepsOwners
<1>5. CASE ReadToken(c)
  <2>1. /\ at[c] = "get" /\ at'[c] = "del" /\ read'[c] = tokens[call[c].token]
        /\ UNCHANGED <<users, tokens, call>>
    BY <1>0, <1>5 DEF ReadToken, Go
  <2>2. call[c].token \in Calls
    BY <2>1, Kinds DEF TokenInv, TokenIsMailed
  <2>3. ReadOwned(c)'
    BY <2>1, <2>2 DEF OwnerInv, TokenOwned, ReadOwned, Owns
  <2> QED BY <1>0, <2>1, <2>3, QuietOwnerInv
<1>6. CASE DeleteToken(c)
  <2>1. /\ at[c] = "del" /\ at'[c] \in {"refused", "set"}
        /\ tokens' = [tokens EXCEPT ![call[c].token] = Null]
        /\ UNCHANGED <<users, call, read>>
    BY <1>0, <1>6 DEF DeleteToken, Go
  <2>2. ReadOwned(c)'
    BY <2>1 DEF OwnerInv, ReadOwned, Owns
  <2>3. \A n \in Names : FirstPassword(n)'
    BY <1>1, <2>1 DEF FirstPassword
  <2>4. RowsStay /\ \A n \in Names : users'[n].password = users[n].password
    BY <2>1 DEF RowsStay
  <2>5. \A t \in Calls : tokens'[t] \in {tokens[t], Null}
    BY <1>0, <2>1
  <2> QED BY <1>0, <2>2, <2>3, <2>4, <2>5, KeepsOwners
<1>7. CASE SetPassword(c)
  <2> DEFINE n == read[c]
  <2>1. /\ at[c] = "set" /\ at'[c] = "ok"
        /\ users' = [users EXCEPT ![n] = [users[n] EXCEPT !.password = c]]
        /\ UNCHANGED <<tokens, call, read>>
    BY <1>0, <1>7 DEF SetPassword, Go
  <2>2. n \in Names /\ n # Null /\ users[n] \in [email : Emails \cup {Null}, password : Calls \cup {Null}, exists : BOOLEAN]
    BY <2>1 DEF TypeInv, AccountsTypeOK, CallFits
  <2>3. IsReset(c) /\ Owns(n, call[call[c].token].email)
    BY <2>1, <2>2, Kinds DEF OwnerInv, ReadOwned
  <2>4. /\ users'[n].exists /\ users'[n].email = users[n].email /\ users'[n].password = c
        /\ \A m \in Names : m # n => users'[m] = users[m]
    BY <1>0, <2>1, <2>2, <2>3 DEF Owns
  <2>5. ASSUME NEW m \in Names
        PROVE  FirstPassword(m)' /\ (users'[m].password = users[m].password \/ PasswordMailed(m)')
    <3>1. CASE m = n
      BY <2>1, <2>3, <2>4, <3>1 DEF FirstPassword, PasswordMailed, Owns, IsReset
    <3>2. CASE m # n
      BY <1>1, <2>4, <3>2 DEF FirstPassword
    <3> QED BY <3>1, <3>2
  <2>6. RowsStay
    BY <2>4 DEF RowsStay
  <2>7. ReadOwned(c)'
    BY <2>1 DEF ReadOwned
  <2> QED BY <1>0, <2>1, <2>5, <2>6, <2>7, KeepsOwners
<1>8. CASE \/ LookForName(c) \/ LookForEmail(c) \/ CountAttempt(c) \/ SetExpiry(c)
           \/ CheckPassword(c) \/ SendMail(c) \/ CallFails(c)
  <2>1. UNCHANGED <<users, tokens>>
    BY <1>8 DEF LookForName, LookForEmail, CountAttempt, SetExpiry, CheckPassword, SendMail, CallFails
  <2>2. at'[c] \notin {"put", "del", "set"}
    BY <1>0, <1>8 DEF LookForName, LookForEmail, CountAttempt, SetExpiry, CheckPassword, SendMail,
       CallFails, Go
  <2>3. ReadOwned(c)'
    BY <2>2 DEF ReadOwned
  <2> QED BY <1>0, <2>1, <2>3, QuietOwnerInv
<1> QED BY <1>2, <1>3, <1>4, <1>5, <1>6, <1>7, <1>8 DEF Serves

LEMMA NextOwnerInv ==
    ASSUME TypeInv, TokenInv, OwnerInv, [AccountsNext]_accountVars
    PROVE  OwnerInv'
<1>1. CASE UNCHANGED accountVars
  BY <1>1, QuietOwnerInv DEF accountVars, CallsStay
<1>2. ASSUME NEW n \in Names, WindowEnds(n)
      PROVE  OwnerInv'
  BY <1>2, QuietOwnerInv DEF WindowEnds, CallsStay
<1>3. ASSUME NEW t \in Calls, TokenExpires(t)
      PROVE  OwnerInv'
  <2>1. UNCHANGED <<users, call, at, read>> /\ \A d \in Calls : tokens'[d] \in {tokens[d], Null}
    BY <1>3 DEF TokenExpires, TypeInv, AccountsTypeOK
  <2>2. \A n \in Names : FirstPassword(n)' /\ users'[n].password = users[n].password
    BY <2>1 DEF OwnerInv, FirstPassword
  <2> QED BY <2>1, <2>2, KeepsOwners DEF RowsStay, CallsStay
<1>4. ASSUME NEW c \in Calls, Sent(c)
      PROVE  OwnerInv'
  <2>1. /\ at[c] = "new" /\ at'[c] \in {"name", "incr", "look", "get"} /\ UNCHANGED <<users, tokens, read>>
    BY <1>4 DEF Sent, LogInCall, SignUpCall, AskCall, ResetCall, Receives, Go, TypeInv, AccountsTypeOK
  <2>2. call[c] = Null
    BY <2>1 DEF TypeInv, CallFits
  <2>3. CallsStay /\ \A d \in Calls : d # c => UNCHANGED <<at[d], read[d]>>
    BY <1>4, <2>2, StepOfOne DEF CallsStay
  <2>4. ReadOwned(c)'
    BY <2>1 DEF ReadOwned
  <2> QED BY <2>1, <2>3, <2>4, QuietOwnerInv
<1>5. CASE \E c \in Calls : Serves(c) \/ CallFails(c)
  BY <1>5, ServedOwnerInv
<1> QED BY <1>1, <1>2, <1>3, <1>4, <1>5, NextSplits DEF RunsOut

(* ResetReachesOwner: whoever signs up or resets in between.                *)
THEOREM ResetReachesOwnerHolds == AccountsSpec => []ResetReachesOwner
<1>1. AccountsInit => TypeInv /\ TokenInv /\ OwnerInv
  BY InitTypeInv, InitTokenInv, InitOwnerInv
<1>2. TypeInv /\ TokenInv /\ OwnerInv /\ [AccountsNext]_accountVars
      => (TypeInv /\ TokenInv /\ OwnerInv)'
  BY NextTypeInv, NextTokenInv, NextOwnerInv
<1>3. OwnerInv => ResetReachesOwner
  BY DEF OwnerInv, PasswordMailed, ResetReachesOwner
<1> QED BY <1>1, <1>2, <1>3, PTL DEF AccountsSpec

-----------------------------------------------------------------------------
(***************************************************************************)
(* Addresses.                                                              *)
(***************************************************************************)
(* One owner or one sign-up on its way to be one, unless two have raced.    *)
AtMostOne(S) == \A x, y \in S : x = y

EmailSound(e) ==
    e \notin raced =>
        /\ AtMostOne(OwnersOf(e)) /\ AtMostOne(About(e))
        /\ About(e) # {} => OwnersOf(e) = {}

EmailInv == \A e \in Emails : EmailSound(e)

LEMMA InitEmailInv == ASSUME AccountsInit PROVE EmailInv
<1> SUFFICES ASSUME NEW e \in Emails
             PROVE  EmailSound(e)
  BY DEF EmailInv
<1>1. ASSUME NEW n \in Names, users[n].exists, users[n].email = e
      PROVE  <<n, e>> \in Accounts0
  <2>1. \E f \in Emails \cup {Null} : <<n, f>> \in Accounts0
    BY <1>1 DEF AccountsInit, NoRow
  <2> DEFINE f == CHOOSE g \in Emails \cup {Null} : <<n, g>> \in Accounts0
  <2>2. <<n, f>> \in Accounts0
    BY <2>1
  <2>3. f = e
    BY <1>1, <2>1 DEF AccountsInit
  <2> QED BY <2>2, <2>3
<1>2. AtMostOne(OwnersOf(e))
  <2> SUFFICES ASSUME NEW n \in OwnersOf(e), NEW m \in OwnersOf(e)
               PROVE  n = m
    BY DEF AtMostOne
  <2>1. <<n, e>> \in Accounts0 /\ <<m, e>> \in Accounts0
    BY <1>1 DEF OwnersOf
  <2>2. <<n, e>> = <<m, e>>
    BY <2>1
  <2> QED BY <2>2
<1>3. About(e) = {}
  BY DEF AccountsInit, About
<1> QED BY <1>2, <1>3 DEF EmailSound, AtMostOne

(* An address nobody is added to.                                           *)
LEMMA StaysSound ==
    ASSUME EmailInv, raced \subseteq raced', NEW e \in Emails,
           OwnersOf(e)' \subseteq OwnersOf(e), About(e)' \subseteq About(e)
    PROVE  EmailSound(e)'
BY DEF EmailInv, EmailSound, AtMostOne

LEMMA LookForEmailInv ==
    ASSUME TypeInv, EmailInv, NEW c \in Calls, LookForEmail(c)
    PROVE  EmailInv'
<1> DEFINE f == call[c].email
<1>1. /\ at[c] = "email" /\ UNCHANGED <<users, call>>
      /\ \/ at' = [at EXCEPT ![c] = "refused"] /\ UNCHANGED raced
         \/ /\ OwnersOf(f) = {} /\ at' = [at EXCEPT ![c] = "insert"]
            /\ raced' = IF About(f) # {} THEN raced \cup {f} ELSE raced
  BY DEF LookForEmail, Go
<1>2. DOMAIN at = Calls
  BY DEF TypeInv, AccountsTypeOK
<1> SUFFICES ASSUME NEW e \in Emails
             PROVE  EmailSound(e)'
  BY DEF EmailInv
<1>3. OwnersOf(e)' = OwnersOf(e)
  BY <1>1 DEF OwnersOf
<1>4. CASE e = f /\ at'[c] = "insert"
  <2>1. OwnersOf(e)' = {} /\ About(e)' \subseteq About(e) \cup {c}
    BY <1>1, <1>2, <1>3, <1>4 DEF About
  <2>2. About(e) = {} \/ e \in raced'
    BY <1>1, <1>2, <1>4
  <2> QED BY <2>1, <2>2 DEF EmailSound, AtMostOne
<1>5. CASE e # f \/ at'[c] # "insert"
  <2>1. About(e)' \subseteq About(e)
    BY <1>1, <1>2, <1>5 DEF About
  <2>2. raced \subseteq raced'
    BY <1>1
  <2> QED BY <1>3, <2>1, <2>2, StaysSound
<1> QED BY <1>4, <1>5

LEMMA InsertUserEmailInv ==
    ASSUME TypeInv, EmailInv, NEW c \in Calls, InsertUser(c)
    PROVE  EmailInv'
<1> DEFINE f == call[c].email
           m == call[c].name
<1>1. /\ at[c] = "insert" /\ UNCHANGED <<call, raced>>
      /\ \E l \in {"refused", "ok"} : at' = [at EXCEPT ![c] = l]
      /\ \/ UNCHANGED users
         \/ users' = [users EXCEPT ![m] = [email |-> f, password |-> Null, exists |-> TRUE]]
  BY DEF InsertUser, Go
<1>2. DOMAIN at = Calls /\ DOMAIN users = Names
  BY DEF TypeInv, AccountsTypeOK
<1> SUFFICES ASSUME NEW e \in Emails
             PROVE  EmailSound(e)'
  BY DEF EmailInv
<1>3. About(e)' \subseteq About(e) \ {c}
  BY <1>1, <1>2 DEF About
<1>4. CASE e = f
  <2>1. c \in About(e)
    BY <1>1, <1>4 DEF About
  <2>2. OwnersOf(e)' \subseteq OwnersOf(e) \cup {m}
    BY <1>1, <1>2 DEF OwnersOf
  <2>3. e \notin raced => OwnersOf(e) = {} /\ About(e) \subseteq {c}
    BY <2>1 DEF EmailInv, EmailSound, AtMostOne
  <2> QED BY <1>1, <1>3, <2>2, <2>3 DEF EmailSound, AtMostOne
<1>5. CASE e # f
  <2>1. OwnersOf(e)' \subseteq OwnersOf(e)
    BY <1>1, <1>2, <1>5 DEF OwnersOf
  <2> QED BY <1>1, <1>3, <2>1, StaysSound
<1> QED BY <1>4, <1>5

LEMMA NextEmailInv == ASSUME TypeInv, EmailInv, [AccountsNext]_accountVars PROVE EmailInv'
<1>1. ASSUME UNCHANGED <<users, call, at, raced>>
      PROVE  EmailInv'
  BY <1>1 DEF EmailInv, EmailSound, AtMostOne, OwnersOf, About
<1>2. CASE UNCHANGED accountVars \/ RunsOut
  BY <1>1, <1>2 DEF accountVars, RunsOut, WindowEnds, TokenExpires
<1>3. ASSUME NEW c \in Calls, Sent(c) \/ Serves(c) \/ CallFails(c)
      PROVE  EmailInv'
  <2>1. CASE LookForEmail(c) \/ InsertUser(c)
    BY <2>1, LookForEmailInv, InsertUserEmailInv
  <2>2. CASE \/ Sent(c) \/ LookForName(c) \/ CountAttempt(c) \/ SetExpiry(c) \/ CheckPassword(c)
             \/ FindAccount(c) \/ PutToken(c) \/ SendMail(c) \/ ReadToken(c) \/ DeleteToken(c)
             \/ SetPassword(c) \/ CallFails(c)
    <3>1. /\ UNCHANGED raced
          /\ \A n \in Names : users'[n].exists = users[n].exists /\ users'[n].email = users[n].email
      BY <2>2 DEF Sent, LogInCall, SignUpCall, AskCall, ResetCall, Receives, LookForName,
         CountAttempt, SetExpiry, CheckPassword, FindAccount, PutToken, SendMail, ReadToken,
         DeleteToken, SetPassword, CallFails, TypeInv, AccountsTypeOK
    <3>2. \A d \in Calls : d # c => UNCHANGED <<at[d], call[d]>>
      BY <1>3, StepOfOne
    <3>3. at'[c] = "insert" => at[c] = "name" /\ UNCHANGED call /\ call[c].email = Null
      BY <2>2 DEF Sent, LogInCall, SignUpCall, AskCall, ResetCall, Receives, LookForName,
         CountAttempt, SetExpiry, CheckPassword, FindAccount, PutToken, SendMail, ReadToken,
         DeleteToken, SetPassword, CallFails, Go, TypeInv, AccountsTypeOK
    <3>4. ASSUME NEW e \in Emails PROVE EmailSound(e)'
      <4>1. OwnersOf(e)' \subseteq OwnersOf(e)
        BY <3>1 DEF OwnersOf
      <4>2. About(e)' \subseteq About(e)
        BY <3>2, <3>3 DEF About
      <4> QED BY <3>1, <4>1, <4>2, StaysSound
    <3> QED BY <3>4 DEF EmailInv
  <2> QED BY <1>3, <2>1, <2>2 DEF Serves
<1> QED BY <1>2, <1>3, NextSplits

(* EmailUnique: but for two sign-ups that look before either inserts.       *)
THEOREM EmailUniqueHolds == AccountsSpec => []EmailUnique
<1>1. AccountsInit => TypeInv /\ EmailInv
  BY InitTypeInv, InitEmailInv
<1>2. TypeInv /\ EmailInv /\ [AccountsNext]_accountVars => (TypeInv /\ EmailInv)'
  BY NextTypeInv, NextEmailInv
<1>3. EmailInv => EmailUnique
  <2> SUFFICES ASSUME EmailInv, NEW e \in Emails \ raced
               PROVE  Cardinality(OwnersOf(e)) <= 1
    BY DEF EmailUnique
  <2>1. AtMostOne(OwnersOf(e))
    BY DEF EmailInv, EmailSound
  <2>2. CASE OwnersOf(e) = {}
    BY <2>2, FS_EmptySet
  <2>3. CASE OwnersOf(e) # {}
    <3>1. PICK n : OwnersOf(e) = {n}
      BY <2>1, <2>3 DEF AtMostOne
    <3> QED BY <3>1, FS_Singleton
  <2> QED BY <2>2, <2>3
<1> QED BY <1>1, <1>2, <1>3, PTL DEF AccountsSpec

(* AccountsInv: attempts, tokens and resets together.                       *)
THEOREM AccountsInvHolds == AccountsSpec => []AccountsInv
<1>1. AccountsTypeOK /\ AttemptsBounded /\ TokenUsedOnce /\ ResetReachesOwner => AccountsInv
  BY DEF AccountsInv
<1> QED BY <1>1, AccountsTypeCorrect, AttemptsBoundedHolds, TokenUsedOnceHolds, ResetReachesOwnerHolds, PTL

-----------------------------------------------------------------------------
(***************************************************************************)
(* WalletLink.                                                             *)
(***************************************************************************)
HIDE AccountsAssumption
USE WalletAssumption

Verifying == {"get", "del", "find", "create", "mark"}
Switching == {"wallets", "set", "audit", "publish"}

(* What a request was sent as, at each of its awaits.                       *)
JobFits ==
    \A r \in Requests :
        /\ pc[r] \in Verifying \/ found[r] # None => job[r] \in Verify
        /\ pc[r] \in Switching => job[r] \in Switch
        /\ pc[r] \in {"new", "get"} => found[r] = None

WalletTypeInv == WalletTypeOK /\ JobFits /\ IsFiniteSet(challenges)

LEMMA WalletInitTypeInv == ASSUME WalletInit PROVE WalletTypeInv
<1>1. IsFiniteSet(challenges)
  BY FS_EmptySet DEF WalletInit
<1> QED BY <1>1 DEF WalletInit, WalletTypeInv, WalletTypeOK, JobFits, Unlinked, Verifying, Switching

(* The next nonce, and what a challenge leaves behind.                      *)
LEMMA NextNonce ==
    ASSUME WalletTypeInv, NEW u \in Users, NEW a \in Addresses, Challenge(u, a)
    PROVE  /\ Cardinality(challenges) \in Nat
           /\ Cardinality(challenges) + 1 \in 1..MaxNonces
           /\ KeyOf(u, a) \in Users \X Addresses
           /\ [user |-> u, address |-> a, nonce |-> Cardinality(challenges) + 1] \in Challenges
           /\ IsFiniteSet(challenges')
<1>1. Cardinality(challenges) \in Nat
  BY FS_CardinalityType DEF WalletTypeInv
<1>2. Cardinality(challenges) + 1 \in 1..MaxNonces
  BY <1>1 DEF Challenge
<1>3. KeyOf(u, a) \in Users \X Addresses
  BY DEF KeyOf
<1>4. [user |-> u, address |-> a, nonce |-> Cardinality(challenges) + 1] \in Challenges
  BY <1>2 DEF Challenges
<1>5. IsFiniteSet(challenges')
  BY FS_AddElement DEF WalletTypeInv, Challenge
<1> QED BY <1>1, <1>2, <1>3, <1>4, <1>5

LEMMA OutsideTypeInv ==
    ASSUME WalletTypeInv,
           \/ \E u \in Users, a \in Addresses : Challenge(u, a)
           \/ \E k \in Users \X Addresses : NonceExpires(k)
    PROVE  WalletTypeInv'
<1>1. ASSUME NEW u \in Users, NEW a \in Addresses, Challenge(u, a)
      PROVE  WalletTypeInv'
  <2> DEFINE n == Cardinality(challenges) + 1
  <2>1. /\ n \in 1..MaxNonces
        /\ [user |-> u, address |-> a, nonce |-> n] \in Challenges
        /\ IsFiniteSet(challenges')
    BY <1>1, NextNonce
  <2>2. /\ nonces' = [nonces EXCEPT ![KeyOf(u, a)] = n]
        /\ challenges' = challenges \cup {[user |-> u, address |-> a, nonce |-> n]}
        /\ UNCHANGED <<wallets, enabled, recorded, job, pc, found, readTwice, clean>>
    BY <1>1 DEF Challenge
  <2> QED BY <2>1, <2>2 DEF WalletTypeInv, WalletTypeOK, JobFits
<1>2. ASSUME NEW k \in Users \X Addresses, NonceExpires(k)
      PROVE  WalletTypeInv'
  BY <1>2 DEF NonceExpires, WalletTypeInv, WalletTypeOK, JobFits
<1> QED BY <1>1, <1>2

LEMMA CallTypeInv ==
    ASSUME WalletTypeInv, NEW r \in Requests, NEW u \in Users,
           (\E a \in Addresses : VerifyCall(r, u, a)) \/ (\E k \in {"on", "off"} : SwitchCall(r, u, k))
    PROVE  WalletTypeInv'
<1> USE DEF WalletTypeInv, WalletTypeOK, JobFits, Verifying, Switching, Goto
<1>1. ASSUME NEW a \in Addresses, VerifyCall(r, u, a)
      PROVE  WalletTypeInv'
  <2>1. PICK c \in Challenges \cup {None} :
            job' = [job EXCEPT ![r] = [kind |-> "verify", user |-> u, address |-> a, signs |-> c]]
    BY <1>1 DEF VerifyCall, Signed
  <2>2. [kind |-> "verify", user |-> u, address |-> a, signs |-> c] \in Verify
    BY DEF Verify
  <2> QED BY <1>1, <2>1, <2>2 DEF VerifyCall
<1>2. ASSUME NEW k \in {"on", "off"}, SwitchCall(r, u, k)
      PROVE  WalletTypeInv'
  <2>1. [kind |-> k, user |-> u] \in Switch
    BY DEF Switch
  <2> QED BY <1>2, <2>1 DEF SwitchCall
<1> QED BY <1>1, <1>2

LEMMA HandlerTypeInv ==
    ASSUME WalletTypeInv, NEW r \in Requests, Handler(r) \/ Fails(r)
    PROVE  WalletTypeInv'
<1> USE DEF WalletTypeInv, WalletTypeOK, JobFits, Verifying, Switching, Goto
<1>1. CASE ReadNonce(r)
  <2>1. KeyOf(job[r].user, job[r].address) \in Users \X Addresses
    BY <1>1 DEF ReadNonce, Verify, KeyOf
  <2>2. nonces[KeyOf(job[r].user, job[r].address)] \in 1..MaxNonces \cup {None}
    BY <2>1
  <2> QED BY <1>1, <2>2 DEF ReadNonce
<1>2. CASE DeleteNonce(r)
  BY <1>2 DEF DeleteNonce
<1>3. CASE FindAddress(r)
  BY <1>3 DEF FindAddress
<1>4. CASE CreateWallet(r)
  <2>1. job[r].user \in Users
    BY <1>4 DEF CreateWallet, Verify
  <2>2. [user |-> job[r].user, verified |-> FALSE] \in [user : Users \cup {None}, verified : BOOLEAN]
    BY <2>1
  <2>3. wallets' \in [Addresses -> [user : Users \cup {None}, verified : BOOLEAN]]
    BY <1>4, <2>2 DEF CreateWallet
  <2> QED BY <1>4, <2>3 DEF CreateWallet
<1>5. CASE MarkVerified(r)
  BY <1>5 DEF MarkVerified
<1>6. CASE ListWallets(r)
  BY <1>6 DEF ListWallets
<1>7. CASE SetEnabled(r)
  BY <1>7 DEF SetEnabled, Switch
<1>8. CASE RecordSwitch(r)
  BY <1>8 DEF RecordSwitch, Switch
<1>9. CASE PublishSwitch(r)
  BY <1>9 DEF PublishSwitch
<1>10. CASE Fails(r)
  BY <1>10 DEF Fails
<1> QED
  BY <1>1, <1>2, <1>3, <1>4, <1>5, <1>6, <1>7, <1>8, <1>9, <1>10 DEF Handler

LEMMA WalletNextTypeInv == ASSUME WalletTypeInv, [WalletNext]_walletVars PROVE WalletTypeInv'
<1>1. CASE UNCHANGED walletVars
  BY <1>1 DEF walletVars, WalletTypeInv, WalletTypeOK, JobFits
<1>2. CASE WalletNext
  BY <1>2, OutsideTypeInv, CallTypeInv, HandlerTypeInv DEF WalletNext
<1> QED BY <1>1, <1>2

(* WalletTypeOK.                                                            *)
THEOREM WalletTypeCorrect == WalletSpec => []WalletTypeOK
<1>1. WalletInit => WalletTypeInv
  BY WalletInitTypeInv
<1>2. WalletTypeInv /\ [WalletNext]_walletVars => WalletTypeInv'
  BY WalletNextTypeInv
<1>3. WalletTypeInv => WalletTypeOK
  BY DEF WalletTypeInv
<1> QED BY <1>1, <1>2, <1>3, PTL DEF WalletSpec

-----------------------------------------------------------------------------
(***************************************************************************)
(* Nonces.                                                                 *)
(***************************************************************************)
(* No two challenges have the same one.                                     *)
Numbered ==
    /\ \A c \in challenges : c.nonce <= Cardinality(challenges)
    /\ \A c, d \in challenges : c.nonce = d.nonce => c = d

(* One in Redis or in the hands of a request is of a challenge of its user. *)
Issued(n, k) == \E c \in challenges : c.nonce = n /\ KeyOf(c.user, c.address) = k

StoredIsIssued == \A k \in Users \X Addresses : nonces[k] # None => Issued(nonces[k], k)

FoundIsIssued ==
    \A r \in Requests : found[r] # None => Issued(found[r], KeyOf(job[r].user, job[r].address))

(* What a request was let through with is no longer in Redis, and what two  *)
(* have found they read before either deleted it.                           *)
PassedIsDeleted ==
    \A r \in Requests, k \in Users \X Addresses : Passed(r) => nonces[k] # found[r]

SharedIsReadTwice ==
    \A r, s \in Requests :
        r # s /\ found[r] # None /\ found[r] = found[s] => found[r] \in readTwice

NonceInv == Numbered /\ StoredIsIssued /\ FoundIsIssued /\ PassedIsDeleted /\ SharedIsReadTwice

LEMMA InitNonceInv == ASSUME WalletInit PROVE NonceInv
BY DEF WalletInit, NonceInv, Numbered, StoredIsIssued, FoundIsIssued, PassedIsDeleted,
       SharedIsReadTwice, Passed

(* A nonce is stored under one key only.                                    *)
LEMMA OneKey ==
    ASSUME Numbered, NEW n, NEW j, NEW k, Issued(n, j), Issued(n, k)
    PROVE  j = k
BY DEF Numbered, Issued

LEMMA ChallengeNonceInv ==
    ASSUME WalletTypeInv, NonceInv, NEW u \in Users, NEW a \in Addresses, Challenge(u, a)
    PROVE  NonceInv'
<1>0. PICK n : n = Cardinality(challenges) + 1
  OBVIOUS
<1> DEFINE new == [user |-> u, address |-> a, nonce |-> n]
<1>1. /\ nonces' = [nonces EXCEPT ![KeyOf(u, a)] = n]
      /\ challenges' = challenges \cup {new}
      /\ UNCHANGED <<job, pc, found, readTwice>>
  BY <1>0 DEF Challenge
<1>2. /\ Cardinality(challenges) \in Nat
      /\ n \in 1..MaxNonces
      /\ KeyOf(u, a) \in Users \X Addresses
  BY <1>0, NextNonce
<1>3. \A c \in challenges : c.nonce \in 1..MaxNonces /\ c.nonce < n
  BY <1>0, <1>2 DEF WalletTypeInv, WalletTypeOK, Challenges, NonceInv, Numbered
<1>4. new \notin challenges
  BY <1>2, <1>3
<1>5. Cardinality(challenges') = n
  BY <1>0, <1>1, <1>4, FS_AddElement DEF WalletTypeInv
<1>6. Numbered'
  BY <1>1, <1>2, <1>3, <1>5 DEF Numbered, NonceInv
<1>7. ASSUME NEW m, NEW k, Issued(m, k)
      PROVE  Issued(m, k)' /\ m # n
  BY <1>1, <1>2, <1>3, <1>7 DEF Issued, KeyOf
<1>8. Issued(n, KeyOf(u, a))'
  <2>1. new \in challenges'
    BY <1>1
  <2>2. new.nonce = n /\ new.user = u /\ new.address = a
    OBVIOUS
  <2> HIDE DEF new
  <2> QED BY <2>1, <2>2 DEF Issued, KeyOf
<1>9. StoredIsIssued'
  BY <1>1, <1>2, <1>7, <1>8 DEF StoredIsIssued, NonceInv, WalletTypeInv, WalletTypeOK
<1>10. FoundIsIssued'
  BY <1>1, <1>7 DEF FoundIsIssued, NonceInv, KeyOf
<1>11. PassedIsDeleted'
  <2>1. \A r \in Requests : Passed(r) => found[r] # n
    BY <1>7 DEF Passed, FoundIsIssued, NonceInv
  <2> QED BY <1>1, <1>2, <2>1 DEF PassedIsDeleted, Passed, NonceInv, WalletTypeInv, WalletTypeOK
<1>12. SharedIsReadTwice'
  BY <1>1 DEF SharedIsReadTwice, NonceInv
<1> QED BY <1>6, <1>9, <1>10, <1>11, <1>12 DEF NonceInv

LEMMA ReadNonceInv ==
    ASSUME WalletTypeInv, NonceInv, NEW r \in Requests, ReadNonce(r)
    PROVE  NonceInv'
<1> DEFINE k == KeyOf(job[r].user, job[r].address)
           n == nonces[k]
<1>1. /\ pc[r] = "get" /\ pc' = [pc EXCEPT ![r] = "del"]
      /\ found' = [found EXCEPT ![r] = n]
      /\ UNCHANGED <<nonces, challenges, job>>
  BY DEF ReadNonce, Goto
<1>2. /\ k \in Users \X Addresses
      /\ DOMAIN pc = Requests /\ DOMAIN found = Requests
  BY <1>1 DEF WalletTypeInv, WalletTypeOK, JobFits, Verifying, Verify, KeyOf
<1>3. readTwice \subseteq readTwice'
  BY DEF ReadNonce
<1>4. \A s \in Requests : s # r /\ n # None /\ found[s] = n => n \in readTwice'
  <2> SUFFICES ASSUME NEW s \in Requests, s # r, n # None, found[s] = n
               PROVE  n \in readTwice'
    OBVIOUS
  <2>1. pc[s] = "del"
    BY <1>2 DEF NonceInv, PassedIsDeleted, Passed
  <2> QED BY <2>1 DEF ReadNonce
<1>5. Numbered' /\ StoredIsIssued'
  BY <1>1 DEF NonceInv, Numbered, StoredIsIssued, Issued
<1>6. FoundIsIssued'
  <2>1. n # None => Issued(n, k)
    BY <1>2 DEF NonceInv, StoredIsIssued
  <2> QED BY <1>1, <1>2, <2>1 DEF NonceInv, FoundIsIssued, Issued, KeyOf
<1>7. PassedIsDeleted'
  BY <1>1, <1>2 DEF NonceInv, PassedIsDeleted, Passed
<1>8. SharedIsReadTwice'
  BY <1>1, <1>2, <1>3, <1>4 DEF NonceInv, SharedIsReadTwice
<1> QED BY <1>5, <1>6, <1>7, <1>8 DEF NonceInv

LEMMA DeleteNonceInv ==
    ASSUME WalletTypeInv, NonceInv, NEW r \in Requests, DeleteNonce(r)
    PROVE  NonceInv'
<1> DEFINE k == KeyOf(job[r].user, job[r].address)
<1>1. /\ pc[r] = "del"
      /\ nonces' = [nonces EXCEPT ![k] = None]
      /\ UNCHANGED <<challenges, job, readTwice>>
      /\ \/ found' = found
         \/ found' = [found EXCEPT ![r] = None]
      /\ \E l \in {"find", "done"} : pc' = [pc EXCEPT ![r] = l]
  BY DEF DeleteNonce, Goto
<1>2. /\ k \in Users \X Addresses
      /\ DOMAIN pc = Requests /\ DOMAIN found = Requests
      /\ nonces \in [Users \X Addresses -> 1..MaxNonces \cup {None}]
  BY <1>1 DEF WalletTypeInv, WalletTypeOK, JobFits, Verifying, Verify, KeyOf
<1>3. \A s \in Requests : found'[s] = found[s] \/ found'[s] = None
  BY <1>1, <1>2
<1>4. \A j \in Users \X Addresses : nonces'[j] = nonces[j] \/ nonces'[j] = None
  BY <1>1, <1>2
<1>5. Numbered' /\ StoredIsIssued'
  BY <1>1, <1>4 DEF NonceInv, Numbered, StoredIsIssued, Issued
<1>6. FoundIsIssued'
  BY <1>1, <1>3 DEF NonceInv, FoundIsIssued, Issued, KeyOf
<1>7. ASSUME NEW j \in Users \X Addresses, found[r] # None
      PROVE  nonces'[j] # found[r]
  <2>1. CASE nonces[j] = found[r]
    <3>1. Issued(found[r], j) /\ Issued(found[r], k)
      BY <1>7, <2>1 DEF NonceInv, StoredIsIssued, FoundIsIssued
    <3>2. j = k
      BY <3>1, OneKey DEF NonceInv
    <3> QED BY <1>1, <1>2, <1>7, <3>2
  <2>2. CASE nonces[j] # found[r]
    BY <1>4, <1>7, <2>2
  <2> QED BY <2>1, <2>2
<1>8. PassedIsDeleted'
  <2> SUFFICES ASSUME NEW s \in Requests, NEW j \in Users \X Addresses, Passed(s)'
               PROVE  nonces'[j] # found'[s]
    BY DEF PassedIsDeleted
  <2>1. found'[s] = found[s] /\ found[s] # None
    BY <1>3 DEF Passed
  <2>2. CASE s = r
    BY <1>7, <2>1, <2>2
  <2>3. CASE s # r
    <3>1. Passed(s)
      BY <1>1, <1>2, <2>1, <2>3 DEF Passed
    <3> QED BY <1>4, <2>1, <3>1 DEF NonceInv, PassedIsDeleted
  <2> QED BY <2>2, <2>3
<1>9. SharedIsReadTwice'
  BY <1>1, <1>3 DEF NonceInv, SharedIsReadTwice
<1> QED BY <1>5, <1>6, <1>8, <1>9 DEF NonceInv

(* Nothing else takes a nonce.                                              *)
LEMMA KeepsNonces ==
    ASSUME NonceInv, UNCHANGED <<nonces, challenges, found, readTwice>>,
           \A r \in Requests : found[r] # None => UNCHANGED job[r],
           \A r \in Requests : Passed(r)' => Passed(r)
    PROVE  NonceInv'
<1>1. Numbered' /\ StoredIsIssued'
  BY DEF NonceInv, Numbered, StoredIsIssued, Issued
<1>2. FoundIsIssued'
  BY DEF NonceInv, FoundIsIssued, Issued
<1>3. PassedIsDeleted'
  BY DEF NonceInv, PassedIsDeleted
<1>4. SharedIsReadTwice'
  BY DEF NonceInv, SharedIsReadTwice
<1> QED BY <1>1, <1>2, <1>3, <1>4 DEF NonceInv

LEMMA NextNonceInv == ASSUME WalletTypeInv, NonceInv, [WalletNext]_walletVars PROVE NonceInv'
<1> USE DEF Goto
<1>1. CASE UNCHANGED walletVars
  BY <1>1, KeepsNonces DEF walletVars, Passed
<1>2. ASSUME NEW u \in Users, NEW a \in Addresses, Challenge(u, a)
      PROVE  NonceInv'
  BY <1>2, ChallengeNonceInv
<1>3. ASSUME NEW k \in Users \X Addresses, NonceExpires(k)
      PROVE  NonceInv'
  <2>1. /\ \A j \in Users \X Addresses : nonces'[j] = nonces[j] \/ nonces'[j] = None
        /\ UNCHANGED <<challenges, job, pc, found, readTwice>>
    BY <1>3 DEF NonceExpires, WalletTypeInv, WalletTypeOK
  <2>2. Numbered' /\ StoredIsIssued' /\ FoundIsIssued' /\ SharedIsReadTwice'
    BY <2>1 DEF NonceInv, Numbered, StoredIsIssued, FoundIsIssued, SharedIsReadTwice, Issued
  <2>3. PassedIsDeleted'
    BY <2>1 DEF NonceInv, PassedIsDeleted, Passed
  <2> QED BY <2>2, <2>3 DEF NonceInv
<1>4. ASSUME NEW r \in Requests, NEW u \in Users,
             (\E a \in Addresses : VerifyCall(r, u, a)) \/ (\E k \in {"on", "off"} : SwitchCall(r, u, k))
      PROVE  NonceInv'
  <2>1. /\ found[r] = None
        /\ \A s \in Requests : s # r => UNCHANGED <<job[s], pc[s]>>
        /\ UNCHANGED <<nonces, challenges, found, readTwice>>
    BY <1>4 DEF VerifyCall, SwitchCall, WalletTypeInv, WalletTypeOK, JobFits
  <2> QED BY <2>1, KeepsNonces DEF Passed
<1>5. ASSUME NEW r \in Requests,
             \/ FindAddress(r) \/ CreateWallet(r) \/ MarkVerified(r) \/ ListWallets(r)
             \/ SetEnabled(r) \/ RecordSwitch(r) \/ PublishSwitch(r)
      PROVE  NonceInv'
  <2>1. UNCHANGED <<nonces, challenges, found, readTwice, job>>
    BY <1>5 DEF FindAddress, CreateWallet, MarkVerified, ListWallets, SetEnabled,
                RecordSwitch, PublishSwitch
  <2>2. pc[r] # "del" /\ \A s \in Requests : s # r => UNCHANGED pc[s]
    BY <1>5 DEF FindAddress, CreateWallet, MarkVerified, ListWallets, SetEnabled,
                RecordSwitch, PublishSwitch, WalletTypeInv, WalletTypeOK
  <2> QED BY <2>1, <2>2, KeepsNonces DEF Passed
<1>6. ASSUME NEW r \in Requests, Fails(r)
      PROVE  NonceInv'
  <2>1. UNCHANGED <<nonces, challenges, readTwice, job>>
    BY <1>6 DEF Fails
  <2>2. /\ \A s \in Requests : s # r => UNCHANGED <<pc[s], found[s]>>
        /\ found'[r] = IF pc[r] = "del" THEN None ELSE found[r]
    BY <1>6 DEF Fails, WalletTypeInv, WalletTypeOK
  <2>3. \A s \in Requests : found'[s] = found[s] \/ found'[s] = None
    BY <2>2
  <2>4. \A s \in Requests : Passed(s)' => Passed(s)
    BY <2>2 DEF Passed
  <2>5. Numbered' /\ StoredIsIssued'
    BY <2>1 DEF NonceInv, Numbered, StoredIsIssued, Issued
  <2>6. FoundIsIssued'
    BY <2>1, <2>3 DEF NonceInv, FoundIsIssued, Issued
  <2>7. PassedIsDeleted'
    BY <2>1, <2>3, <2>4 DEF NonceInv, PassedIsDeleted, Passed
  <2>8. SharedIsReadTwice'
    BY <2>1, <2>3 DEF NonceInv, SharedIsReadTwice
  <2> QED BY <2>5, <2>6, <2>7, <2>8 DEF NonceInv
<1> QED
  BY <1>1, <1>2, <1>3, <1>4, <1>5, <1>6, ReadNonceInv, DeleteNonceInv DEF WalletNext, Handler

(* NonceUsedOnce: of any number of requests with a nonce one passes, unless *)
(* they read it before the first of them deleted it.                        *)
THEOREM NonceUsedOnceHolds == WalletSpec => []NonceUsedOnce
<1>1. WalletInit => WalletTypeInv /\ NonceInv
  BY WalletInitTypeInv, InitNonceInv
<1>2. WalletTypeInv /\ NonceInv /\ [WalletNext]_walletVars => (WalletTypeInv /\ NonceInv)'
  BY WalletNextTypeInv, NextNonceInv
<1>3. NonceInv => NonceUsedOnce
  BY DEF NonceInv, SharedIsReadTwice, NonceUsedOnce, Passed
<1> QED BY <1>1, <1>2, <1>3, PTL DEF WalletSpec

-----------------------------------------------------------------------------
(***************************************************************************)
(* The live-trading switch and its record.                                 *)
(***************************************************************************)
(* An account that is clean has no two switches between their writes, and   *)
(* the one it may have is the one its flag is from.                         *)
OnRecord(u) ==
    /\ Unrecorded(u) = {} => (recorded[u] = "on" <=> u \in enabled)
    /\ \A r \in Unrecorded(u) : /\ Unrecorded(u) = {r}
                                /\ job[r].kind = "on" <=> u \in enabled

SwitchInv == \A u \in clean : OnRecord(u)

LEMMA InitSwitchInv == ASSUME WalletInit PROVE SwitchInv
BY DEF WalletInit, SwitchInv, OnRecord, Unrecorded

LEMMA KeepsSwitches ==
    ASSUME SwitchInv, UNCHANGED <<clean, recorded, enabled>>,
           \A u \in Users : UNCHANGED Unrecorded(u),
           \A r \in Requests : pc[r] = "audit" => UNCHANGED job[r],
           clean \subseteq Users
    PROVE  SwitchInv'
BY DEF SwitchInv, OnRecord, Unrecorded

LEMMA SetEnabledInv ==
    ASSUME WalletTypeInv, SwitchInv, NEW r \in Requests, SetEnabled(r)
    PROVE  SwitchInv'
<1> DEFINE v == job[r].user
<1>1. /\ pc[r] = "set" /\ pc' = [pc EXCEPT ![r] = "audit"]
      /\ enabled' = IF job[r].kind = "on" THEN enabled \cup {v} ELSE enabled \ {v}
      /\ clean' = IF Unrecorded(v) = {} THEN clean \cup {v} ELSE clean \ {v}
      /\ UNCHANGED <<job, recorded>>
  BY DEF SetEnabled, Goto
<1>2. DOMAIN pc = Requests /\ clean \subseteq Users /\ v \in Users
  BY <1>1 DEF WalletTypeInv, WalletTypeOK, JobFits, Switching, Switch
<1>3. Unrecorded(v)' = Unrecorded(v) \cup {r}
  BY <1>1, <1>2 DEF Unrecorded
<1>4. \A u \in Users : u # v => Unrecorded(u)' = Unrecorded(u)
  BY <1>1, <1>2 DEF Unrecorded
<1> SUFFICES ASSUME NEW u \in clean'
             PROVE  OnRecord(u)'
  BY DEF SwitchInv
<1>5. CASE u = v
  <2>1. Unrecorded(v) = {}
    BY <1>1, <1>5
  <2>2. Unrecorded(v)' = {r}
    BY <1>3, <2>1
  <2> QED BY <1>1, <1>5, <2>2 DEF OnRecord
<1>6. CASE u # v
  <2>1. u \in clean /\ u \in Users
    BY <1>1, <1>2, <1>6
  <2>2. Unrecorded(u)' = Unrecorded(u) /\ (u \in enabled' <=> u \in enabled)
    BY <1>1, <1>4, <1>6, <2>1
  <2> QED BY <1>1, <2>1, <2>2 DEF SwitchInv, OnRecord
<1> QED BY <1>5, <1>6

LEMMA RecordSwitchInv ==
    ASSUME WalletTypeInv, SwitchInv, NEW r \in Requests, RecordSwitch(r)
    PROVE  SwitchInv'
<1> DEFINE v == job[r].user
<1>1. /\ pc[r] = "audit" /\ pc' = [pc EXCEPT ![r] = "publish"]
      /\ recorded' = [recorded EXCEPT ![v] = job[r].kind]
      /\ UNCHANGED <<job, enabled, clean>>
  BY DEF RecordSwitch, Goto
<1>2. /\ DOMAIN pc = Requests /\ clean \subseteq Users /\ v \in Users
      /\ DOMAIN recorded = Users
  BY <1>1 DEF WalletTypeInv, WalletTypeOK, JobFits, Switching, Switch
<1>3. r \in Unrecorded(v) /\ Unrecorded(v)' = Unrecorded(v) \ {r}
  BY <1>1, <1>2 DEF Unrecorded
<1>4. \A u \in Users : u # v => Unrecorded(u)' = Unrecorded(u)
  BY <1>1, <1>2 DEF Unrecorded
<1> SUFFICES ASSUME NEW u \in clean
             PROVE  OnRecord(u)'
  BY <1>1 DEF SwitchInv
<1>5. CASE u = v
  <2>1. Unrecorded(v) = {r} /\ (job[r].kind = "on" <=> v \in enabled)
    BY <1>3, <1>5 DEF SwitchInv, OnRecord
  <2>2. Unrecorded(v)' = {}
    BY <1>3, <2>1
  <2> QED BY <1>1, <1>2, <1>5, <2>1, <2>2 DEF OnRecord
<1>6. CASE u # v
  BY <1>1, <1>2, <1>4, <1>6 DEF SwitchInv, OnRecord
<1> QED BY <1>5, <1>6

LEMMA FailsSwitchInv ==
    ASSUME WalletTypeInv, SwitchInv, NEW r \in Requests, Fails(r)
    PROVE  SwitchInv'
<1>1. /\ pc' = [pc EXCEPT ![r] = "done"]
      /\ clean' = IF pc[r] = "audit" THEN clean \ {job[r].user} ELSE clean
      /\ UNCHANGED <<job, enabled, recorded>>
  BY DEF Fails, Goto
<1>2. DOMAIN pc = Requests /\ clean \subseteq Users
  BY DEF WalletTypeInv, WalletTypeOK
<1>3. \A u \in clean' : u \in clean /\ Unrecorded(u)' = Unrecorded(u)
  BY <1>1, <1>2 DEF Unrecorded
<1> SUFFICES ASSUME NEW u \in clean'
             PROVE  OnRecord(u)'
  BY DEF SwitchInv
<1>4. u \in clean /\ Unrecorded(u)' = Unrecorded(u)
  BY <1>3
<1> QED BY <1>1, <1>4 DEF SwitchInv, OnRecord

LEMMA NextSwitchInv == ASSUME WalletTypeInv, SwitchInv, [WalletNext]_walletVars PROVE SwitchInv'
<1>0. clean \subseteq Users
  BY DEF WalletTypeInv, WalletTypeOK
<1>1. CASE UNCHANGED walletVars
  BY <1>0, <1>1, KeepsSwitches DEF walletVars, Unrecorded
<1>2. CASE \/ \E u \in Users, a \in Addresses : Challenge(u, a)
           \/ \E k \in Users \X Addresses : NonceExpires(k)
  <2>1. UNCHANGED <<clean, recorded, enabled, job, pc>>
    BY <1>2 DEF Challenge, NonceExpires
  <2> QED BY <1>0, <2>1, KeepsSwitches DEF Unrecorded
<1>3. ASSUME NEW r \in Requests, NEW u \in Users,
             (\E a \in Addresses : VerifyCall(r, u, a)) \/ (\E k \in {"on", "off"} : SwitchCall(r, u, k))
      PROVE  SwitchInv'
  <2>1. /\ pc[r] = "new" /\ pc'[r] # "audit"
        /\ \A s \in Requests : s # r => UNCHANGED <<job[s], pc[s]>>
        /\ UNCHANGED <<clean, recorded, enabled>>
    BY <1>3 DEF VerifyCall, SwitchCall, Goto, WalletTypeInv, WalletTypeOK
  <2>2. \A v \in Users : UNCHANGED Unrecorded(v)
    BY <2>1 DEF Unrecorded
  <2>3. \A s \in Requests : pc[s] = "audit" => UNCHANGED job[s]
    BY <2>1
  <2> QED BY <1>0, <2>1, <2>2, <2>3, KeepsSwitches
<1>4. ASSUME NEW r \in Requests,
             \/ ReadNonce(r) \/ DeleteNonce(r) \/ FindAddress(r) \/ CreateWallet(r)
             \/ MarkVerified(r) \/ ListWallets(r) \/ PublishSwitch(r)
      PROVE  SwitchInv'
  <2>1. UNCHANGED <<clean, recorded, enabled, job>>
    BY <1>4 DEF ReadNonce, DeleteNonce, FindAddress, CreateWallet, MarkVerified, ListWallets,
                PublishSwitch
  <2>2. /\ pc[r] # "audit" /\ pc'[r] # "audit"
        /\ \A s \in Requests : s # r => UNCHANGED pc[s]
    <3>1. \E l : l # "audit" /\ pc' = [pc EXCEPT ![r] = l]
      BY <1>4, Zenon DEF ReadNonce, DeleteNonce, FindAddress, CreateWallet, MarkVerified,
                  ListWallets, PublishSwitch, Goto
    <3>2. pc[r] # "audit"
      BY <1>4 DEF ReadNonce, DeleteNonce, FindAddress, CreateWallet, MarkVerified,
                  ListWallets, PublishSwitch
    <3> QED BY <3>1, <3>2 DEF WalletTypeInv, WalletTypeOK
  <2>3. \A v \in Users : UNCHANGED Unrecorded(v)
    BY <2>1, <2>2 DEF Unrecorded
  <2> QED BY <1>0, <2>1, <2>3, KeepsSwitches
<1> QED
  BY <1>1, <1>2, <1>3, <1>4, SetEnabledInv, RecordSwitchInv, FailsSwitchInv
  DEF WalletNext, Handler

(* SwitchOnRecord: however the switches of an account cross or fail.        *)
THEOREM SwitchOnRecordHolds == WalletSpec => []SwitchOnRecord
<1>1. WalletInit => WalletTypeInv /\ SwitchInv
  BY WalletInitTypeInv, InitSwitchInv
<1>2. WalletTypeInv /\ SwitchInv /\ [WalletNext]_walletVars => (WalletTypeInv /\ SwitchInv)'
  BY WalletNextTypeInv, NextSwitchInv
<1>3. SwitchInv => SwitchOnRecord
  BY DEF SwitchInv, OnRecord, SwitchOnRecord
<1> QED BY <1>1, <1>2, <1>3, PTL DEF WalletSpec

-----------------------------------------------------------------------------
(***************************************************************************)
(* Wallets.                                                                *)
(***************************************************************************)
(* An account was challenged for an address and has signed.                 *)
ProvedFor(u, a) == \E c \in Signed : c.user = u /\ c.address = a

(* What a request knows at each of its awaits.                              *)
Knows(r) ==
    /\ pc[r] \in Verifying => job[r].signs \in Signed \cup {None}
    /\ pc[r] \in {"find", "create", "mark"} => ProvedFor(job[r].user, job[r].address)
    /\ pc[r] = "mark" => wallets[job[r].address].user = job[r].user
    /\ pc[r] = "set" /\ job[r].kind = "on" => HasVerifiedWallet(job[r].user)

RowIsProved(a) ==
    \A u : wallets[a].verified /\ wallets[a].user = u => ProvedFor(u, a)

RowsAreProved == \A a \in Addresses : RowIsProved(a)

LinkInv == RowsAreProved /\ \A r \in Requests : Knows(r)

LEMMA InitLinkInv == ASSUME WalletInit PROVE LinkInv
BY DEF WalletInit, LinkInv, RowsAreProved, RowIsProved, Knows, Unlinked, Verifying

(* Only an account of the table proves anything.                            *)
LEMMA ProversAreUsers ==
    ASSUME WalletTypeInv, NEW u, NEW a, ProvedFor(u, a)
    PROVE  u \in Users /\ u # None
BY DEF ProvedFor, Signed, WalletTypeInv, WalletTypeOK, Challenges

(* Rows keep their account, verified ones stay so, and challenges are kept. *)
Grows ==
    /\ challenges \subseteq challenges'
    /\ \A a \in Addresses :
          /\ wallets[a].user # None => wallets'[a].user = wallets[a].user
          /\ wallets[a].verified => wallets'[a].verified

LEMMA StaysProved ==
    ASSUME Grows, NEW u, NEW a, ProvedFor(u, a)
    PROVE  ProvedFor(u, a)'
BY DEF Grows, ProvedFor, Signed

LEMMA StillKnows ==
    ASSUME WalletTypeInv, LinkInv, Grows, NEW r \in Requests, UNCHANGED <<pc[r], job[r]>>
    PROVE  Knows(r)'
<1>1. pc[r] \in Verifying => job[r] \in Verify
  BY DEF WalletTypeInv, JobFits
<1>2. pc[r] = "set" => job[r] \in Switch
  BY DEF WalletTypeInv, JobFits, Switching
<1>3. Signed \subseteq Signed'
  BY DEF Grows, Signed
<1>4. (pc[r] \in Verifying => job[r].signs \in Signed \cup {None})'
  BY <1>3 DEF LinkInv, Knows
<1>5. (pc[r] \in {"find", "create", "mark"} => ProvedFor(job[r].user, job[r].address))'
  <2>1. CASE pc[r] \in {"find", "create", "mark"}
    <3>1. ProvedFor(job[r].user, job[r].address)
      BY <2>1 DEF LinkInv, Knows
    <3> QED BY <1>3, <3>1 DEF ProvedFor
  <2> QED BY <2>1
<1>6. (pc[r] = "mark" => wallets[job[r].address].user = job[r].user)'
  <2>1. CASE pc[r] = "mark"
    <3> DEFINE a == job[r].address
    <3>1. a \in Addresses /\ job[r].user # None
      BY <1>1, <2>1 DEF Verifying, Verify
    <3>2. wallets[a].user = job[r].user
      BY <2>1 DEF LinkInv, Knows
    <3>3. wallets'[a].user = wallets[a].user
      BY <3>1, <3>2 DEF Grows
    <3> QED BY <3>2, <3>3
  <2> QED BY <2>1
<1>7. (pc[r] = "set" /\ job[r].kind = "on" => HasVerifiedWallet(job[r].user))'
  <2>1. pc[r] = "set" => job[r].user # None
    BY <1>2 DEF Switch
  <2> QED BY <2>1 DEF LinkInv, Knows, Grows, HasVerifiedWallet
<1> QED BY <1>4, <1>5, <1>6, <1>7 DEF Knows

(* A row that is as it was, or no longer verified, is as proved as it was.  *)
LEMMA RowStaysProved ==
    ASSUME LinkInv, Grows, NEW a \in Addresses,
           wallets'[a].verified => wallets[a].verified /\ wallets'[a].user = wallets[a].user
    PROVE  RowIsProved(a)'
<1>1. \A u : wallets'[a].verified /\ wallets'[a].user = u => ProvedFor(u, a)
  BY DEF LinkInv, RowsAreProved, RowIsProved
<1>2. \A u : ProvedFor(u, a) => ProvedFor(u, a)'
  BY StaysProved
<1> QED BY <1>1, <1>2 DEF RowIsProved

LEMMA RowsStayProved ==
    ASSUME LinkInv, Grows, UNCHANGED wallets
    PROVE  RowsAreProved'
BY RowStaysProved DEF RowsAreProved

(* A request goes on: what the others know they still know.                 *)
LEMMA OneKnowsMore ==
    ASSUME WalletTypeInv, LinkInv, Grows, RowsAreProved', NEW r \in Requests, Knows(r)',
           \A s \in Requests : s # r => UNCHANGED <<pc[s], job[s]>>
    PROVE  LinkInv'
BY StillKnows DEF LinkInv

LEMMA DeleteLinkInv ==
    ASSUME WalletTypeInv, NonceInv, LinkInv, NEW r \in Requests, DeleteNonce(r)
    PROVE  LinkInv'
<1>1. /\ pc[r] = "del" /\ UNCHANGED <<challenges, wallets, job>>
      /\ \/ SignatureValid(r) /\ pc' = [pc EXCEPT ![r] = "find"]
         \/ pc' = [pc EXCEPT ![r] = "done"]
  BY DEF DeleteNonce, Goto
<1>2. Grows /\ DOMAIN pc = Requests
  BY <1>1 DEF Grows, WalletTypeInv, WalletTypeOK
<1>3. ASSUME SignatureValid(r)
      PROVE  ProvedFor(job[r].user, job[r].address)
  <2> DEFINE c == job[r].signs
  <2>1. c \in Signed /\ c.nonce = found[r] /\ c.address = job[r].address
    BY <1>1, <1>3 DEF SignatureValid, LinkInv, Knows, Verifying
  <2>2. PICK d \in challenges : /\ d.nonce = found[r]
                               /\ KeyOf(d.user, d.address) = KeyOf(job[r].user, job[r].address)
    BY <1>3 DEF SignatureValid, NonceInv, FoundIsIssued, Issued
  <2>3. c = d
    BY <2>1, <2>2 DEF NonceInv, Numbered, Signed
  <2>4. d.user = job[r].user
    BY <2>2 DEF KeyOf
  <2> QED BY <2>1, <2>3, <2>4 DEF ProvedFor
<1>4. Knows(r)'
  <2>1. SignatureValid(r) => (pc[r] = "find" /\ job[r].signs \in Signed \cup {None}
                              /\ ProvedFor(job[r].user, job[r].address))' \/ pc'[r] = "done"
    BY <1>1, <1>2, <1>3 DEF LinkInv, Knows, Verifying, Signed, ProvedFor
  <2>2. pc'[r] = "done" \/ SignatureValid(r)
    BY <1>1, <1>2
  <2> QED BY <2>1, <2>2 DEF Knows, Verifying
<1>5. RowsAreProved'
  BY <1>1, <1>2, RowsStayProved
<1> QED BY <1>1, <1>2, <1>4, <1>5, OneKnowsMore

LEMMA CreateLinkInv ==
    ASSUME WalletTypeInv, LinkInv, NEW r \in Requests, CreateWallet(r)
    PROVE  LinkInv' /\ UNCHANGED Linked
<1> DEFINE a == job[r].address
           u == job[r].user
<1>1. /\ pc[r] = "create" /\ UNCHANGED <<challenges, job>>
      /\ \/ /\ wallets[a].user = None
            /\ wallets' = [wallets EXCEPT ![a] = [user |-> u, verified |-> FALSE]]
            /\ pc' = [pc EXCEPT ![r] = "mark"]
         \/ UNCHANGED wallets /\ pc' = [pc EXCEPT ![r] = "done"]
  BY DEF CreateWallet, Goto
<1>2. /\ DOMAIN pc = Requests /\ a \in Addresses /\ u \in Users /\ DOMAIN wallets = Addresses
      /\ job[r].signs \in Signed \cup {None} /\ ProvedFor(u, a)
  BY <1>1 DEF WalletTypeInv, WalletTypeOK, JobFits, Verifying, Verify, LinkInv, Knows
<1>3. wallets[a].user = None => ~wallets[a].verified
  BY <1>2, ProversAreUsers DEF LinkInv, RowsAreProved, RowIsProved
<1>4. Grows
  BY <1>1, <1>2, <1>3 DEF Grows
<1>5. RowsAreProved'
  <2>1. CASE UNCHANGED wallets
    BY <1>4, <2>1, RowsStayProved
  <2>2. CASE wallets' = [wallets EXCEPT ![a] = [user |-> u, verified |-> FALSE]]
    <3>1. \A b \in Addresses : wallets'[b].verified => b # a /\ wallets'[b] = wallets[b]
      BY <1>2, <2>2
    <3> QED BY <1>4, <3>1, RowStaysProved DEF RowsAreProved
  <2> QED BY <1>1, <2>1, <2>2
<1>6. Knows(r)'
  <2>1. CASE pc'[r] = "mark"
    <3>1. wallets' = [wallets EXCEPT ![a] = [user |-> u, verified |-> FALSE]]
      BY <1>1, <1>2, <2>1
    <3>2. wallets'[a].user = u
      BY <1>2, <3>1
    <3> QED BY <1>1, <1>2, <2>1, <3>2 DEF Knows, ProvedFor, Signed
  <2>2. CASE pc'[r] = "done"
    BY <2>2 DEF Knows, Verifying
  <2> QED BY <1>1, <1>2, <2>1, <2>2
<1>7. UNCHANGED Linked
  <2>1. \A b \in Addresses :
            (IF wallets'[b].verified THEN wallets'[b].user ELSE None)
                = IF wallets[b].verified THEN wallets[b].user ELSE None
    BY <1>1, <1>2, <1>3
  <2> QED BY <2>1 DEF Linked
<1> QED BY <1>1, <1>2, <1>4, <1>5, <1>6, <1>7, OneKnowsMore

LEMMA MarkLinkInv ==
    ASSUME WalletTypeInv, LinkInv, NEW r \in Requests, MarkVerified(r)
    PROVE  /\ LinkInv'
           /\ \E u \in Users, a \in Addresses : Book!LinkWallet(u, a)
<1> DEFINE a == job[r].address
           u == job[r].user
<1>1. /\ pc[r] = "mark" /\ pc' = [pc EXCEPT ![r] = "done"]
      /\ UNCHANGED <<challenges, job, enabled>>
      /\ wallets' = [wallets EXCEPT ![a] = [user |-> wallets[a].user, verified |-> TRUE]]
  BY DEF MarkVerified, Goto
<1>2. /\ DOMAIN pc = Requests /\ a \in Addresses /\ u \in Users /\ DOMAIN wallets = Addresses
      /\ wallets[a].user = u /\ ProvedFor(u, a)
  BY <1>1 DEF WalletTypeInv, WalletTypeOK, JobFits, Verifying, Verify, LinkInv, Knows
<1>3. Grows
  BY <1>1, <1>2 DEF Grows
<1>4. RowsAreProved'
  <2>1. ASSUME NEW b \in Addresses PROVE RowIsProved(b)'
    <3>1. CASE b = a
      <4>1. PICK v \in Users : v = u
        BY <1>2
      <4>2. wallets'[b].user = v
        BY <1>1, <1>2, <3>1, <4>1
      <4>3. ProvedFor(v, b)
        BY <1>2, <3>1, <4>1
      <4>4. ProvedFor(v, b)'
        BY <1>3, <4>3, StaysProved
      <4> QED BY <4>2, <4>4 DEF RowIsProved
    <3>2. CASE b # a
      BY <1>1, <1>2, <1>3, <3>2, RowStaysProved
    <3> QED BY <3>1, <3>2
  <2> QED BY <2>1 DEF RowsAreProved
<1>5. Knows(r)'
  BY <1>1, <1>2 DEF Knows, Verifying
<1>6. LinkInv'
  BY <1>1, <1>2, <1>3, <1>4, <1>5, OneKnowsMore
<1>7. Linked[a] \in {None, u}
  BY <1>2 DEF Linked
<1>8. Linked' = [Linked EXCEPT ![a] = u]
  <2>1. \A b \in Addresses :
            (IF wallets'[b].verified THEN wallets'[b].user ELSE None)
                = IF b = a THEN u ELSE IF wallets[b].verified THEN wallets[b].user ELSE None
    BY <1>1, <1>2
  <2> QED BY <1>2, <2>1 DEF Linked
<1>9. Book!LinkWallet(u, a)
  BY <1>1, <1>7, <1>8 DEF Book!LinkWallet
<1> QED BY <1>2, <1>6, <1>9

(* The first step of a request: what it knows is what it was sent with.     *)
LEMMA CallLinkInv ==
    ASSUME WalletTypeInv, LinkInv, NEW r \in Requests, NEW u \in Users,
           (\E a \in Addresses : VerifyCall(r, u, a)) \/ (\E k \in {"on", "off"} : SwitchCall(r, u, k))
    PROVE  LinkInv' /\ UNCHANGED <<Linked, enabled>>
<1>1. /\ UNCHANGED <<challenges, wallets, enabled>>
      /\ \A s \in Requests : s # r => UNCHANGED <<pc[s], job[s]>>
  BY DEF VerifyCall, SwitchCall, Goto, WalletTypeInv, WalletTypeOK
<1>2. Grows
  BY <1>1 DEF Grows
<1>3. Knows(r)'
  <2>1. \/ pc'[r] = "get" /\ job'[r].signs \in Signed \cup {None}
        \/ pc'[r] = "wallets"
        \/ pc'[r] = "set" /\ job'[r].kind = "off"
    BY DEF VerifyCall, SwitchCall, Goto, WalletTypeInv, WalletTypeOK
  <2>2. Signed' = Signed
    BY <1>1 DEF Signed
  <2> QED BY <2>1, <2>2 DEF Knows, Verifying
<1>4. UNCHANGED Linked
  BY <1>1 DEF Linked
<1> QED BY <1>1, <1>2, <1>3, <1>4, OneKnowsMore, RowsStayProved

(* The steps that neither write a row nor turn a switch.                    *)
LEMMA QuietLinkInv ==
    ASSUME WalletTypeInv, LinkInv, NEW r \in Requests,
           \/ ReadNonce(r) \/ FindAddress(r) \/ ListWallets(r)
           \/ RecordSwitch(r) \/ PublishSwitch(r) \/ Fails(r)
    PROVE  LinkInv' /\ UNCHANGED <<Linked, enabled>>
<1>1. UNCHANGED <<challenges, wallets, enabled, job>>
  BY DEF ReadNonce, FindAddress, ListWallets, RecordSwitch, PublishSwitch, Fails
<1>2. \A s \in Requests : s # r => UNCHANGED pc[s]
  <2>1. \E l : pc' = [pc EXCEPT ![r] = l]
    BY Zenon DEF ReadNonce, FindAddress, ListWallets, RecordSwitch, PublishSwitch, Fails, Goto
  <2> QED BY <2>1 DEF WalletTypeInv, WalletTypeOK
<1>3. Grows
  BY <1>1 DEF Grows
<1>4. DOMAIN pc = Requests
  BY DEF WalletTypeInv, WalletTypeOK
<1>5. Knows(r)'
  <2>1. CASE ReadNonce(r)
    <3>1. pc[r] = "get" /\ pc'[r] = "del"
      BY <1>4, <2>1 DEF ReadNonce, Goto
    <3> QED BY <1>1, <3>1 DEF LinkInv, Knows, Verifying, Signed
  <2>2. CASE FindAddress(r)
    <3>1. /\ pc[r] = "find"
          /\ \/ pc'[r] = "create" \/ pc'[r] = "done"
             \/ pc'[r] = "mark" /\ wallets[job[r].address].user = job[r].user
      BY <1>4, <2>2 DEF FindAddress, Goto
    <3> QED BY <1>1, <3>1 DEF LinkInv, Knows, Verifying, Signed, ProvedFor
  <2>3. CASE ListWallets(r)
    <3>1. (pc'[r] = "set" /\ HasVerifiedWallet(job[r].user)) \/ pc'[r] = "done"
      BY <1>4, <2>3 DEF ListWallets, Goto
    <3> QED BY <1>1, <3>1 DEF Knows, Verifying, HasVerifiedWallet
  <2>4. CASE RecordSwitch(r) \/ PublishSwitch(r) \/ Fails(r)
    <3>1. pc'[r] \in {"publish", "done"}
      BY <1>4, <2>4 DEF RecordSwitch, PublishSwitch, Fails, Goto
    <3> QED BY <3>1 DEF Knows, Verifying
  <2> QED BY <2>1, <2>2, <2>3, <2>4
<1>6. UNCHANGED Linked
  BY <1>1 DEF Linked
<1> QED BY <1>1, <1>2, <1>3, <1>5, <1>6, OneKnowsMore, RowsStayProved

(* The switch: an account that is opened has an address that is linked.     *)
LEMMA SwitchLinkInv ==
    ASSUME WalletTypeInv, LinkInv, NEW r \in Requests, SetEnabled(r)
    PROVE  /\ LinkInv'
           /\ \E u \in Users : Book!TurnOn(u) \/ Book!TurnOff(u)
<1> DEFINE u == job[r].user
<1>1. /\ pc[r] = "set" /\ pc' = [pc EXCEPT ![r] = "audit"]
      /\ UNCHANGED <<challenges, wallets, job>>
      /\ enabled' = IF job[r].kind = "on" THEN enabled \cup {u} ELSE enabled \ {u}
  BY DEF SetEnabled, Goto
<1>2. DOMAIN pc = Requests /\ u \in Users
  BY <1>1 DEF WalletTypeInv, WalletTypeOK, JobFits, Switching, Switch
<1>3. Grows
  BY <1>1 DEF Grows
<1>4. LinkInv'
  <2>1. Knows(r)'
    BY <1>1, <1>2 DEF Knows, Verifying
  <2> QED BY <1>1, <1>2, <1>3, <2>1, OneKnowsMore, RowsStayProved
<1>5. UNCHANGED Linked
  BY <1>1 DEF Linked
<1>6. CASE job[r].kind = "on"
  <2>1. HasVerifiedWallet(u)
    BY <1>1, <1>6 DEF LinkInv, Knows
  <2>2. Book!WalletsOf(u) # {}
    BY <2>1 DEF HasVerifiedWallet, Book!WalletsOf, Linked
  <2>3. Book!TurnOn(u)
    BY <1>1, <1>5, <1>6, <2>2 DEF Book!TurnOn
  <2> QED BY <1>2, <1>4, <2>3
<1>7. CASE job[r].kind # "on"
  <2>1. Book!TurnOff(u)
    BY <1>1, <1>5, <1>7 DEF Book!TurnOff
  <2> QED BY <1>2, <1>4, <2>1
<1> QED BY <1>6, <1>7

(* Every step is a step of the book, or none.                               *)
LEMMA NextLinkInv ==
    ASSUME WalletTypeInv, NonceInv, LinkInv, [WalletNext]_walletVars
    PROVE  LinkInv' /\ [Book!BookNext]_(Book!bookVars)
<1>1. CASE UNCHANGED walletVars
  <2>1. Grows /\ UNCHANGED <<wallets, pc, job, enabled, Linked>>
    BY <1>1 DEF Grows, walletVars, Linked
  <2> QED BY <2>1, RowsStayProved, StillKnows DEF LinkInv, Book!bookVars
<1>2. CASE \/ \E u \in Users, a \in Addresses : Challenge(u, a)
           \/ \E k \in Users \X Addresses : NonceExpires(k)
  <2>1. challenges \subseteq challenges' /\ UNCHANGED <<wallets, pc, job, enabled>>
    BY <1>2 DEF Challenge, NonceExpires
  <2>2. Grows /\ UNCHANGED Linked
    BY <2>1 DEF Grows, Linked
  <2> QED BY <2>1, <2>2, RowsStayProved, StillKnows DEF LinkInv, Book!bookVars
<1>3. ASSUME NEW r \in Requests, NEW u \in Users,
             (\E a \in Addresses : VerifyCall(r, u, a)) \/ (\E k \in {"on", "off"} : SwitchCall(r, u, k))
      PROVE  LinkInv' /\ UNCHANGED Book!bookVars
  BY <1>3, CallLinkInv DEF Book!bookVars
<1>4. ASSUME NEW r \in Requests, ReadNonce(r) \/ FindAddress(r) \/ ListWallets(r)
                                 \/ RecordSwitch(r) \/ PublishSwitch(r) \/ Fails(r)
      PROVE  LinkInv' /\ UNCHANGED Book!bookVars
  BY <1>4, QuietLinkInv DEF Book!bookVars
<1>5. ASSUME NEW r \in Requests, DeleteNonce(r)
      PROVE  LinkInv' /\ UNCHANGED Book!bookVars
  <2>1. UNCHANGED <<wallets, enabled>>
    BY <1>5 DEF DeleteNonce
  <2> QED BY <1>5, <2>1, DeleteLinkInv DEF Book!bookVars, Linked
<1>6. ASSUME NEW r \in Requests, CreateWallet(r)
      PROVE  LinkInv' /\ UNCHANGED Book!bookVars
  <2>1. UNCHANGED enabled
    BY <1>6 DEF CreateWallet
  <2> QED BY <1>6, <2>1, CreateLinkInv DEF Book!bookVars
<1>7. ASSUME NEW r \in Requests, MarkVerified(r)
      PROVE  LinkInv' /\ Book!BookNext
  BY <1>7, MarkLinkInv DEF Book!BookNext
<1>8. ASSUME NEW r \in Requests, SetEnabled(r)
      PROVE  LinkInv' /\ Book!BookNext
  BY <1>8, SwitchLinkInv DEF Book!BookNext
<1> QED
  BY <1>1, <1>2, <1>3, <1>4, <1>5, <1>6, <1>7, <1>8 DEF WalletNext, Handler

(* VerifiedIsProved: no interleaving of verifications, and no failure of    *)
(* one, verifies an address its account has not signed for.                 *)
THEOREM VerifiedIsProvedHolds == WalletSpec => []VerifiedIsProved
<1>1. WalletInit => WalletTypeInv /\ NonceInv /\ LinkInv
  BY WalletInitTypeInv, InitNonceInv, InitLinkInv
<1>2. WalletTypeInv /\ NonceInv /\ LinkInv /\ [WalletNext]_walletVars => (WalletTypeInv /\ NonceInv /\ LinkInv)'
  BY WalletNextTypeInv, NextNonceInv, NextLinkInv
<1>3. LinkInv => VerifiedIsProved
  BY DEF LinkInv, RowsAreProved, RowIsProved, ProvedFor, VerifiedIsProved
<1> QED BY <1>1, <1>2, <1>3, PTL DEF WalletSpec

(* The routes implement AccountBook, whatever the interleaving.             *)
THEOREM ImplementsBookHolds == WalletSpec => ImplementsBook
<1>1. WalletInit => WalletTypeInv /\ NonceInv /\ LinkInv /\ Book!BookInit
  <2>1. WalletInit => Book!BookInit
    BY DEF WalletInit, Book!BookInit, Linked, Unlinked
  <2> QED BY <2>1, WalletInitTypeInv, InitNonceInv, InitLinkInv
<1>2. WalletTypeInv /\ NonceInv /\ LinkInv /\ [WalletNext]_walletVars
      => (WalletTypeInv /\ NonceInv /\ LinkInv)' /\ [Book!BookNext]_(Book!bookVars)
  BY WalletNextTypeInv, NextNonceInv, NextLinkInv
<1> QED BY <1>1, <1>2, PTL DEF WalletSpec, ImplementsBook, Book!BookSpec

(* WalletInv: verifications, nonces and switches together.                  *)
THEOREM WalletInvHolds == WalletSpec => []WalletInv
<1>1. WalletTypeOK /\ VerifiedIsProved /\ NonceUsedOnce /\ SwitchOnRecord => WalletInv
  BY DEF WalletInv
<1> QED BY <1>1, WalletTypeCorrect, VerifiedIsProvedHolds, NonceUsedOnceHolds, SwitchOnRecordHolds, PTL

HIDE WalletAssumption

-----------------------------------------------------------------------------
(***************************************************************************)
(* Broadcast.  What is in the stream of orders is of a row that has got as *)
(* far; what a socket looks up of a filled order, once the event of that   *)
(* is in the stream, is filled; and a portfolio newer than a client's last *)
(* event has been sent, is in flight, or will be built.                    *)
(***************************************************************************)
OrderStage == [order : PaperOrders, status : {Live, Filled, Nothing}]

Produced ==
    /\ stage \in [PaperOrders -> Stages]
    /\ events \in [BcStreams -> Seq(OrderStage)]
    /\ \A i \in 1..Len(events["order"]) :
          \/ events["order"][i].status = Live /\ stage[events["order"][i].order] >= 2
          \/ events["order"][i].status = Filled /\ stage[events["order"][i].order] >= 5
    /\ \A i, j \in 1..Len(events["order"]) :
          /\ events["order"][i].order = events["order"][j].order
          /\ events["order"][i].status = Live /\ events["order"][j].status = Filled
          => i < j
    /\ \A o \in PaperOrders : stage[o] >= 5 =>
          \E i \in 1..Len(events["order"]) : events["order"][i].order = o /\ events["order"][i].status = Filled
    /\ \A i \in 1..Len(events["fill"]) : stage[events["fill"][i].order] >= 3

Looping ==
    /\ loops \in [BcStreams -> {"off", "creating", "on"}]
    /\ cursor \in [BcStreams -> Nat \cup {Nothing}] /\ sent \in [BcStreams -> Nat]
    /\ \A s \in BcStreams :
          /\ cursor[s] # Nothing => cursor[s] <= Len(events[s])
          /\ loops[s] = "on" => cursor[s] # Nothing /\ sent[s] <= cursor[s]

LookingUp ==
    /\ open \subseteq Clients /\ tasks \subseteq BcTask
    /\ \A t \in tasks :
          /\ t.client \in open
          /\ t.kind = "order" => /\ stage[t.order] >= 3
                                 /\ t.got \in {Nothing, Live, Filled}
                                 /\ t.got = Filled => stage[t.order] >= 4
          /\ t.kind = "owner" => t.got = Nothing

(* The events of the group that are not to be handed out any more.          *)
Position ==
    IF loops["order"] = "on" THEN sent["order"]
    ELSE IF cursor["order"] = Nothing THEN 0 ELSE cursor["order"]

Past(o) == \E i \in 1..Len(events["order"]) :
    i <= Position /\ events["order"][i].order = o /\ events["order"][i].status = Filled

BelievesLive(c, o) ==
    \/ shown[c][o] = Live
    \/ \E t \in tasks : t.client = c /\ t.order = o /\ t.kind = "order" /\ t.got = Live

Showing ==
    /\ shown \in [Clients -> [PaperOrders -> {Nothing, Live, Filled}]]
    /\ \A c \in Clients : \A o \in PaperOrders :
          /\ shown[c][o] # Nothing => o \in Sees[c] /\ stage[o] >= 1 /\ c \in open
          /\ shown[c][o] = Filled => stage[o] >= 4
    /\ \A c \in open \ OfPortfolio : \A o \in PaperOrders :
          <<c, o>> \notin excused /\ Past(o) => ~BelievesLive(c, o)

Built(c) == {t \in tasks : t.client = c /\ t.kind = "portfolio" /\ t.got # Nothing}

WillBuild(c) == \E t \in tasks : t.client = c /\ t.kind = "portfolio" /\ t.got = Nothing

Portfolios ==
    /\ portfolio \in [Clients -> Nat \cup {Nothing}]
    /\ atEvent \in [Clients -> Nat]
    /\ \A c \in Clients : atEvent[c] <= Positions(c)
    /\ \A c \in OfPortfolio \ crossed :
          /\ \A t, u \in Built(c) : t = u
          /\ ~WillBuild(c) =>
                /\ \A t \in Built(c) : atEvent[c] <= t.got
                /\ Built(c) = {} /\ portfolio[c] # Nothing => atEvent[c] <= portfolio[c]

Listening ==
    /\ crashes \in 0..MaxCrashes
    /\ \A c \in open : \A s \in BcStreams : loops[s] = "off" => <<c, s>> \in deaf

SocketsInv == Produced /\ Looping /\ LookingUp /\ Showing /\ Portfolios /\ Listening

LEMMA AppendIs ==
    ASSUME NEW T, NEW s \in Seq(T), NEW c \in T
    PROVE  /\ Append(s, c) \in Seq(T) /\ Len(Append(s, c)) = Len(s) + 1 /\ Len(s) \in Nat
           /\ \A i \in 1..Len(s) : Append(s, c)[i] = s[i]
           /\ Append(s, c)[Len(s) + 1] = c
OBVIOUS


LEMMA BcStreamsAre ==
    "order" \in BcStreams /\ "fill" \in BcStreams /\ \A s \in BcStreams : s = "order" \/ s = "fill"
BY DEF BcStreams

LEMMA EventsAre ==
    ASSUME Produced, NEW s \in BcStreams
    PROVE  events[s] \in Seq(OrderStage) /\ Len(events[s]) \in Nat
BY DEF Produced

LEMMA PositionIs ==
    ASSUME Produced, Looping
    PROVE  Position \in Nat /\ Position <= Len(events["order"])
<1>1. Len(events["order"]) \in Nat
  BY BcStreamsAre, EventsAre
<1>2. /\ cursor["order"] \in Nat \cup {Nothing} /\ sent["order"] \in Nat
      /\ cursor["order"] # Nothing => cursor["order"] <= Len(events["order"])
      /\ loops["order"] = "on" => cursor["order"] # Nothing /\ sent["order"] <= cursor["order"]
  BY BcStreamsAre DEF Looping
<1>3. CASE loops["order"] = "on"
  BY <1>1, <1>2, <1>3 DEF Position
<1>4. CASE loops["order"] # "on"
  BY <1>1, <1>2, <1>4 DEF Position
<1> QED BY <1>3, <1>4

LEMMA PositionsAre ==
    ASSUME NEW c \in Clients
    PROVE  /\ IsFiniteSet({o \in Sees[c] : stage[o] = 6}) /\ Positions(c) \in Nat
<1>1. Sees[c] \subseteq PaperOrders
  BY BroadcastAssumption
<1>2. IsFiniteSet({o \in Sees[c] : stage[o] = 6})
  BY <1>1, FS_Subset, BroadcastAssumption
<1> QED BY <1>2, FS_CardinalityType DEF Positions

LEMMA RowsAre ==
    ASSUME Produced, NEW o \in PaperOrders
    PROVE  /\ stage[o] \in 0..6
           /\ RowOf(o) = Live <=> 1 <= stage[o] /\ stage[o] <= 3
           /\ RowOf(o) = Filled <=> stage[o] >= 4
           /\ RowOf(o) \in {Nothing, Live, Filled}
BY BroadcastAssumption DEF Produced, Stages, RowOf, Live, Filled

LEMMA StatusesDiffer == Live # Filled /\ Live # Nothing /\ Filled # Nothing /\ Live \in Nat /\ Filled \in Nat
BY BroadcastAssumption DEF Live, Filled

LEMMA SocketsStart ==
    ASSUME BroadcastInit
    PROVE  SocketsInv
<1>1. /\ stage = [o \in PaperOrders |-> 0] /\ events = [s \in BcStreams |-> <<>>]
      /\ loops = [s \in BcStreams |-> "off"] /\ cursor = [s \in BcStreams |-> Nothing]
      /\ sent = [s \in BcStreams |-> 0] /\ open = {} /\ tasks = {}
      /\ shown = [c \in Clients |-> [o \in PaperOrders |-> Nothing]]
      /\ portfolio = [c \in Clients |-> Nothing] /\ crashes = 0
      /\ atEvent = [c \in Clients |-> 0]
  BY DEF BroadcastInit, Blank
<1>2. /\ events["order"] = <<>> /\ events["fill"] = <<>> /\ Len(events["order"]) = 0 /\ Len(events["fill"]) = 0
      /\ events \in [BcStreams -> Seq(OrderStage)]
  BY <1>1, BcStreamsAre
<1>3. Produced
  BY <1>1, <1>2 DEF Produced, Stages
<1>4. Looping
  BY <1>1 DEF Looping
<1>5. LookingUp
  BY <1>1 DEF LookingUp
<1>6. Showing
  BY <1>1, StatusesDiffer DEF Showing
<1>7. Portfolios
  <2>1. ASSUME NEW c \in Clients
        PROVE  atEvent[c] <= Positions(c) /\ portfolio[c] = Nothing /\ Built(c) = {}
    <3>1. Positions(c) \in Nat
      BY PositionsAre
    <3>2. atEvent[c] = 0 /\ portfolio[c] = Nothing /\ Built(c) = {}
      BY <1>1 DEF Built
    <3> QED BY <3>1, <3>2
  <2>2. portfolio \in [Clients -> Nat \cup {Nothing}] /\ atEvent \in [Clients -> Nat]
    BY <1>1
  <2>3. OfPortfolio \subseteq Clients
    BY BroadcastAssumption
  <2> QED BY <2>1, <2>2, <2>3 DEF Portfolios
<1>8. Listening
  BY <1>1, BroadcastAssumption DEF Listening
<1> QED BY <1>3, <1>4, <1>5, <1>6, <1>7, <1>8 DEF SocketsInv

-----------------------------------------------------------------------------
(* The order.                                                               *)
LEMMA PlacesGrows ==
    ASSUME SocketsInv, NEW o \in PaperOrders, Places(o)
    PROVE  /\ stage[o] \in 0..5
           /\ stage' \in [PaperOrders -> Stages]
           /\ \A x \in PaperOrders : stage'[x] = IF x = o THEN stage[o] + 1 ELSE stage[x]
           /\ events' \in [BcStreams -> Seq(OrderStage)]
           /\ \A s \in BcStreams :
                 /\ Len(events'[s]) \in Nat /\ Len(events[s]) \in Nat /\ Len(events'[s]) >= Len(events[s])
                 /\ \A i \in 1..Len(events[s]) : events'[s][i] = events[s][i]
           /\ IF stage[o] \in {1, 4}
              THEN /\ Len(events'["order"]) = Len(events["order"]) + 1
                   /\ events'["order"][Len(events["order"]) + 1]
                        = [order |-> o, status |-> IF stage[o] = 1 THEN Live ELSE Filled]
              ELSE events'["order"] = events["order"]
           /\ IF stage[o] = 2
              THEN /\ Len(events'["fill"]) = Len(events["fill"]) + 1
                   /\ events'["fill"][Len(events["fill"]) + 1].order = o
              ELSE events'["fill"] = events["fill"]
<1>1. Produced /\ stage \in [PaperOrders -> Stages] /\ events \in [BcStreams -> Seq(OrderStage)]
  BY DEF SocketsInv, Produced
<1>2. stage[o] < 6 /\ stage' = [stage EXCEPT ![o] = @ + 1] /\ Publishes(o)
  BY DEF Places
<1>3. stage[o] \in 0..5
  BY <1>1, <1>2 DEF Stages
<1>4. /\ stage' \in [PaperOrders -> Stages]
      /\ \A x \in PaperOrders : stage'[x] = IF x = o THEN stage[o] + 1 ELSE stage[x]
  BY <1>1, <1>2, <1>3 DEF Stages
<1> DEFINE e(st) == [order |-> o, status |-> st]
<1>5. \A st \in {Live, Filled, Nothing} : e(st) \in OrderStage /\ e(st).order = o
  BY DEF OrderStage
<1>6. ASSUME NEW q \in BcStreams, NEW st \in {Live, Filled, Nothing},
             events' = [events EXCEPT ![q] = Append(@, e(st))]
      PROVE  /\ events' \in [BcStreams -> Seq(OrderStage)]
             /\ Len(events'[q]) = Len(events[q]) + 1 /\ events'[q][Len(events[q]) + 1] = e(st)
             /\ \A s \in BcStreams :
                   /\ Len(events'[s]) \in Nat /\ Len(events[s]) \in Nat /\ Len(events'[s]) >= Len(events[s])
                   /\ \A i \in 1..Len(events[s]) : events'[s][i] = events[s][i]
                   /\ s # q => events'[s] = events[s]
  <2> DEFINE a == Append(events[q], e(st))
  <2>1. /\ a \in Seq(OrderStage) /\ Len(a) = Len(events[q]) + 1 /\ Len(events[q]) \in Nat
        /\ \A i \in 1..Len(events[q]) : a[i] = events[q][i]
        /\ a[Len(events[q]) + 1] = e(st)
    <3> HIDE DEF e
    <3>1. events[q] \in Seq(OrderStage) /\ e(st) \in OrderStage
      BY <1>1, <1>5
    <3> QED BY <3>1, AppendIs
  <2> HIDE DEF a
  <2>2. events' = [events EXCEPT ![q] = a]
    BY <1>1, <1>6 DEF a
  <2>3. \A s \in BcStreams : Len(events[s]) \in Nat
    BY <1>1
  <2>4. events'[q] = a /\ \A s \in BcStreams : s # q => events'[s] = events[s]
    BY <1>1, <2>2
  <2>5. events' \in [BcStreams -> Seq(OrderStage)]
    BY <1>1, <2>1, <2>2
  <2>6. ASSUME NEW s \in BcStreams
        PROVE  /\ Len(events'[s]) \in Nat /\ Len(events[s]) \in Nat /\ Len(events'[s]) >= Len(events[s])
               /\ \A i \in 1..Len(events[s]) : events'[s][i] = events[s][i]
    <3>1. CASE s = q
      BY <2>1, <2>4, <3>1
    <3>2. CASE s # q
      BY <2>3, <2>4, <3>2
    <3> QED BY <3>1, <3>2
  <2> QED BY <2>1, <2>4, <2>5, <2>6
<1>7. CASE stage[o] \in {1, 4}
  <2> DEFINE st == IF stage[o] = 1 THEN Live ELSE Filled
  <2>1. events' = [events EXCEPT !["order"] = Append(@, e(st))]
    BY <1>2, <1>7 DEF Publishes
  <2>2. st \in {Live, Filled, Nothing}
    OBVIOUS
  <2>3. e(st) = [order |-> o, status |-> IF stage[o] = 1 THEN Live ELSE Filled]
    OBVIOUS
  <2> HIDE DEF e, st
  <2>4. "fill" # "order" /\ stage[o] # 2
    BY <1>7
  <2>5. /\ events' \in [BcStreams -> Seq(OrderStage)]
        /\ Len(events'["order"]) = Len(events["order"]) + 1 /\ events'["order"][Len(events["order"]) + 1] = e(st)
        /\ \A s \in BcStreams :
              /\ Len(events'[s]) \in Nat /\ Len(events[s]) \in Nat /\ Len(events'[s]) >= Len(events[s])
              /\ \A i \in 1..Len(events[s]) : events'[s][i] = events[s][i]
              /\ s # "order" => events'[s] = events[s]
    BY <1>6, <2>1, <2>2, BcStreamsAre
  <2> QED BY <1>3, <1>4, <1>7, <2>3, <2>4, <2>5, BcStreamsAre
<1>8. CASE stage[o] = 2
  <2>1. events' = [events EXCEPT !["fill"] = Append(@, e(Nothing))]
    BY <1>2, <1>8 DEF Publishes
  <2>2. e(Nothing).order = o
    OBVIOUS
  <2> HIDE DEF e
  <2>3. "fill" # "order" /\ stage[o] \notin {1, 4}
    BY <1>8
  <2> QED BY <1>3, <1>4, <1>6, <1>8, <2>1, <2>2, <2>3, BcStreamsAre
<1>9. CASE stage[o] \notin {1, 2, 4}
  <2>1. events' = events
    BY <1>2, <1>9 DEF Publishes
  <2>2. \A s \in BcStreams : Len(events[s]) \in Nat
    BY <1>1
  <2> QED BY <1>1, <1>3, <1>4, <1>9, <2>1, <2>2
<1> QED BY <1>7, <1>8, <1>9

LEMMA PlacesKeepsSockets ==
    ASSUME SocketsInv, NEW o \in PaperOrders, Places(o)
    PROVE  SocketsInv'
<1>1. /\ stage[o] \in 0..5
      /\ stage' \in [PaperOrders -> Stages]
      /\ \A x \in PaperOrders : stage'[x] = IF x = o THEN stage[o] + 1 ELSE stage[x]
      /\ events' \in [BcStreams -> Seq(OrderStage)]
      /\ \A s \in BcStreams :
            /\ Len(events'[s]) \in Nat /\ Len(events[s]) \in Nat /\ Len(events'[s]) >= Len(events[s])
            /\ \A i \in 1..Len(events[s]) : events'[s][i] = events[s][i]
  BY PlacesGrows
<1>2. IF stage[o] \in {1, 4}
      THEN /\ Len(events'["order"]) = Len(events["order"]) + 1
           /\ events'["order"][Len(events["order"]) + 1]
                = [order |-> o, status |-> IF stage[o] = 1 THEN Live ELSE Filled]
      ELSE events'["order"] = events["order"]
  BY PlacesGrows
<1>3. IF stage[o] = 2
      THEN /\ Len(events'["fill"]) = Len(events["fill"]) + 1
           /\ events'["fill"][Len(events["fill"]) + 1].order = o
      ELSE events'["fill"] = events["fill"]
  BY PlacesGrows
<1>4. Produced /\ Looping /\ LookingUp /\ Showing /\ Portfolios /\ Listening
  BY DEF SocketsInv
<1>5. UNCHANGED <<loops, cursor, sent, open, tasks, shown, portfolio, crashes, deaf, atEvent, excused, crossed>>
  BY DEF Places, loopVars, clientVars
<1>6. \A x \in PaperOrders : stage[x] \in 0..6 /\ stage'[x] >= stage[x]
  BY <1>1, <1>4 DEF Produced, Stages
<1> DEFINE q == events["order"]
           n == Len(events["order"])
           r == events'["order"]
<1>7. /\ n \in Nat /\ Len(r) \in Nat /\ n <= Len(r) /\ \A i \in 1..n : r[i] = q[i]
      /\ \A i \in 1..n : q[i] \in OrderStage
  <2>1. q \in Seq(OrderStage)
    BY <1>4, BcStreamsAre, EventsAre
  <2> QED BY <1>1, <2>1, BcStreamsAre
<1>8. \A i \in 1..n : q[i].order \in PaperOrders
  BY <1>7 DEF OrderStage
<1>9. Produced'
  <2>1. ASSUME NEW i \in 1..Len(r)
        PROVE  \/ r[i].status = Live /\ stage'[r[i].order] >= 2
               \/ r[i].status = Filled /\ stage'[r[i].order] >= 5
    <3>1. CASE i \in 1..n
      <4>1. \/ q[i].status = Live /\ stage[q[i].order] >= 2
            \/ q[i].status = Filled /\ stage[q[i].order] >= 5
        BY <1>4, <3>1 DEF Produced
      <4>2. stage'[q[i].order] >= stage[q[i].order] /\ stage[q[i].order] \in 0..6 /\ stage'[q[i].order] \in 0..6
        BY <1>1, <1>6, <1>8, <3>1 DEF Stages
      <4>3. r[i] = q[i]
        BY <1>7, <3>1
      <4> DEFINE x == q[i].order
      <4>4. stage[x] >= 2 => stage'[x] >= 2
        BY <4>2
      <4>5. stage[x] >= 5 => stage'[x] >= 5
        BY <4>2
      <4> QED BY <4>1, <4>3, <4>4, <4>5
    <3>2. CASE i \notin 1..n
      <4>1. stage[o] \in {1, 4} /\ i = n + 1
        BY <1>2, <1>7, <3>2
      <4>2. r[i].order = o /\ r[i].status = IF stage[o] = 1 THEN Live ELSE Filled
        BY <1>2, <4>1
      <4> QED BY <1>1, <4>1, <4>2
    <3> QED BY <3>1, <3>2
  <2>2. ASSUME NEW i \in 1..Len(r), NEW j \in 1..Len(r), r[i].order = r[j].order,
               r[i].status = Live, r[j].status = Filled
        PROVE  i < j
    <3>1. CASE i \in 1..n /\ j \in 1..n
      BY <1>4, <1>7, <2>2, <3>1 DEF Produced
    <3>2. CASE i \in 1..n /\ j \notin 1..n
      BY <1>7, <3>2
    <3>3. CASE i \notin 1..n
      <4>1. stage[o] \in {1, 4} /\ i = n + 1
        BY <1>2, <1>7, <3>3
      <4>2. r[i].order = o /\ r[i].status = IF stage[o] = 1 THEN Live ELSE Filled
        BY <1>2, <4>1
      <4>3. stage[o] = 1
        BY <2>2, <4>2, StatusesDiffer
      <4>4. j # i
        BY <2>2, StatusesDiffer
      <4>5. j \in 1..n
        BY <1>2, <1>7, <4>1, <4>4
      <4>6. q[j].order = o /\ q[j].status = Filled
        BY <1>7, <2>2, <4>2, <4>5
      <4>7. stage[o] >= 5
        BY <1>4, <4>5, <4>6, StatusesDiffer DEF Produced
      <4> QED BY <4>3, <4>7
    <3> QED BY <3>1, <3>2, <3>3
  <2>3. ASSUME NEW x \in PaperOrders, stage'[x] >= 5
        PROVE  \E i \in 1..Len(r) : r[i].order = x /\ r[i].status = Filled
    <3>1. CASE stage[x] >= 5
      <4>1. PICK i \in 1..n : q[i].order = x /\ q[i].status = Filled
        BY <1>4, <3>1 DEF Produced
      <4> QED BY <1>7, <4>1
    <3>2. CASE ~(stage[x] >= 5)
      <4>1. x = o /\ stage[o] = 4
        BY <1>1, <1>6, <2>3, <3>2
      <4>2. n + 1 \in 1..Len(r) /\ r[n + 1].order = x /\ r[n + 1].status = Filled
        BY <1>2, <1>7, <4>1
      <4> QED BY <4>2
    <3> QED BY <3>1, <3>2
  <2>4. ASSUME NEW i \in 1..Len(events'["fill"])
        PROVE  stage'[events'["fill"][i].order] >= 3
    <3> DEFINE k == Len(events["fill"])
    <3>1. k \in Nat /\ events["fill"] \in Seq(OrderStage)
      BY <1>4, BcStreamsAre, EventsAre
    <3>2. CASE i \in 1..k
      <4>1. events'["fill"][i] = events["fill"][i]
        BY <1>1, <3>2, BcStreamsAre
      <4>2. stage[events["fill"][i].order] >= 3
        BY <1>4, <3>2 DEF Produced
      <4>3. events["fill"][i].order \in PaperOrders
        <5>1. events["fill"][i] \in OrderStage
          BY <3>1, <3>2
        <5> QED BY <5>1 DEF OrderStage
      <4>4. stage'[events["fill"][i].order] \in 0..6
        BY <1>1, <4>3 DEF Stages
      <4> QED BY <1>6, <4>1, <4>2, <4>3, <4>4
    <3>3. CASE i \notin 1..k
      <4>1. stage[o] = 2 /\ i = k + 1
        BY <1>3, <3>1, <3>3
      <4>2. events'["fill"][i].order = o
        BY <1>3, <4>1
      <4> QED BY <1>1, <4>1, <4>2
    <3> QED BY <3>2, <3>3
  <2> QED BY <1>1, <2>1, <2>2, <2>3, <2>4 DEF Produced
<1>10. Looping'
  <2>1. ASSUME NEW s \in BcStreams, cursor[s] # Nothing
        PROVE  cursor[s] <= Len(events'[s])
    <3>1. cursor[s] \in Nat /\ cursor[s] <= Len(events[s])
      BY <1>4, <2>1 DEF Looping
    <3> QED BY <1>1, <3>1
  <2> QED BY <1>4, <1>5, <2>1 DEF Looping
<1>11. LookingUp'
  <2>1. ASSUME NEW t \in tasks, t.kind = "order"
        PROVE  stage'[t.order] >= 3 /\ (t.got = Filled => stage'[t.order] >= 4)
    <3>1. t.order \in PaperOrders /\ stage[t.order] >= 3 /\ (t.got = Filled => stage[t.order] >= 4)
      BY <1>4, <2>1 DEF LookingUp, BcTask
    <3>2. stage'[t.order] >= stage[t.order] /\ stage[t.order] \in Nat /\ stage'[t.order] \in Nat
      BY <1>1, <1>6, <3>1 DEF Stages
    <3> QED BY <3>1, <3>2
  <2> QED BY <1>4, <1>5, <2>1 DEF LookingUp
<1>12. Showing'
  <2>1. Position' = Position /\ Position \in Nat /\ Position <= n
    BY <1>4, <1>5, PositionIs DEF Position
  <2>2. ASSUME NEW x, Past(x)'
        PROVE  Past(x)
    <3>1. PICK i \in 1..Len(r) : i <= Position /\ r[i].order = x /\ r[i].status = Filled
      BY <2>1, <2>2 DEF Past
    <3>2. i \in 1..n
      BY <1>7, <2>1, <3>1
    <3> QED BY <1>7, <3>1, <3>2 DEF Past
  <2>3. ASSUME NEW c, NEW x
        PROVE  BelievesLive(c, x)' <=> BelievesLive(c, x)
    BY <1>5 DEF BelievesLive
  <2>4. ASSUME NEW c \in Clients, NEW x \in PaperOrders
        PROVE  /\ shown[c][x] # Nothing => stage'[x] >= 1
               /\ shown[c][x] = Filled => stage'[x] >= 4
    <3>1. stage'[x] >= stage[x] /\ stage[x] \in Nat /\ stage'[x] \in Nat
      BY <1>1, <1>6 DEF Stages
    <3> QED BY <1>4, <3>1 DEF Showing
  <2> QED BY <1>4, <1>5, <2>2, <2>3, <2>4 DEF Showing
<1>13. Portfolios'
  <2>1. ASSUME NEW c \in Clients
        PROVE  atEvent[c] <= Positions(c)'
    <3> DEFINE a == {x \in Sees[c] : stage[x] = 6}
               b == {x \in Sees[c] : stage'[x] = 6}
    <3>1. a \subseteq b
      <4>1. Sees[c] \subseteq PaperOrders
        BY BroadcastAssumption
      <4> QED BY <1>1, <4>1
    <3>2. IsFiniteSet(b) /\ IsFiniteSet(a)
      BY FS_Subset, BroadcastAssumption
    <3>3. Cardinality(a) <= Cardinality(b)
      BY <3>1, <3>2, FS_Subset
    <3>4. Cardinality(a) \in Nat /\ Cardinality(b) \in Nat
      BY <3>2, FS_CardinalityType
    <3>5. atEvent[c] \in Nat /\ atEvent[c] <= Cardinality(a)
      BY <1>4 DEF Portfolios, Positions
    <3>6. Positions(c)' = Cardinality(b)
      BY DEF Positions
    <3> HIDE DEF a, b
    <3> QED BY <3>3, <3>4, <3>5, <3>6
  <2>2. \A c : Built(c)' = Built(c) /\ (WillBuild(c)' <=> WillBuild(c))
    BY <1>5 DEF Built, WillBuild
  <2> QED BY <1>4, <1>5, <2>1, <2>2 DEF Portfolios
<1>14. Listening'
  BY <1>4, <1>5 DEF Listening
<1> QED BY <1>9, <1>10, <1>11, <1>12, <1>13, <1>14 DEF SocketsInv


-----------------------------------------------------------------------------
(* The broadcasters and the connections.                                    *)
LEMMA LoopsKeepShowing ==
    ASSUME SocketsInv, UNCHANGED <<stage, events, open, tasks, shown>>, excused \subseteq excused',
           \A c \in open : \A o \in PaperOrders : Past(o)' => Past(o) \/ <<c, o>> \in excused'
    PROVE  Showing'
<1>1. Showing
  BY DEF SocketsInv
<1>2. \A c, o : BelievesLive(c, o)' <=> BelievesLive(c, o)
  BY DEF BelievesLive
<1>3. ASSUME NEW c \in open \ OfPortfolio, NEW o \in PaperOrders, <<c, o>> \notin excused', Past(o)'
      PROVE  ~BelievesLive(c, o)'
  <2>1. Past(o) /\ <<c, o>> \notin excused
    BY <1>3
  <2> QED BY <1>1, <1>2, <2>1 DEF Showing
<1>4. /\ shown' \in [Clients -> [PaperOrders -> {Nothing, Live, Filled}]]
      /\ \A c \in Clients : \A o \in PaperOrders :
            /\ shown'[c][o] # Nothing => o \in Sees[c] /\ stage'[o] >= 1 /\ c \in open'
            /\ shown'[c][o] = Filled => stage'[o] >= 4
  BY <1>1 DEF Showing
<1> QED BY <1>3, <1>4 DEF Showing

(* What the loops do not touch.                                             *)
LEMMA LoopsKeepRest ==
    ASSUME SocketsInv, UNCHANGED <<stage, events, open, tasks, shown, portfolio, atEvent, crossed>>
    PROVE  Produced' /\ LookingUp' /\ Portfolios'
<1>1. Produced'
  BY DEF SocketsInv, Produced
<1>2. LookingUp'
  BY DEF SocketsInv, LookingUp
<1>3. /\ \A c : Built(c)' = Built(c) /\ (WillBuild(c)' <=> WillBuild(c))
      /\ \A c : Positions(c)' = Positions(c)
  BY DEF Built, WillBuild, Positions
<1>4. Portfolios'
  BY <1>3 DEF SocketsInv, Portfolios
<1> QED BY <1>1, <1>2, <1>4

LEMMA CreatedKeepsSockets ==
    ASSUME SocketsInv, NEW s \in BcStreams, Created(s)
    PROVE  SocketsInv'
<1>1. /\ loops[s] = "creating" /\ loops' = [loops EXCEPT ![s] = "on"]
      /\ cursor' = [cursor EXCEPT ![s] = IF @ = Nothing THEN Len(events[s]) ELSE @]
      /\ sent' = [sent EXCEPT ![s] = cursor'[s]]
      /\ excused' = IF cursor[s] = Nothing
                    THEN excused \cup (open \X OrdersIn(s, 1, Len(events[s]))) ELSE excused
      /\ UNCHANGED <<stage, events, open, tasks, shown, portfolio, crashes, deaf, atEvent, crossed>>
  BY DEF Created, producerVars, clientVars
<1>2. Produced /\ Looping /\ Listening
  BY DEF SocketsInv
<1>3. \A x \in BcStreams : Len(events[x]) \in Nat
  BY <1>2, EventsAre
<1>4. /\ loops \in [BcStreams -> {"off", "creating", "on"}]
      /\ cursor \in [BcStreams -> Nat \cup {Nothing}] /\ sent \in [BcStreams -> Nat]
  BY <1>2 DEF Looping
<1> DEFINE p == IF cursor[s] = Nothing THEN Len(events[s]) ELSE cursor[s]
<1>5. /\ p \in Nat /\ p <= Len(events[s]) /\ p # Nothing
      /\ \A x \in BcStreams : /\ cursor'[x] = IF x = s THEN p ELSE cursor[x]
                              /\ sent'[x] = IF x = s THEN p ELSE sent[x]
                              /\ loops'[x] = IF x = s THEN "on" ELSE loops[x]
      /\ loops' \in [BcStreams -> {"off", "creating", "on"}]
  <2>1. p \in Nat /\ p <= Len(events[s])
    BY <1>2, <1>3, <1>4 DEF Looping
  <2>2. cursor' = [cursor EXCEPT ![s] = p]
    BY <1>1, <1>4
  <2> HIDE DEF p
  <2>3. \A x \in BcStreams : cursor'[x] = IF x = s THEN p ELSE cursor[x]
    BY <1>4, <2>2
  <2>4. sent' = [sent EXCEPT ![s] = p]
    BY <1>1, <2>3
  <2> QED BY <1>1, <1>4, <2>1, <2>3, <2>4, BroadcastAssumption
<1> HIDE DEF p
<1>6. Looping'
  <2>1. cursor' \in [BcStreams -> Nat \cup {Nothing}] /\ sent' \in [BcStreams -> Nat]
    <3>1. \A x \in BcStreams : cursor'[x] \in Nat \cup {Nothing} /\ sent'[x] \in Nat
      BY <1>4, <1>5
    <3>2. cursor' = [x \in BcStreams |-> cursor'[x]] /\ sent' = [x \in BcStreams |-> sent'[x]]
      BY <1>1, <1>4
    <3> QED BY <3>1, <3>2
  <2>2. ASSUME NEW x \in BcStreams
        PROVE  /\ cursor'[x] # Nothing => cursor'[x] <= Len(events[x])
               /\ loops'[x] = "on" => cursor'[x] # Nothing /\ sent'[x] <= cursor'[x]
    <3>1. CASE x = s
      BY <1>5, <3>1
    <3>2. CASE x # s
      BY <1>2, <1>5, <3>2 DEF Looping
    <3> QED BY <3>1, <3>2
  <2> QED BY <1>1, <1>5, <2>1, <2>2 DEF Looping
<1>7. Showing'
  <2>1. ASSUME NEW c \in open, NEW o \in PaperOrders, Past(o)', ~Past(o)
        PROVE  <<c, o>> \in excused'
    <3>1. PICK i \in 1..Len(events["order"]) :
              i <= Position' /\ events["order"][i].order = o /\ events["order"][i].status = Filled
      BY <1>1, <2>1 DEF Past
    <3>2. ~(i <= Position)
      BY <2>1, <3>1 DEF Past
    <3>3. s = "order" /\ cursor[s] = Nothing
      <4>1. CASE s # "order"
        <5>1. Position' = Position
          BY <1>5, <4>1, BcStreamsAre DEF Position
        <5> QED BY <3>1, <3>2, <5>1
      <4>2. CASE s = "order" /\ cursor[s] # Nothing
        <5>1. p = cursor[s]
          BY <4>2 DEF p
        <5>2. Position' = cursor["order"]
          BY <1>5, <4>2, <5>1, BcStreamsAre DEF Position
        <5>3. Position = cursor["order"]
          BY <1>1, <4>2 DEF Position
        <5> QED BY <3>1, <3>2, <5>2, <5>3
      <4> QED BY <4>1, <4>2
    <3>4. o \in OrdersIn("order", 1, Len(events["order"]))
      BY <3>1 DEF OrdersIn
    <3> QED BY <1>1, <2>1, <3>3, <3>4
  <2>2. excused \subseteq excused'
    BY <1>1
  <2> QED BY <1>1, <2>1, <2>2, LoopsKeepShowing
<1>8. Listening'
  BY <1>1, <1>2, <1>5 DEF Listening
<1>9. Produced' /\ LookingUp' /\ Portfolios'
  BY <1>1, LoopsKeepRest
<1> QED BY <1>6, <1>7, <1>8, <1>9 DEF SocketsInv

LEMMA CreationFailsKeepsSockets ==
    ASSUME SocketsInv, NEW s \in BcStreams, CreationFails(s)
    PROVE  SocketsInv'
<1>1. /\ loops[s] = "creating" /\ loops' = [loops EXCEPT ![s] = "off"] /\ deaf' = deaf \cup (open \X {s})
      /\ UNCHANGED <<stage, events, cursor, sent, open, tasks, shown, portfolio, crashes, atEvent, excused, crossed>>
  BY DEF CreationFails, producerVars, clientVars
<1>2. Looping /\ Listening
  BY DEF SocketsInv
<1>3. /\ loops' \in [BcStreams -> {"off", "creating", "on"}]
      /\ \A x \in BcStreams : loops'[x] = IF x = s THEN "off" ELSE loops[x]
  BY <1>1, <1>2 DEF Looping
<1>4. Looping'
  BY <1>1, <1>2, <1>3 DEF Looping
<1>5. Showing'
  <2>1. Position' = Position
    BY <1>1, <1>3, BcStreamsAre DEF Position
  <2>2. \A o : Past(o)' => Past(o)
    BY <1>1, <2>1 DEF Past
  <2> QED BY <1>1, <2>2, LoopsKeepShowing
<1>6. Listening'
  BY <1>1, <1>2, <1>3 DEF Listening
<1>7. Produced' /\ LookingUp' /\ Portfolios'
  BY <1>1, LoopsKeepRest
<1> QED BY <1>4, <1>5, <1>6, <1>7 DEF SocketsInv

LEMMA ReadsKeepsSockets ==
    ASSUME SocketsInv, NEW s \in BcStreams, Reads(s)
    PROVE  SocketsInv'
<1>1. /\ loops[s] = "on" /\ cursor' = [cursor EXCEPT ![s] = Len(events[s])] /\ cursor[s] < Len(events[s])
      /\ UNCHANGED <<stage, events, loops, sent, open, tasks, shown, portfolio, crashes, deaf, atEvent, excused,
                     crossed>>
  BY DEF Reads, producerVars, clientVars
<1>2. Produced /\ Looping /\ Listening
  BY DEF SocketsInv
<1>3. /\ Len(events[s]) \in Nat /\ Len(events[s]) # Nothing
      /\ cursor[s] \in Nat /\ sent[s] \in Nat /\ sent[s] <= cursor[s]
  BY <1>1, <1>2, EventsAre, BroadcastAssumption DEF Looping
<1>4. /\ cursor' \in [BcStreams -> Nat \cup {Nothing}]
      /\ \A x \in BcStreams : cursor'[x] = IF x = s THEN Len(events[s]) ELSE cursor[x]
  BY <1>1, <1>2, <1>3 DEF Looping
<1>5. Looping'
  <2>1. ASSUME NEW x \in BcStreams
        PROVE  /\ cursor'[x] # Nothing => cursor'[x] <= Len(events[x])
               /\ loops[x] = "on" => cursor'[x] # Nothing /\ sent[x] <= cursor'[x]
    <3>1. CASE x = s
      BY <1>1, <1>3, <1>4, <3>1
    <3>2. CASE x # s
      BY <1>2, <1>4, <3>2 DEF Looping
    <3> QED BY <3>1, <3>2
  <2> QED BY <1>1, <1>2, <1>4, <2>1 DEF Looping
<1>6. Showing'
  <2>1. Position' = Position
    BY <1>1, <1>4, BcStreamsAre DEF Position
  <2>2. \A o : Past(o)' => Past(o)
    BY <1>1, <2>1 DEF Past
  <2> QED BY <1>1, <2>2, LoopsKeepShowing
<1>7. Listening'
  BY <1>1, <1>2 DEF Listening
<1>8. Produced' /\ LookingUp' /\ Portfolios'
  BY <1>1, LoopsKeepRest
<1> QED BY <1>5, <1>6, <1>7, <1>8 DEF SocketsInv

LEMMA DropsKeepsSockets ==
    ASSUME SocketsInv, NEW s \in BcStreams, DropsRest(s)
    PROVE  SocketsInv'
<1>1. /\ loops[s] = "on"
      /\ cursor' = cursor \/ cursor' = [cursor EXCEPT ![s] = Len(events[s])]
      /\ sent' = [sent EXCEPT ![s] = cursor'[s]]
      /\ excused' = excused \cup (open \X OrdersIn(s, sent[s] + 1, cursor'[s]))
      /\ UNCHANGED <<stage, events, loops, open, tasks, shown, portfolio, crashes, deaf, atEvent, crossed>>
  BY DEF DropsRest, producerVars, clientVars
<1>2. Produced /\ Looping /\ Listening
  BY DEF SocketsInv
<1>3. /\ Len(events[s]) \in Nat /\ Len(events[s]) # Nothing
      /\ cursor[s] \in Nat /\ cursor[s] <= Len(events[s]) /\ sent[s] \in Nat /\ sent[s] <= cursor[s]
  BY <1>1, <1>2, EventsAre, BroadcastAssumption DEF Looping
<1>4. /\ cursor' \in [BcStreams -> Nat \cup {Nothing}] /\ cursor'[s] \in Nat /\ cursor'[s] <= Len(events[s])
      /\ \A x \in BcStreams : x # s => cursor'[x] = cursor[x]
  <2>1. cursor \in [BcStreams -> Nat \cup {Nothing}]
    BY <1>2 DEF Looping
  <2>2. CASE cursor' = cursor
    BY <1>3, <2>1, <2>2
  <2>3. CASE cursor' = [cursor EXCEPT ![s] = Len(events[s])]
    BY <1>3, <2>1, <2>3
  <2> QED BY <1>1, <2>2, <2>3
<1>5. /\ sent' \in [BcStreams -> Nat]
      /\ \A x \in BcStreams : sent'[x] = IF x = s THEN cursor'[s] ELSE sent[x]
  BY <1>1, <1>2, <1>4 DEF Looping
<1>6. Looping'
  <2>1. ASSUME NEW x \in BcStreams
        PROVE  /\ cursor'[x] # Nothing => cursor'[x] <= Len(events[x])
               /\ loops[x] = "on" => cursor'[x] # Nothing /\ sent'[x] <= cursor'[x]
    <3>1. CASE x = s
      BY <1>4, <1>5, <3>1, BroadcastAssumption
    <3>2. CASE x # s
      BY <1>2, <1>4, <1>5, <3>2 DEF Looping
    <3> QED BY <3>1, <3>2
  <2> QED BY <1>1, <1>2, <1>4, <1>5, <2>1 DEF Looping
<1>7. Showing'
  <2>1. ASSUME NEW c \in open, NEW o \in PaperOrders, Past(o)', ~Past(o)
        PROVE  <<c, o>> \in excused'
    <3>1. PICK i \in 1..Len(events["order"]) :
              i <= Position' /\ events["order"][i].order = o /\ events["order"][i].status = Filled
      BY <1>1, <2>1 DEF Past
    <3>2. ~(i <= Position)
      BY <2>1, <3>1 DEF Past
    <3>3. s = "order"
      <4> SUFFICES ASSUME s # "order" PROVE FALSE
        OBVIOUS
      <4>1. Position' = Position
        BY <1>1, <1>4, <1>5, BcStreamsAre DEF Position
      <4> QED BY <3>1, <3>2, <4>1
    <3>4. Position = sent["order"] /\ Position' = cursor'["order"]
      BY <1>1, <1>5, <3>3, BcStreamsAre DEF Position
    <3>5. i \in sent[s] + 1 .. cursor'[s]
      BY <1>3, <1>4, <3>1, <3>2, <3>3, <3>4
    <3>6. o \in OrdersIn(s, sent[s] + 1, cursor'[s])
      BY <3>1, <3>3, <3>5 DEF OrdersIn
    <3> QED BY <1>1, <2>1, <3>6
  <2>2. excused \subseteq excused'
    BY <1>1
  <2> QED BY <1>1, <2>1, <2>2, LoopsKeepShowing
<1>8. Listening'
  BY <1>1, <1>2 DEF Listening
<1>9. Produced' /\ LookingUp' /\ Portfolios'
  BY <1>1, LoopsKeepRest
<1> QED BY <1>6, <1>7, <1>8, <1>9 DEF SocketsInv

LEMMA ConnectsKeepsSockets ==
    ASSUME SocketsInv, NEW c0 \in Clients, Connects(c0)
    PROVE  SocketsInv'
<1>1. /\ c0 \notin open /\ open' = open \cup {c0}
      /\ loops' = [s \in BcStreams |-> IF loops[s] = "off" THEN "creating" ELSE loops[s]]
      /\ UNCHANGED <<stage, events, cursor, sent, tasks, shown, portfolio, crashes, deaf, atEvent, excused, crossed>>
  BY DEF Connects, producerVars
<1>2. Produced /\ Looping /\ LookingUp /\ Showing /\ Portfolios /\ Listening
  BY DEF SocketsInv
<1>3. /\ loops' \in [BcStreams -> {"off", "creating", "on"}]
      /\ \A s \in BcStreams : loops'[s] # "off" /\ (loops'[s] = "on" <=> loops[s] = "on")
  BY <1>1, <1>2 DEF Looping
<1>4. Produced'
  BY <1>1, <1>2 DEF Produced
<1>5. Looping'
  BY <1>1, <1>2, <1>3 DEF Looping
<1>6. LookingUp'
  BY <1>1, <1>2 DEF LookingUp
<1>7. Showing'
  <2>1. Position' = Position
    BY <1>1, <1>3, BcStreamsAre DEF Position
  <2>2. \A o : Past(o)' => Past(o)
    BY <1>1, <2>1 DEF Past
  <2>3. \A c, o : BelievesLive(c, o)' <=> BelievesLive(c, o)
    BY <1>1 DEF BelievesLive
  <2>4. ASSUME NEW o \in PaperOrders
        PROVE  ~BelievesLive(c0, o)
    <3>1. shown[c0][o] = Nothing
      BY <1>1, <1>2 DEF Showing
    <3>2. \A t \in tasks : t.client # c0
      BY <1>1, <1>2 DEF LookingUp
    <3> QED BY <3>1, <3>2, StatusesDiffer DEF BelievesLive
  <2>5. ASSUME NEW c \in open' \ OfPortfolio, NEW o \in PaperOrders, <<c, o>> \notin excused', Past(o)'
        PROVE  ~BelievesLive(c, o)'
    <3>1. CASE c = c0
      BY <2>3, <2>4, <3>1
    <3>2. CASE c # c0
      BY <1>1, <1>2, <2>2, <2>3, <2>5, <3>2 DEF Showing
    <3> QED BY <3>1, <3>2
  <2> QED BY <1>1, <1>2, <2>5 DEF Showing
<1>8. Portfolios'
  <2>1. \A c : Built(c)' = Built(c) /\ (WillBuild(c)' <=> WillBuild(c)) /\ Positions(c)' = Positions(c)
    BY <1>1 DEF Built, WillBuild, Positions
  <2> QED BY <1>1, <1>2, <2>1 DEF Portfolios
<1>9. Listening'
  BY <1>1, <1>2, <1>3 DEF Listening
<1> QED BY <1>4, <1>5, <1>6, <1>7, <1>8, <1>9 DEF SocketsInv

(* A socket that has closed, or all of them.                                *)
LEMMA ClosedKeepRest ==
    ASSUME SocketsInv, NEW cs \in SUBSET Clients, NothingShown(cs), open' = open \ cs,
           UNCHANGED <<stage, events>>, \A c \in open', o \in PaperOrders : Past(o)' => Past(o)
    PROVE  Produced' /\ LookingUp' /\ Showing' /\ Portfolios'
<1>1. /\ tasks' = {t \in tasks : t.client \notin cs}
      /\ shown' = [c \in Clients |-> IF c \in cs THEN [o \in PaperOrders |-> Nothing] ELSE shown[c]]
      /\ portfolio' = [c \in Clients |-> IF c \in cs THEN Nothing ELSE portfolio[c]]
      /\ atEvent' = [c \in Clients |-> IF c \in cs THEN 0 ELSE atEvent[c]]
      /\ excused' = {x \in excused : x[1] \notin cs}
      /\ crossed' = crossed \ cs
  BY DEF NothingShown, Blank
<1>2. Produced /\ LookingUp /\ Showing /\ Portfolios
  BY DEF SocketsInv
<1>3. Produced'
  BY <1>2 DEF Produced
<1>4. LookingUp'
  BY <1>1, <1>2 DEF LookingUp
<1>5. Showing'
  <2>1. shown' \in [Clients -> [PaperOrders -> {Nothing, Live, Filled}]]
    BY <1>1, <1>2 DEF Showing
  <2>2. ASSUME NEW c \in Clients, NEW o \in PaperOrders
        PROVE  shown'[c][o] = IF c \in cs THEN Nothing ELSE shown[c][o]
    BY <1>1
  <2>3. ASSUME NEW c \in Clients, NEW o \in PaperOrders
        PROVE  /\ shown'[c][o] # Nothing => o \in Sees[c] /\ stage[o] >= 1 /\ c \in open'
               /\ shown'[c][o] = Filled => stage[o] >= 4
    <3>1. CASE c \in cs
      BY <2>2, <3>1, StatusesDiffer
    <3>2. CASE c \notin cs
      BY <1>2, <2>2, <3>2 DEF Showing
    <3> QED BY <3>1, <3>2
  <2>4. ASSUME NEW c \in open' \ OfPortfolio, NEW o \in PaperOrders, <<c, o>> \notin excused', Past(o)'
        PROVE  ~BelievesLive(c, o)'
    <3>1. c \in open \ OfPortfolio /\ c \in Clients /\ c \notin cs
      BY <1>2 DEF LookingUp
    <3>2. <<c, o>> \notin excused
      <4>1. <<c, o>>[1] = c
        OBVIOUS
      <4> QED BY <1>1, <2>4, <3>1, <4>1
    <3>3. Past(o)
      BY <2>4
    <3>4. ~BelievesLive(c, o)
      BY <1>2, <3>1, <3>2, <3>3 DEF Showing
    <3>5. shown'[c][o] = shown[c][o] /\ tasks' \subseteq tasks
      BY <1>1, <2>2, <3>1
    <3> QED BY <3>4, <3>5 DEF BelievesLive
  <2> QED BY <2>1, <2>3, <2>4 DEF Showing
<1>6. Portfolios'
  <2>1. portfolio' \in [Clients -> Nat \cup {Nothing}] /\ atEvent' \in [Clients -> Nat]
    BY <1>1, <1>2 DEF Portfolios
  <2>2. ASSUME NEW c \in Clients
        PROVE  atEvent'[c] <= Positions(c)'
    <3>1. Positions(c)' = Positions(c) /\ Positions(c) \in Nat
      BY PositionsAre DEF Positions
    <3> QED BY <1>1, <1>2, <3>1 DEF Portfolios
  <2>3. ASSUME NEW c \in OfPortfolio \ crossed'
        PROVE  /\ \A t, u \in Built(c)' : t = u
               /\ ~WillBuild(c)' =>
                     /\ \A t \in Built(c)' : atEvent'[c] <= t.got
                     /\ Built(c)' = {} /\ portfolio'[c] # Nothing => atEvent'[c] <= portfolio'[c]
    <3>1. c \in Clients
      BY BroadcastAssumption
    <3>2. CASE c \in cs
      <4>1. Built(c)' = {} /\ portfolio'[c] = Nothing
        BY <1>1, <3>1, <3>2 DEF Built
      <4> QED BY <4>1
    <3>3. CASE c \notin cs
      <4>1. Built(c)' = Built(c) /\ (WillBuild(c)' <=> WillBuild(c))
        BY <1>1, <3>3 DEF Built, WillBuild
      <4>2. portfolio'[c] = portfolio[c] /\ atEvent'[c] = atEvent[c] /\ c \notin crossed
        BY <1>1, <3>1, <3>3
      <4> QED BY <1>2, <4>1, <4>2 DEF Portfolios
    <3> QED BY <3>2, <3>3
  <2> QED BY <2>1, <2>2, <2>3 DEF Portfolios
<1> QED BY <1>3, <1>4, <1>5, <1>6

LEMMA DisconnectsKeepsSockets ==
    ASSUME SocketsInv, NEW c0 \in Clients, Disconnects(c0)
    PROVE  SocketsInv'
<1>1. /\ open' = open \ {c0} /\ NothingShown({c0}) /\ deaf' = {x \in deaf : x[1] \notin {c0}}
      /\ UNCHANGED <<stage, events, loops, cursor, sent, crashes>>
  BY DEF Disconnects, producerVars, loopVars, NothingShown
<1>2. \A o : Past(o)' => Past(o)
  <2>1. Position' = Position
    BY <1>1 DEF Position
  <2> QED BY <1>1, <2>1 DEF Past
<1>3. Produced' /\ LookingUp' /\ Showing' /\ Portfolios'
  BY <1>1, <1>2, ClosedKeepRest
<1>4. Looping'
  BY <1>1 DEF SocketsInv, Looping
<1>5. Listening'
  <2>1. ASSUME NEW c \in open', NEW s \in BcStreams, loops[s] = "off"
        PROVE  <<c, s>> \in deaf'
    <3>1. <<c, s>> \in deaf /\ <<c, s>>[1] = c /\ c # c0
      BY <1>1, <2>1 DEF SocketsInv, Listening
    <3> QED BY <1>1, <3>1
  <2> QED BY <1>1, <2>1 DEF SocketsInv, Listening
<1> QED BY <1>3, <1>4, <1>5 DEF SocketsInv

LEMMA CrashKeepsSockets ==
    ASSUME SocketsInv, ApiCrashes
    PROVE  SocketsInv'
<1>1. /\ crashes < MaxCrashes /\ crashes' = crashes + 1
      /\ loops' = [s \in BcStreams |-> "off"] /\ sent' = [s \in BcStreams |-> 0]
      /\ open' = {} /\ NothingShown(Clients) /\ UNCHANGED <<stage, events, cursor>>
  BY DEF ApiCrashes, producerVars
<1>2. open \subseteq Clients /\ crashes \in 0..MaxCrashes /\ Looping
  BY DEF SocketsInv, LookingUp, Listening
<1>3. Produced' /\ LookingUp' /\ Showing' /\ Portfolios'
  <2>1. open' = open \ Clients
    BY <1>1, <1>2
  <2> QED BY <1>1, <2>1, ClosedKeepRest
<1>4. Looping'
  BY <1>1, <1>2 DEF Looping
<1>5. Listening'
  BY <1>1, <1>2, BroadcastAssumption DEF Listening
<1> QED BY <1>3, <1>4, <1>5 DEF SocketsInv


-----------------------------------------------------------------------------
(* An event is handed out.                                                  *)
LEMMA TaskIs ==
    ASSUME NEW c \in Clients, NEW kind \in {"order", "owner", "portfolio"}, NEW s \in BcStreams, NEW n \in Nat,
           NEW o \in PaperOrders
    PROVE  LET t == Task(c, kind, <<s, n>>, o)
           IN  t \in BcTask /\ t.client = c /\ t.kind = kind /\ t.order = o /\ t.got = Nothing
BY DEF Task, BcTask

LEMMA PastIsFilled ==
    ASSUME SocketsInv, NEW o \in PaperOrders, Past(o)
    PROVE  stage[o] >= 5 /\ RowOf(o) = Filled
<1>1. PICK i \in 1..Len(events["order"]) : events["order"][i].order = o /\ events["order"][i].status = Filled
  BY DEF Past
<1>2. stage[o] >= 5
  BY <1>1, StatusesDiffer DEF SocketsInv, Produced
<1> QED BY <1>2, RowsAre DEF SocketsInv

(* The next event of a loop.                                                *)
LEMMA NextIs ==
    ASSUME SocketsInv, NEW s \in BcStreams, loops[s] = "on", sent[s] < cursor[s],
           sent' = [sent EXCEPT ![s] = @ + 1], UNCHANGED <<events, loops, cursor>>
    PROVE  /\ sent[s] \in Nat /\ sent[s] + 1 \in 1..Len(events[s]) /\ sent'[s] = sent[s] + 1
           /\ events[s][sent[s] + 1] \in OrderStage
           /\ Looping'
           /\ Position' = IF s = "order" THEN sent[s] + 1 ELSE Position
           /\ s = "order" => Position = sent[s]
<1>1. Produced /\ Looping
  BY DEF SocketsInv
<1>2. Len(events[s]) \in Nat /\ events[s] \in Seq(OrderStage)
  BY <1>1, EventsAre
<1>3. cursor[s] \in Nat /\ cursor[s] <= Len(events[s]) /\ sent[s] \in Nat /\ sent \in [BcStreams -> Nat]
  BY <1>1 DEF Looping
<1>4. sent[s] + 1 \in 1..Len(events[s]) /\ sent[s] + 1 <= cursor[s]
  BY <1>2, <1>3
<1>5. sent' \in [BcStreams -> Nat] /\ \A x \in BcStreams : sent'[x] = IF x = s THEN sent[s] + 1 ELSE sent[x]
  BY <1>3
<1>6. Looping'
  BY <1>1, <1>4, <1>5 DEF Looping
<1>7. Position' = IF s = "order" THEN sent[s] + 1 ELSE Position
  BY <1>5, BcStreamsAre DEF Position
<1>8. s = "order" => Position = sent[s]
  BY DEF Position
<1>9. events[s][sent[s] + 1] \in OrderStage
  BY <1>2, <1>4
<1> QED BY <1>3, <1>4, <1>5, <1>6, <1>7, <1>8, <1>9

LEMMA OrderEventKeepsSockets ==
    ASSUME SocketsInv, Delivers("order")
    PROVE  SocketsInv'
<1> DEFINE k == sent["order"] + 1
           e == events["order"][k]
           o0 == e.order
           by == <<"order", k>>
           new == {Task(c, "portfolio", by, o0) : c \in Hearing(o0) \cap OfPortfolio}
<1>1. /\ loops["order"] = "on" /\ sent["order"] < cursor["order"] /\ sent' = [sent EXCEPT !["order"] = @ + 1]
      /\ OrderEvent(events["order"][sent'["order"]].order, events["order"][sent'["order"]].status,
                    <<"order", sent'["order"]>>)
      /\ UNCHANGED <<stage, events, loops, cursor, open, portfolio, crashes, deaf, crossed>>
  BY DEF Delivers, producerVars
<1>2. /\ k \in 1..Len(events["order"]) /\ sent'["order"] = k /\ e \in OrderStage
      /\ Looping' /\ Position' = k /\ Position = sent["order"] /\ sent["order"] \in Nat
  BY <1>1, NextIs, BcStreamsAre
<1>3. /\ shown' = [c \in Clients |-> IF c \in Hearing(o0) \ OfPortfolio
                                     THEN [shown[c] EXCEPT ![o0] = e.status] ELSE shown[c]]
      /\ tasks' = tasks \cup new
      /\ atEvent' = [c \in Clients |-> IF c \in Hearing(o0) THEN Positions(c) ELSE atEvent[c]]
      /\ excused' = excused \cup (IF e.status = Filled THEN Overtaken(o0) ELSE {})
  BY <1>1, <1>2 DEF OrderEvent
<1>4. Produced /\ LookingUp /\ Showing /\ Portfolios /\ Listening
  BY DEF SocketsInv
<1>5. /\ o0 \in PaperOrders
      /\ (e.status = Live /\ stage[o0] >= 2) \/ (e.status = Filled /\ stage[o0] >= 5)
      /\ stage[o0] \in 0..6
  <2>1. o0 \in PaperOrders
    BY <1>2 DEF OrderStage
  <2>2. (e.status = Live /\ stage[o0] >= 2) \/ (e.status = Filled /\ stage[o0] >= 5)
    <3>1. \A i \in 1..Len(events["order"]) :
            \/ events["order"][i].status = Live /\ stage[events["order"][i].order] >= 2
            \/ events["order"][i].status = Filled /\ stage[events["order"][i].order] >= 5
      BY <1>4 DEF Produced
    <3>2. k \in 1..Len(events["order"])
      BY <1>2
    <3> HIDE DEF k
    <3> QED BY <3>1, <3>2
  <2>3. stage \in [PaperOrders -> 0..6]
    BY <1>4 DEF Produced, Stages
  <2>4. stage[o0] \in 0..6
    BY <2>1, <2>3
  <2> QED BY <2>1, <2>2, <2>4
<1>6. Hearing(o0) \subseteq open /\ open \subseteq Clients /\ \A c \in Hearing(o0) : o0 \in Sees[c]
  BY <1>4 DEF Hearing, LookingUp
<1>7. \A t \in new : /\ t \in BcTask /\ t.client \in Hearing(o0) \cap OfPortfolio
                     /\ t.kind = "portfolio" /\ t.got = Nothing
  <2> SUFFICES ASSUME NEW c \in Hearing(o0) \cap OfPortfolio
               PROVE  LET t == Task(c, "portfolio", by, o0)
                      IN  t \in BcTask /\ t.client = c /\ t.kind = "portfolio" /\ t.got = Nothing
    OBVIOUS
  <2>1. c \in Clients /\ k \in Nat
    BY <1>2, <1>6
  <2> HIDE DEF k, o0
  <2> QED BY <1>5, <2>1, BcStreamsAre, TaskIs
<1>8. \A c \in Hearing(o0) \cap OfPortfolio : Task(c, "portfolio", by, o0) \in new
  OBVIOUS
<1>9. \A c \in Hearing(o0) \cap OfPortfolio : Task(c, "portfolio", by, o0).client = c
  BY DEF Task
<1> HIDE DEF new, e, k
<1>10. Produced'
  BY <1>1, <1>4 DEF Produced
<1>11. LookingUp'
  BY <1>1, <1>3, <1>4, <1>6, <1>7 DEF LookingUp
<1>12. Showing'
  <2>1. ASSUME NEW c \in Clients, NEW o \in PaperOrders
        PROVE  shown'[c][o] = IF c \in Hearing(o0) \ OfPortfolio /\ o = o0 THEN e.status ELSE shown[c][o]
    BY <1>3, <1>4, <1>5 DEF Showing
  <2>2. shown' \in [Clients -> [PaperOrders -> {Nothing, Live, Filled}]]
    <3>1. \A c \in Clients : shown'[c] \in [PaperOrders -> {Nothing, Live, Filled}]
      BY <1>3, <1>4, <1>5 DEF Showing
    <3> QED BY <1>3, <3>1
  <2>3. ASSUME NEW c \in Clients, NEW o \in PaperOrders
        PROVE  /\ shown'[c][o] # Nothing => o \in Sees[c] /\ stage[o] >= 1 /\ c \in open
               /\ shown'[c][o] = Filled => stage[o] >= 4
    <3>1. CASE c \in Hearing(o0) \ OfPortfolio /\ o = o0
      BY <1>5, <1>6, <2>1, <3>1, StatusesDiffer
    <3>2. CASE ~(c \in Hearing(o0) \ OfPortfolio /\ o = o0)
      BY <1>4, <2>1, <3>2 DEF Showing
    <3> QED BY <3>1, <3>2
  <2>4. ASSUME NEW c \in open \ OfPortfolio, NEW o \in PaperOrders, <<c, o>> \notin excused', Past(o)'
        PROVE  ~BelievesLive(c, o)'
    <3>1. c \in Clients /\ <<c, o>> \notin excused
      BY <1>3, <1>6, <2>4
    <3>2. PICK i \in 1..Len(events["order"]) :
              i <= k /\ events["order"][i].order = o /\ events["order"][i].status = Filled
      BY <1>1, <1>2, <2>4 DEF Past
    <3>3. CASE i # k
      <4>1. Past(o)
        <5>1. i <= Position
          BY <1>2, <3>2, <3>3 DEF k
        <5> QED BY <3>2, <5>1 DEF Past
      <4>2. ~BelievesLive(c, o)
        BY <1>4, <2>4, <3>1, <4>1 DEF Showing
      <4>3. shown'[c][o] # Live
        <5>1. CASE o = o0 /\ e.status = Live
          <6>1. k < i
            BY <1>2, <1>4, <3>2, <5>1 DEF Produced, e
          <6> QED BY <1>2, <3>2, <6>1
        <5>2. CASE o = o0 /\ e.status = Filled
          BY <2>1, <3>1, <4>2, <5>2, StatusesDiffer DEF BelievesLive
        <5>3. CASE o # o0
          BY <2>1, <3>1, <4>2, <5>3 DEF BelievesLive
        <5> QED BY <1>5, <5>1, <5>2, <5>3
      <4> QED BY <1>3, <1>7, <4>2, <4>3, StatusesDiffer DEF BelievesLive
    <3>4. CASE i = k
      <4>1. o = o0 /\ e.status = Filled
        BY <3>2, <3>4 DEF e
      <4>2. shown'[c][o] # Live
        <5>1. CASE c \in Hearing(o0)
          BY <2>1, <2>4, <3>1, <4>1, <5>1, StatusesDiffer
        <5>2. CASE c \notin Hearing(o0)
          <6>1. shown[c][o] = Nothing
            BY <1>4, <2>4, <3>1, <4>1, <5>2 DEF Hearing, Showing
          <6> QED BY <2>1, <3>1, <5>2, <6>1, StatusesDiffer
        <5> QED BY <5>1, <5>2
      <4>3. ASSUME NEW t \in tasks, t.client = c, t.order = o, t.kind = "order", t.got = Live
            PROVE  FALSE
        <5>1. <<t.client, o0>> \in Overtaken(o0)
          BY <4>1, <4>3 DEF Overtaken
        <5> QED BY <1>3, <2>4, <4>1, <4>3, <5>1
      <4> QED BY <1>3, <1>7, <4>2, <4>3, StatusesDiffer DEF BelievesLive
    <3> QED BY <3>3, <3>4
  <2> QED BY <1>1, <2>2, <2>3, <2>4 DEF Showing
<1>13. Portfolios'
  <2>1. \A c \in Clients : Positions(c)' = Positions(c) /\ Positions(c) \in Nat
    BY <1>1, PositionsAre DEF Positions
  <2>2. atEvent' \in [Clients -> Nat] /\ \A c \in Clients : atEvent'[c] <= Positions(c)'
    <3>1. ASSUME NEW c \in Clients
          PROVE  atEvent'[c] \in Nat /\ atEvent'[c] <= Positions(c)'
      BY <1>3, <1>4, <2>1 DEF Portfolios
    <3>2. atEvent' = [c \in Clients |-> atEvent'[c]]
      BY <1>3
    <3> QED BY <3>1, <3>2
  <2>3. ASSUME NEW c \in OfPortfolio \ crossed'
        PROVE  /\ \A t, u \in Built(c)' : t = u
               /\ ~WillBuild(c)' =>
                     /\ \A t \in Built(c)' : atEvent'[c] <= t.got
                     /\ Built(c)' = {} /\ portfolio'[c] # Nothing => atEvent'[c] <= portfolio'[c]
    <3>1. Built(c)' = Built(c) /\ c \in Clients /\ c \notin crossed
      BY <1>1, <1>3, <1>7, BroadcastAssumption DEF Built
    <3>2. CASE c \in Hearing(o0)
      <4>1. WillBuild(c)'
        BY <1>3, <1>7, <1>8, <1>9, <3>2 DEF WillBuild
      <4> QED BY <1>4, <3>1, <4>1 DEF Portfolios
    <3>3. CASE c \notin Hearing(o0)
      <4>1. WillBuild(c)' <=> WillBuild(c)
        BY <1>3, <1>7, <3>3 DEF WillBuild
      <4>2. atEvent'[c] = atEvent[c] /\ portfolio' = portfolio
        BY <1>1, <1>3, <3>1, <3>3
      <4> QED BY <1>4, <3>1, <4>1, <4>2 DEF Portfolios
    <3> QED BY <3>2, <3>3
  <2> QED BY <1>1, <1>4, <2>2, <2>3 DEF Portfolios
<1>14. Listening'
  BY <1>1, <1>4 DEF Listening
<1> QED BY <1>2, <1>10, <1>11, <1>12, <1>13, <1>14 DEF SocketsInv

(* Tasks that are neither of a portfolio nor of what a client believes.     *)
LEMMA TasksKeepShowing ==
    ASSUME SocketsInv, UNCHANGED <<stage, events, open, shown, excused>>, Position' = Position,
           \A c \in open, o \in PaperOrders : Past(o) /\ BelievesLive(c, o)' => BelievesLive(c, o)
    PROVE  Showing'
<1>1. Showing
  BY DEF SocketsInv
<1>2. \A o : Past(o)' => Past(o)
  BY DEF Past
<1> QED BY <1>1, <1>2 DEF Showing

LEMMA TasksKeepPortfolios ==
    ASSUME SocketsInv, UNCHANGED <<stage, portfolio, atEvent, crossed>>,
           \A c : Built(c)' = Built(c) /\ (WillBuild(c)' <=> WillBuild(c))
    PROVE  Portfolios'
<1>1. \A c : Positions(c)' = Positions(c)
  BY DEF Positions
<1> QED BY <1>1 DEF SocketsInv, Portfolios

LEMMA FillEventKeepsSockets ==
    ASSUME SocketsInv, Delivers("fill")
    PROVE  SocketsInv'
<1> DEFINE k == sent["fill"] + 1
           o0 == events["fill"][k].order
           by == <<"fill", k>>
           looks == {Task(c, "order", by, o0) : c \in open \ OfPortfolio}
           owns == {Task(c, "owner", by, o0) : c \in open \cap OfPortfolio}
<1>1. /\ loops["fill"] = "on" /\ sent["fill"] < cursor["fill"] /\ sent' = [sent EXCEPT !["fill"] = @ + 1]
      /\ FillEvent(events["fill"][sent'["fill"]].order, <<"fill", sent'["fill"]>>)
      /\ UNCHANGED <<stage, events, loops, cursor, open, portfolio, crashes, deaf, crossed>>
  BY DEF Delivers, producerVars
<1>2. /\ k \in 1..Len(events["fill"]) /\ sent'["fill"] = k /\ events["fill"][k] \in OrderStage
      /\ Looping' /\ Position' = Position
  BY <1>1, NextIs, BcStreamsAre
<1>3. tasks' = tasks \cup looks \cup owns /\ UNCHANGED <<shown, atEvent, excused, crossed>>
  BY <1>1, <1>2 DEF FillEvent
<1>4. Produced /\ LookingUp /\ Showing /\ Portfolios /\ Listening
  BY DEF SocketsInv
<1>5. o0 \in PaperOrders /\ stage[o0] >= 3 /\ open \subseteq Clients
  BY <1>2, <1>4 DEF OrderStage, Produced, LookingUp
<1>6. \A t \in looks : t \in BcTask /\ t.client \in open /\ t.kind = "order" /\ t.order = o0 /\ t.got = Nothing
  <2> SUFFICES ASSUME NEW c \in open \ OfPortfolio
               PROVE  LET t == Task(c, "order", by, o0)
                      IN  t \in BcTask /\ t.client = c /\ t.kind = "order" /\ t.order = o0 /\ t.got = Nothing
    OBVIOUS
  <2>1. c \in Clients /\ k \in Nat
    BY <1>2, <1>5
  <2> HIDE DEF k, o0
  <2> QED BY <1>5, <2>1, BcStreamsAre, TaskIs
<1>7. \A t \in owns : t \in BcTask /\ t.client \in open /\ t.kind = "owner" /\ t.got = Nothing
  <2> SUFFICES ASSUME NEW c \in open \cap OfPortfolio
               PROVE  LET t == Task(c, "owner", by, o0)
                      IN  t \in BcTask /\ t.client = c /\ t.kind = "owner" /\ t.got = Nothing
    OBVIOUS
  <2>1. c \in Clients /\ k \in Nat
    BY <1>2, <1>5
  <2> HIDE DEF k, o0
  <2> QED BY <1>5, <2>1, BcStreamsAre, TaskIs
<1> HIDE DEF looks, owns, o0
<1>8. Produced'
  BY <1>1, <1>4 DEF Produced
<1>9. LookingUp'
  BY <1>1, <1>3, <1>4, <1>5, <1>6, <1>7, StatusesDiffer DEF LookingUp
<1>10. Showing'
  <2>1. \A c, o : BelievesLive(c, o)' => BelievesLive(c, o)
    BY <1>3, <1>6, <1>7, StatusesDiffer DEF BelievesLive
  <2> QED BY <1>1, <1>2, <1>3, <2>1, TasksKeepShowing
<1>11. Portfolios'
  <2>1. \A c : Built(c)' = Built(c)
    BY <1>3, <1>6, <1>7 DEF Built
  <2>2. \A c : WillBuild(c)' <=> WillBuild(c)
    BY <1>3, <1>6, <1>7 DEF WillBuild
  <2> QED BY <1>1, <1>3, <2>1, <2>2, TasksKeepPortfolios
<1>12. Listening'
  BY <1>1, <1>4 DEF Listening
<1> QED BY <1>2, <1>8, <1>9, <1>10, <1>11, <1>12 DEF SocketsInv

-----------------------------------------------------------------------------
(* The lookups.                                                             *)
LEMMA TaskKeepsRest ==
    ASSUME SocketsInv, UNCHANGED <<stage, events, loops, cursor, sent, open, crashes, deaf>>
    PROVE  Produced' /\ Looping' /\ Listening' /\ Position' = Position /\ \A o : Past(o)' <=> Past(o)
<1>1. Produced' /\ Looping' /\ Listening'
  BY DEF SocketsInv, Produced, Looping, Listening
<1>2. Position' = Position
  BY DEF Position
<1> QED BY <1>1, <1>2 DEF Past

LEMMA LookupKeepsSockets ==
    ASSUME SocketsInv, NEW t \in tasks,
           LooksUp(t) \/ (t.kind # "portfolio" /\ t.got = Nothing /\ Ends(t)),
           UNCHANGED <<producerVars, loopVars, open, shown, portfolio, crashes, deaf, atEvent, excused, crossed>>
    PROVE  SocketsInv'
<1>1. UNCHANGED <<stage, events, loops, cursor, sent, open, shown, portfolio, crashes, deaf, atEvent, excused, crossed>>
  BY DEF producerVars, loopVars
<1>2. Produced' /\ Looping' /\ Listening' /\ Position' = Position
  BY <1>1, TaskKeepsRest
<1>3. Produced /\ LookingUp /\ t \in BcTask /\ t.order \in PaperOrders
  BY DEF SocketsInv, LookingUp, BcTask
<1>4. CASE LooksUp(t)
  <2> DEFINE u == [t EXCEPT !.got = RowOf(t.order)]
  <2>1. t.kind = "order" /\ t.got = Nothing /\ tasks' = (tasks \ {t}) \cup {u}
    BY <1>4 DEF LooksUp, Becomes
  <2>2. RowOf(t.order) \in {Nothing, Live, Filled} /\ (RowOf(t.order) = Filled => stage[t.order] >= 4)
    BY <1>3, RowsAre
  <2>3. u \in BcTask /\ u.client = t.client /\ u.kind = "order" /\ u.order = t.order /\ u.got = RowOf(t.order)
    BY <1>3, <2>1, <2>2, StatusesDiffer DEF BcTask
  <2> HIDE DEF u
  <2>4. LookingUp'
    BY <1>1, <1>3, <2>1, <2>2, <2>3 DEF LookingUp
  <2>5. Showing'
    <3>1. ASSUME NEW c \in open, NEW o \in PaperOrders, Past(o), BelievesLive(c, o)'
          PROVE  BelievesLive(c, o)
      <4>1. RowOf(o) = Filled
        BY <3>1, PastIsFilled
      <4> QED BY <1>1, <2>1, <2>3, <3>1, <4>1, StatusesDiffer DEF BelievesLive
    <3> QED BY <1>1, <1>2, <3>1, TasksKeepShowing
  <2>6. Portfolios'
    <3>1. \A c : Built(c)' = Built(c)
      BY <2>1, <2>3 DEF Built
    <3>2. \A c : WillBuild(c)' <=> WillBuild(c)
      BY <2>1, <2>3 DEF WillBuild
    <3> QED BY <1>1, <3>1, <3>2, TasksKeepPortfolios
  <2> QED BY <1>2, <2>4, <2>5, <2>6 DEF SocketsInv
<1>5. CASE t.kind # "portfolio" /\ t.got = Nothing /\ Ends(t)
  <2>1. tasks' = tasks \ {t}
    BY <1>5 DEF Ends
  <2>2. LookingUp'
    BY <1>1, <1>3, <2>1 DEF LookingUp
  <2>3. Showing'
    <3>1. \A c, o : BelievesLive(c, o)' => BelievesLive(c, o)
      BY <1>1, <2>1 DEF BelievesLive
    <3> QED BY <1>1, <1>2, <3>1, TasksKeepShowing
  <2>4. Portfolios'
    <3>1. \A c : Built(c)' = Built(c)
      BY <1>5, <2>1 DEF Built
    <3>2. \A c : WillBuild(c)' <=> WillBuild(c)
      BY <1>5, <2>1 DEF WillBuild
    <3> QED BY <1>1, <3>1, <3>2, TasksKeepPortfolios
  <2> QED BY <1>2, <2>2, <2>3, <2>4 DEF SocketsInv
<1> QED BY <1>4, <1>5

LEMMA SurfacesKeepsSockets ==
    ASSUME SocketsInv, NEW t \in tasks, Surfaces(t),
           UNCHANGED <<producerVars, loopVars, open, portfolio, crashes, deaf, atEvent, excused, crossed>>
    PROVE  SocketsInv'
<1>1. UNCHANGED <<stage, events, loops, cursor, sent, open, portfolio, crashes, deaf, atEvent, excused, crossed>>
  BY DEF producerVars, loopVars
<1>2. Produced' /\ Looping' /\ Listening' /\ Position' = Position /\ \A o : Past(o)' <=> Past(o)
  BY <1>1, TaskKeepsRest
<1>3. /\ t.kind = "order" /\ t.got # Nothing /\ tasks' = tasks \ {t}
      /\ shown' = IF t.order \in Sees[t.client]
                  THEN [shown EXCEPT ![t.client][t.order] = t.got] ELSE shown
  BY DEF Surfaces, Ends
<1>4. Produced /\ LookingUp /\ Showing
  BY DEF SocketsInv
<1>5. /\ t.client \in open /\ t.client \in Clients /\ t.order \in PaperOrders /\ stage[t.order] >= 3
      /\ t.got \in {Live, Filled} /\ (t.got = Filled => stage[t.order] >= 4) /\ stage[t.order] \in 0..6
  BY <1>3, <1>4 DEF LookingUp, BcTask, Produced, Stages
<1>6. LookingUp'
  BY <1>1, <1>3, <1>4 DEF LookingUp
<1>7. Showing'
  <2> DEFINE here(c, o) == c = t.client /\ o = t.order /\ t.order \in Sees[t.client]
  <2>1. ASSUME NEW c \in Clients, NEW o \in PaperOrders
        PROVE  shown'[c][o] = IF here(c, o) THEN t.got ELSE shown[c][o]
    BY <1>3, <1>4, <1>5 DEF Showing
  <2>2. shown' \in [Clients -> [PaperOrders -> {Nothing, Live, Filled}]]
    BY <1>3, <1>4, <1>5 DEF Showing
  <2>3. ASSUME NEW c \in Clients, NEW o \in PaperOrders
        PROVE  /\ shown'[c][o] # Nothing => o \in Sees[c] /\ stage[o] >= 1 /\ c \in open
               /\ shown'[c][o] = Filled => stage[o] >= 4
    <3>1. CASE here(c, o)
      BY <1>5, <2>1, <3>1
    <3>2. CASE ~here(c, o)
      BY <1>4, <2>1, <3>2 DEF Showing
    <3> QED BY <3>1, <3>2
  <2>4. ASSUME NEW c \in open \ OfPortfolio, NEW o \in PaperOrders, <<c, o>> \notin excused, Past(o)
        PROVE  ~BelievesLive(c, o)'
    <3>1. ~BelievesLive(c, o) /\ c \in Clients
      BY <1>4, <2>4 DEF Showing, LookingUp
    <3>2. shown'[c][o] # Live
      BY <1>3, <2>1, <3>1 DEF BelievesLive
    <3> QED BY <1>3, <3>1, <3>2 DEF BelievesLive
  <2> QED BY <1>1, <1>2, <2>2, <2>3, <2>4 DEF Showing
<1>8. Portfolios'
  <2>1. \A c : Built(c)' = Built(c)
    BY <1>3 DEF Built
  <2>2. \A c : WillBuild(c)' <=> WillBuild(c)
    BY <1>3 DEF WillBuild
  <2> QED BY <1>1, <2>1, <2>2, TasksKeepPortfolios
<1> QED BY <1>2, <1>6, <1>7, <1>8 DEF SocketsInv

LEMMA FindsOwnerKeepsSockets ==
    ASSUME SocketsInv, NEW t \in tasks, FindsOwner(t),
           UNCHANGED <<producerVars, loopVars, open, shown, portfolio, crashes, deaf, excused, crossed>>
    PROVE  SocketsInv'
<1> DEFINE c0 == t.client
           u == [t EXCEPT !.kind = "portfolio"]
<1>1. UNCHANGED <<stage, events, loops, cursor, sent, open, shown, portfolio, crashes, deaf, excused, crossed>>
  BY DEF producerVars, loopVars
<1>2. Produced' /\ Looping' /\ Listening' /\ Position' = Position
  BY <1>1, TaskKeepsRest
<1>3. /\ t.kind = "owner"
      /\ IF t.order \in Sees[c0]
         THEN tasks' = (tasks \ {t}) \cup {u} /\ atEvent' = [atEvent EXCEPT ![c0] = Positions(c0)]
         ELSE tasks' = tasks \ {t} /\ atEvent' = atEvent
  BY DEF FindsOwner, Becomes, Ends
<1>4. Produced /\ LookingUp /\ Portfolios
  BY DEF SocketsInv
<1>5. t \in BcTask /\ c0 \in Clients /\ c0 \in open /\ t.got = Nothing
  BY <1>3, <1>4 DEF LookingUp, BcTask
<1>6. u \in BcTask /\ u.client = c0 /\ u.kind = "portfolio" /\ u.got = Nothing
  BY <1>5 DEF BcTask
<1> HIDE DEF u
<1>7. LookingUp'
  BY <1>1, <1>3, <1>4, <1>5, <1>6 DEF LookingUp
<1>8. Showing'
  <2>1. \A c, o : BelievesLive(c, o)' => BelievesLive(c, o)
    BY <1>1, <1>3, <1>6, StatusesDiffer DEF BelievesLive
  <2> QED BY <1>1, <1>2, <2>1, TasksKeepShowing
<1>9. Portfolios'
  <2>1. \A c : Built(c)' = Built(c)
    BY <1>3, <1>5, <1>6 DEF Built
  <2>2. CASE t.order \notin Sees[c0]
    <3>1. \A c : WillBuild(c)' <=> WillBuild(c)
      BY <1>3, <2>2 DEF WillBuild
    <3> QED BY <1>1, <1>3, <2>1, <2>2, <3>1, TasksKeepPortfolios
  <2>3. CASE t.order \in Sees[c0]
    <3>1. \A c \in Clients : Positions(c)' = Positions(c) /\ Positions(c) \in Nat
      BY <1>1, PositionsAre DEF Positions
    <3>2. \A c \in Clients : atEvent'[c] = IF c = c0 THEN Positions(c0) ELSE atEvent[c]
      BY <1>3, <1>4, <1>5, <2>3 DEF Portfolios
    <3>3. atEvent' \in [Clients -> Nat]
      BY <1>3, <1>4, <1>5, <2>3, <3>1 DEF Portfolios
    <3>4. \A c \in Clients : atEvent'[c] <= Positions(c)'
      BY <1>4, <3>1, <3>2 DEF Portfolios
    <3>5. WillBuild(c0)'
      BY <1>3, <1>6, <2>3 DEF WillBuild
    <3>6. \A c : c # c0 => (WillBuild(c)' <=> WillBuild(c))
      BY <1>3, <1>6, <2>3 DEF WillBuild
    <3>7. ASSUME NEW c \in OfPortfolio \ crossed'
          PROVE  /\ \A x, y \in Built(c)' : x = y
                 /\ ~WillBuild(c)' =>
                       /\ \A x \in Built(c)' : atEvent'[c] <= x.got
                       /\ Built(c)' = {} /\ portfolio'[c] # Nothing => atEvent'[c] <= portfolio'[c]
      <4>1. c \in Clients /\ c \notin crossed /\ portfolio' = portfolio /\ Built(c)' = Built(c)
        BY <1>1, <2>1, BroadcastAssumption
      <4>2. CASE c = c0
        BY <1>4, <3>5, <4>1, <4>2 DEF Portfolios
      <4>3. CASE c # c0
        BY <1>4, <3>2, <3>6, <4>1, <4>3 DEF Portfolios
      <4> QED BY <4>2, <4>3
    <3> QED BY <1>1, <1>4, <3>3, <3>4, <3>7 DEF Portfolios
  <2> QED BY <2>2, <2>3
<1> QED BY <1>2, <1>7, <1>8, <1>9 DEF SocketsInv

LEMMA BuildsKeepsSockets ==
    ASSUME SocketsInv, NEW t \in tasks, Builds(t),
           crossed' = IF InFlight(t.client) THEN crossed \cup {t.client} ELSE crossed,
           UNCHANGED <<producerVars, loopVars, open, shown, portfolio, crashes, deaf, atEvent, excused>>
    PROVE  SocketsInv'
<1> DEFINE c0 == t.client
           u == [t EXCEPT !.got = Positions(c0)]
<1>1. UNCHANGED <<stage, events, loops, cursor, sent, open, shown, portfolio, crashes, deaf, atEvent, excused>>
  BY DEF producerVars, loopVars
<1>2. Produced' /\ Looping' /\ Listening' /\ Position' = Position
  BY <1>1, TaskKeepsRest
<1>3. t.kind = "portfolio" /\ t.got = Nothing /\ tasks' = (tasks \ {t}) \cup {u}
  BY DEF Builds, Becomes
<1>4. Produced /\ LookingUp /\ Portfolios
  BY DEF SocketsInv
<1>5. t \in BcTask /\ c0 \in Clients /\ c0 \in open
  BY <1>3, <1>4 DEF LookingUp, BcTask
<1>6. \A c \in Clients : Positions(c)' = Positions(c) /\ Positions(c) \in Nat
  BY <1>1, PositionsAre DEF Positions
<1>7. /\ u \in BcTask /\ u.client = c0 /\ u.kind = "portfolio" /\ u.got = Positions(c0) /\ u.got # Nothing
      /\ u.got \in Nat /\ atEvent[c0] <= u.got
  <2>1. Positions(c0) \in Nat /\ Positions(c0) # Nothing /\ atEvent[c0] <= Positions(c0)
    BY <1>4, <1>5, <1>6, BroadcastAssumption DEF Portfolios
  <2> QED BY <1>3, <1>5, <2>1 DEF BcTask
<1> HIDE DEF u
<1>8. LookingUp'
  BY <1>1, <1>3, <1>4, <1>5, <1>7 DEF LookingUp
<1>9. Showing'
  <2>1. \A c, o : BelievesLive(c, o)' => BelievesLive(c, o)
    BY <1>1, <1>3, <1>7 DEF BelievesLive
  <2> QED BY <1>1, <1>2, <2>1, TasksKeepShowing
<1>10. Portfolios'
  <2>1. ASSUME NEW c \in OfPortfolio \ crossed'
        PROVE  /\ \A x, y \in Built(c)' : x = y
               /\ ~WillBuild(c)' =>
                     /\ \A x \in Built(c)' : atEvent'[c] <= x.got
                     /\ Built(c)' = {} /\ portfolio'[c] # Nothing => atEvent'[c] <= portfolio'[c]
    <3>1. c \in Clients /\ c \notin crossed
      BY BroadcastAssumption
    <3>2. CASE c = c0
      <4>1. Built(c0) = {}
        <5>1. ~InFlight(c0)
          BY <2>1, <3>2
        <5> QED BY <5>1 DEF InFlight, Built
      <4>2. Built(c0)' = {u}
        BY <1>3, <1>7, <4>1 DEF Built
      <4> QED BY <1>1, <1>7, <3>2, <4>2
    <3>3. CASE c # c0
      <4>1. Built(c)' = Built(c) /\ (WillBuild(c)' <=> WillBuild(c))
        BY <1>3, <1>7, <3>3 DEF Built, WillBuild
      <4> QED BY <1>1, <1>4, <3>1, <4>1 DEF Portfolios
    <3> QED BY <3>2, <3>3
  <2> QED BY <1>1, <1>4, <1>6, <2>1 DEF Portfolios
<1> QED BY <1>2, <1>8, <1>9, <1>10 DEF SocketsInv

LEMMA PushesKeepsSockets ==
    ASSUME SocketsInv, NEW t \in tasks, Pushes(t),
           UNCHANGED <<producerVars, loopVars, open, shown, crashes, deaf, atEvent, excused, crossed>>
    PROVE  SocketsInv'
<1> DEFINE c0 == t.client
<1>1. UNCHANGED <<stage, events, loops, cursor, sent, open, shown, crashes, deaf, atEvent, excused, crossed>>
  BY DEF producerVars, loopVars
<1>2. Produced' /\ Looping' /\ Listening' /\ Position' = Position
  BY <1>1, TaskKeepsRest
<1>3. /\ t.kind = "portfolio" /\ t.got # Nothing /\ tasks' = tasks \ {t}
      /\ portfolio' = [portfolio EXCEPT ![c0] = t.got]
  BY DEF Pushes, Ends
<1>4. Produced /\ LookingUp /\ Portfolios
  BY DEF SocketsInv
<1>5. t \in BcTask /\ c0 \in Clients /\ c0 \in open /\ t.got \in Nat
  BY <1>3, <1>4 DEF LookingUp, BcTask
<1>6. LookingUp'
  BY <1>1, <1>3, <1>4 DEF LookingUp
<1>7. Showing'
  <2>1. \A c, o : BelievesLive(c, o)' => BelievesLive(c, o)
    BY <1>1, <1>3 DEF BelievesLive
  <2> QED BY <1>1, <1>2, <2>1, TasksKeepShowing
<1>8. Portfolios'
  <2>1. /\ portfolio' \in [Clients -> Nat \cup {Nothing}]
        /\ \A c \in Clients : portfolio'[c] = IF c = c0 THEN t.got ELSE portfolio[c]
    BY <1>3, <1>4, <1>5 DEF Portfolios
  <2>2. \A c : WillBuild(c)' <=> WillBuild(c)
    BY <1>3 DEF WillBuild
  <2>3. \A c : Built(c)' = Built(c) \ {t}
    BY <1>3 DEF Built
  <2>4. \A c \in Clients : Positions(c)' = Positions(c)
    BY <1>1 DEF Positions
  <2>5. ASSUME NEW c \in OfPortfolio \ crossed'
        PROVE  /\ \A x, y \in Built(c)' : x = y
               /\ ~WillBuild(c)' =>
                     /\ \A x \in Built(c)' : atEvent'[c] <= x.got
                     /\ Built(c)' = {} /\ portfolio'[c] # Nothing => atEvent'[c] <= portfolio'[c]
    <3>1. c \in Clients /\ c \notin crossed
      BY <1>1, BroadcastAssumption
    <3>2. CASE c = c0
      <4>1. t \in Built(c)
        BY <1>3, <3>2 DEF Built
      <4>2. ~WillBuild(c) => atEvent[c] <= t.got
        BY <1>4, <3>1, <4>1 DEF Portfolios
      <4>3. \A x, y \in Built(c) : x = y
        BY <1>4, <3>1 DEF Portfolios
      <4>4. Built(c)' = {}
        BY <2>3, <4>1, <4>3
      <4> QED BY <1>1, <2>1, <2>2, <3>1, <3>2, <4>2, <4>4
    <3>3. CASE c # c0
      <4>1. Built(c)' = Built(c)
        BY <2>3, <3>3 DEF Built
      <4> QED BY <1>1, <1>4, <2>1, <2>2, <3>1, <3>3, <4>1 DEF Portfolios
    <3> QED BY <3>2, <3>3
  <2> QED BY <1>1, <1>4, <2>1, <2>4, <2>5 DEF Portfolios
<1> QED BY <1>2, <1>6, <1>7, <1>8 DEF SocketsInv

LEMMA SocketsStep ==
    ASSUME SocketsInv, [BroadcastNext]_broadcastVars
    PROVE  SocketsInv'
<1>1. CASE \E o \in PaperOrders : Places(o)
  BY <1>1, PlacesKeepsSockets
<1>2. CASE \E c \in Clients : Connects(c) \/ Disconnects(c)
  BY <1>2, ConnectsKeepsSockets, DisconnectsKeepsSockets
<1>3. ASSUME NEW s \in BcStreams, Created(s) \/ CreationFails(s) \/ Reads(s) \/ DropsRest(s) \/ Delivers(s)
      PROVE  SocketsInv'
  BY <1>3, CreatedKeepsSockets, CreationFailsKeepsSockets, ReadsKeepsSockets, DropsKeepsSockets,
     OrderEventKeepsSockets, FillEventKeepsSockets, BcStreamsAre
<1>4. ASSUME NEW t \in tasks, TaskStep(t)
      PROVE  SocketsInv'
  BY <1>4, LookupKeepsSockets, BuildsKeepsSockets, SurfacesKeepsSockets, FindsOwnerKeepsSockets,
     PushesKeepsSockets DEF TaskStep
<1>5. CASE ApiCrashes
  BY <1>5, CrashKeepsSockets
<1>6. CASE UNCHANGED broadcastVars
  <2>1. UNCHANGED <<stage, events, loops, cursor, sent, open, tasks, shown, portfolio, crashes, deaf, atEvent,
                    excused, crossed>>
    BY <1>6 DEF broadcastVars, producerVars, loopVars, clientVars
  <2>2. Produced' /\ Looping' /\ Listening' /\ Position' = Position
    BY <2>1, TaskKeepsRest
  <2>3. Showing'
    BY <2>1, <2>2, TasksKeepShowing DEF BelievesLive
  <2>4. LookingUp' /\ Portfolios'
    BY <2>1, TasksKeepPortfolios DEF SocketsInv, LookingUp, Built, WillBuild
  <2> QED BY <2>2, <2>3, <2>4 DEF SocketsInv
<1> QED BY <1>1, <1>2, <1>3, <1>4, <1>5, <1>6 DEF BroadcastNext

LEMMA SocketsSay ==
    ASSUME SocketsInv
    PROVE  BroadcastInv
<1>1. Produced /\ Looping /\ LookingUp /\ Showing /\ Portfolios /\ Listening
  BY DEF SocketsInv
<1>2. BroadcastTypeOK
  <2>1. \A s \in BcStreams : \A i \in DOMAIN events[s] : events[s][i].order \in PaperOrders
    <3> SUFFICES ASSUME NEW s \in BcStreams, NEW i \in DOMAIN events[s] PROVE events[s][i] \in OrderStage
      BY DEF OrderStage
    <3> QED BY <1>1, EventsAre
  <2>2. \A s \in BcStreams :
           /\ cursor[s] \in 0..Len(events[s]) \cup {Nothing}
           /\ loops[s] = "on" => cursor[s] # Nothing /\ sent[s] <= cursor[s]
    <3> SUFFICES ASSUME NEW s \in BcStreams PROVE cursor[s] \in 0..Len(events[s]) \cup {Nothing}
      BY <1>1 DEF Looping
    <3>1. Len(events[s]) \in Nat
      BY <1>1, EventsAre
    <3> QED BY <1>1, <3>1 DEF Looping
  <2> QED BY <1>1, <2>1, <2>2
          DEF BroadcastTypeOK, Produced, Looping, LookingUp, Showing, Portfolios, Listening
<1>3. OnlyOwn
  BY <1>1 DEF Showing, OnlyOwn
<1>4. ShownIsCurrent
  <2> SUFFICES ASSUME NEW c \in open \ OfPortfolio, NEW o \in PaperOrders, Delivered("order"), Settled(o),
                      shown[c][o] # Nothing, <<c, o>> \notin excused
               PROVE  shown[c][o] = RowOf(o)
    BY DEF ShownIsCurrent
  <2>1. c \in Clients /\ stage[o] \in 0..6 /\ stage[o] \notin {1, 4}
    BY <1>1 DEF LookingUp, Produced, Stages, Settled
  <2>2. shown[c][o] \in {Live, Filled} /\ stage[o] >= 1 /\ (shown[c][o] = Filled => stage[o] >= 4)
    BY <1>1, <2>1 DEF Showing
  <2>3. CASE stage[o] \in {2, 3}
    <3>1. RowOf(o) = Live
      BY <1>1, <2>3, RowsAre
    <3> QED BY <2>2, <2>3, <3>1
  <2>4. CASE stage[o] >= 5
    <3>1. RowOf(o) = Filled
      BY <1>1, <2>1, <2>4, RowsAre
    <3>2. PICK i \in 1..Len(events["order"]) : events["order"][i].order = o /\ events["order"][i].status = Filled
      BY <1>1, <2>4 DEF Produced
    <3>3. Position = Len(events["order"])
      BY DEF Position, Delivered
    <3>4. i <= Position
      BY <1>1, <3>3, BcStreamsAre, EventsAre
    <3>5. ~BelievesLive(c, o)
      BY <1>1, <3>2, <3>4 DEF Past, Showing
    <3> QED BY <2>2, <3>1, <3>5 DEF BelievesLive
  <2> QED BY <2>1, <2>2, <2>3, <2>4
<1>5. PortfolioHoldsEvents
  <2> SUFFICES ASSUME NEW c \in open \cap OfPortfolio, \A t \in tasks : t.client # c, portfolio[c] # Nothing,
                      c \notin crossed
               PROVE  atEvent[c] <= portfolio[c]
    BY DEF PortfolioHoldsEvents
  <2>1. Built(c) = {} /\ ~WillBuild(c)
    BY DEF Built, WillBuild
  <2> QED BY <1>1, <2>1 DEF Portfolios
<1>6. ListenersAreServed
  BY <1>1 DEF Listening, ListenersAreServed
<1> QED BY <1>2, <1>3, <1>4, <1>5, <1>6 DEF BroadcastInv

(* For any number of clients, orders and crashes, in every order of events, *)
(* lookups and lost batches: a client is served with its own orders only,   *)
(* and what it was last sent is current but for the lookups that were       *)
(* overtaken and the pushes that have crossed.                              *)
THEOREM BroadcastInvHolds == BroadcastSpec => []BroadcastInv
<1>1. SocketsInv /\ [BroadcastNext]_broadcastVars => SocketsInv'
  BY SocketsStep
<1>2. SocketsInv => BroadcastInv
  BY SocketsSay
<1> QED BY SocketsStart, <1>1, <1>2, PTL DEF BroadcastSpec
=============================================================================
