------------------------------ MODULE WalletLink ------------------------------
(***************************************************************************)
(* routes/wallet.ts and routes/account.ts of the API, one action per await:*)
(* the challenge, the verification of its signature, and the live-trading  *)
(* switch with its audit event.  Nonces are in Redis, in the ephemeral     *)
(* store whose consume is a GET and a DEL; wallets, accounts and events are*)
(* in the database, where an address has one row.                          *)
(*                                                                         *)
(* A signature is the challenge it signs, or None for one that does not    *)
(* verify.  Requests refused before the first await are left out.          *)
(***************************************************************************)
EXTENDS Naturals, FiniteSets

CONSTANTS
    Requests,       \* the verify and live-trading requests of a behaviour
    Users,
    Addresses,      \* as the client spells them
    Lower,          \* the lower-case spelling of each address
    Holds,          \* <<user, lower-case address>>: who can sign for what
    MaxNonces,      \* bound on the challenges issued
    MayFail,        \* calls to Redis and the database may reject
    None

ASSUME WalletAssumption ==
    /\ Lower \in [Addresses -> Addresses]
    /\ MaxNonces \in Nat
    /\ MayFail \in BOOLEAN
    /\ None \notin Users /\ None \notin Nat

VARIABLES
    nonces,         \* Redis: the nonce of a user and a lower-case address
    challenges,     \* the challenges answered so far
    wallets,        \* the row of each address: its user, and verifiedAt # null
    enabled,        \* users with liveTradingEnabledAt # null
    recorded,       \* each user's last opt-in event in risk_events
    job, pc,        \* what each request asks for, and its next await
    found,          \* the nonce a verification has read, unless it was refused
    readTwice,      \* (history) nonces two requests read before one deleted it
    clean           \* (history) users whose last switch ran alone and unbroken

walletVars == <<nonces, challenges, wallets, enabled, recorded, job, pc, found, readTwice, clean>>

Challenges == [user : Users, address : Addresses, nonce : 1..MaxNonces]
Verify     == [kind : {"verify"}, user : Users, address : Addresses,
               signs : Challenges \cup {None}]
Switch     == [kind : {"on", "off"}, user : Users]
Unlinked   == [user |-> None, verified |-> FALSE]

WalletTypeOK ==
    /\ nonces \in [Users \X Addresses -> 1..MaxNonces \cup {None}]
    /\ challenges \subseteq Challenges
    /\ wallets \in [Addresses -> [user : Users \cup {None}, verified : BOOLEAN]]
    /\ enabled \subseteq Users
    /\ recorded \in [Users -> {"on", "off"}]
    /\ job \in [Requests -> Verify \cup Switch \cup {None}]
    /\ pc \in [Requests -> {"new", "get", "del", "find", "create", "mark",
                            "wallets", "set", "audit", "publish", "done"}]
    /\ found \in [Requests -> 1..MaxNonces \cup {None}]
    /\ readTwice \subseteq 1..MaxNonces
    /\ clean \subseteq Users

WalletInit ==
    /\ nonces = [k \in Users \X Addresses |-> None]
    /\ challenges = {}
    /\ wallets = [a \in Addresses |-> Unlinked]
    /\ enabled = {}
    /\ recorded = [u \in Users |-> "off"]
    /\ job = [r \in Requests |-> None]
    /\ pc = [r \in Requests |-> "new"]
    /\ found = [r \in Requests |-> None]
    /\ readTwice = {}
    /\ clean = Users

Goto(r, l) == pc' = [pc EXCEPT ![r] = l]

-----------------------------------------------------------------------------
(* wrong: the key without its user.                                         *)
SharedKey(u, a) == <<CHOOSE v \in Users : TRUE, Lower[a]>>

(* walletLinkNonceKey: the spelling of the address does not matter.         *)
KeyOf(u, a) == <<u, Lower[a]>>

(* POST /api/wallet/link/challenge.  A second challenge replaces the first. *)
Challenge(u, a) ==
    LET n == Cardinality(challenges) + 1
    IN  /\ n <= MaxNonces
        /\ nonces' = [nonces EXCEPT ![KeyOf(u, a)] = n]
        /\ challenges' = challenges \cup {[user |-> u, address |-> a, nonce |-> n]}
        /\ UNCHANGED <<wallets, enabled, recorded, job, pc, found, readTwice, clean>>

(* The five minutes of a nonce are over.                                    *)
NonceExpires(k) ==
    /\ nonces[k] # None
    /\ nonces' = [nonces EXCEPT ![k] = None]
    /\ UNCHANGED <<challenges, wallets, enabled, recorded, job, pc, found, readTwice, clean>>

-----------------------------------------------------------------------------
(* What a client can send: a challenge signed by a wallet it holds.         *)
Signed == {c \in challenges : <<c.user, Lower[c.address]>> \in Holds}

(* POST /api/wallet/link/verify.                                            *)
VerifyCall(r, u, a) ==
    /\ pc[r] = "new"
    /\ \E c \in Signed \cup {None} :
        job' = [job EXCEPT ![r] = [kind |-> "verify", user |-> u, address |-> a, signs |-> c]]
    /\ Goto(r, "get")
    /\ UNCHANGED <<nonces, challenges, wallets, enabled, recorded, found, readTwice, clean>>

(* consumeEphemeral reads the nonce ...                                     *)
ReadNonce(r) ==
    LET n == nonces[KeyOf(job[r].user, job[r].address)]
    IN  /\ pc[r] = "get"
        /\ found' = [found EXCEPT ![r] = n]
        /\ readTwice' = IF \E s \in Requests : pc[s] = "del" /\ found[s] = n /\ n # None
                        THEN readTwice \cup {n} ELSE readTwice
        /\ Goto(r, "del")
        /\ UNCHANGED <<nonces, challenges, wallets, enabled, recorded, job, clean>>

(* The message rebuilt from the nonce and the address must be the signed one.*)
SignatureValid(r) ==
    /\ found[r] # None /\ job[r].signs # None
    /\ job[r].signs.nonce = found[r]
    /\ job[r].signs.address = job[r].address

(* ... and deletes it, whatever comes of the signature.                     *)
DeleteNonce(r) ==
    /\ pc[r] = "del"
    /\ nonces' = [nonces EXCEPT ![KeyOf(job[r].user, job[r].address)] = None]
    /\ IF SignatureValid(r)
       THEN Goto(r, "find") /\ UNCHANGED found
       ELSE Goto(r, "done") /\ found' = [found EXCEPT ![r] = None]
    /\ UNCHANGED <<challenges, wallets, enabled, recorded, job, readTwice, clean>>

(* findByAddress: another account's address is refused, an own row reused.  *)
FindAddress(r) ==
    LET owner == wallets[job[r].address].user
    IN  /\ pc[r] = "find"
        /\ Goto(r, CASE owner = None        -> "create"
                     [] owner = job[r].user -> "mark"
                     [] OTHER               -> "done")
        /\ UNCHANGED <<nonces, challenges, wallets, enabled, recorded, job, found, readTwice, clean>>

(* wallets.create: the unique index throws if the address has come up since.*)
CreateWallet(r) ==
    LET a == job[r].address
    IN  /\ pc[r] = "create"
        /\ IF wallets[a].user = None
           THEN /\ wallets' = [wallets EXCEPT ![a] = [user |-> job[r].user, verified |-> FALSE]]
                /\ Goto(r, "mark")
           ELSE UNCHANGED wallets /\ Goto(r, "done")
        /\ UNCHANGED <<nonces, challenges, enabled, recorded, job, found, readTwice, clean>>

(* wallets.markVerified, and the answer.                                    *)
MarkVerified(r) ==
    LET a == job[r].address
    IN  /\ pc[r] = "mark"
        /\ wallets' = [wallets EXCEPT ![a] = [user |-> wallets[a].user, verified |-> TRUE]]
        /\ Goto(r, "done")
        /\ UNCHANGED <<nonces, challenges, enabled, recorded, job, found, readTwice, clean>>

-----------------------------------------------------------------------------
(* POST /api/account/live-trading, with its confirmation if enabled is true.*)
SwitchCall(r, u, k) ==
    /\ pc[r] = "new"
    /\ job' = [job EXCEPT ![r] = [kind |-> k, user |-> u]]
    /\ Goto(r, IF k = "on" THEN "wallets" ELSE "set")
    /\ UNCHANGED <<nonces, challenges, wallets, enabled, recorded, found, readTwice, clean>>

(* wrong: any wallet will do.                                               *)
HasWallet(u) == \E a \in Addresses : wallets[a].user = u

(* listForUser and hasVerifiedWallet.                                       *)
HasVerifiedWallet(u) == \E a \in Addresses : wallets[a].user = u /\ wallets[a].verified

ListWallets(r) ==
    /\ pc[r] = "wallets"
    /\ Goto(r, IF HasVerifiedWallet(job[r].user) THEN "set" ELSE "done")
    /\ UNCHANGED <<nonces, challenges, wallets, enabled, recorded, job, found, readTwice, clean>>

(* The switches of u between their two writes.                              *)
Unrecorded(u) == {r \in Requests : pc[r] = "audit" /\ job[r].user = u}

(* setLiveTradingEnabled.                                                   *)
SetEnabled(r) ==
    LET u == job[r].user
    IN  /\ pc[r] = "set"
        /\ enabled' = IF job[r].kind = "on" THEN enabled \cup {u} ELSE enabled \ {u}
        /\ clean' = IF Unrecorded(u) = {} THEN clean \cup {u} ELSE clean \ {u}
        /\ Goto(r, "audit")
        /\ UNCHANGED <<nonces, challenges, wallets, recorded, job, found, readTwice>>

(* recordAuditEvent: the row, then the event on its stream.                 *)
RecordSwitch(r) ==
    /\ pc[r] = "audit"
    /\ recorded' = [recorded EXCEPT ![job[r].user] = job[r].kind]
    /\ Goto(r, "publish")
    /\ UNCHANGED <<nonces, challenges, wallets, enabled, job, found, readTwice, clean>>

PublishSwitch(r) ==
    /\ pc[r] = "publish"
    /\ Goto(r, "done")
    /\ UNCHANGED <<nonces, challenges, wallets, enabled, recorded, job, found, readTwice, clean>>

(* An await rejects, or the process ends: nothing after it happens.         *)
Fails(r) ==
    /\ MayFail
    /\ pc[r] \notin {"new", "done"}
    /\ clean' = IF pc[r] = "audit" THEN clean \ {job[r].user} ELSE clean
    /\ found' = IF pc[r] = "del" THEN [found EXCEPT ![r] = None] ELSE found
    /\ Goto(r, "done")
    /\ UNCHANGED <<nonces, challenges, wallets, enabled, recorded, job, readTwice>>

Handler(r) ==
    \/ ReadNonce(r) \/ DeleteNonce(r) \/ FindAddress(r) \/ CreateWallet(r) \/ MarkVerified(r)
    \/ ListWallets(r) \/ SetEnabled(r) \/ RecordSwitch(r) \/ PublishSwitch(r)

WalletNext ==
    \/ \E u \in Users, a \in Addresses : Challenge(u, a)
    \/ \E k \in Users \X Addresses : NonceExpires(k)
    \/ \E r \in Requests :
        \/ \E u \in Users : \/ \E a \in Addresses : VerifyCall(r, u, a)
                            \/ \E k \in {"on", "off"} : SwitchCall(r, u, k)
        \/ Handler(r)
        \/ Fails(r)

WalletSpec == WalletInit /\ [][WalletNext]_walletVars

-----------------------------------------------------------------------------
(* An address is verified for an account only if that account was challenged*)
(* for it and a wallet it holds signed the answer: neither another's nonce, *)
(* nor an expired or replaced one, nor another spelling will do.            *)
VerifiedIsProved ==
    \A a \in Addresses : wallets[a].verified =>
        \E c \in Signed : c.user = wallets[a].user /\ c.address = a

(* "A nonce can never be reused for a second verification attempt", as far  *)
(* as it is true: two requests pass with one nonce only if both had read it *)
(* before either deleted it.                                                *)
Passed(r) == found[r] # None /\ pc[r] # "del"

NonceUsedOnce ==
    \A r, s \in Requests :
        Passed(r) /\ Passed(s) /\ r # s /\ found[r] = found[s] => found[r] \in readTwice

(* The last opt-in event of an account says what its switch says, as soon as*)
(* its requests are answered, unless one of them failed between its writes  *)
(* or two crossed there.                                                    *)
SwitchOnRecord ==
    \A u \in clean : Unrecorded(u) = {} => (recorded[u] = "on" <=> u \in enabled)

(* The routes keep the promises of AccountBook: an address stays with its   *)
(* account, whoever asks for it at once, and live trading is for accounts   *)
(* that have one.                                                           *)
Linked == [a \in Addresses |-> IF wallets[a].verified THEN wallets[a].user ELSE None]

Book == INSTANCE AccountBook WITH linked <- Linked, live <- enabled

ImplementsBook == Book!BookSpec

(* What a verification or a switch leaves behind, whoever runs beside it:   *)
(* proof of the address, a nonce that is used up, an event that is right.   *)
WalletInv == WalletTypeOK /\ VerifiedIsProved /\ NonceUsedOnce /\ SwitchOnRecord
=============================================================================
