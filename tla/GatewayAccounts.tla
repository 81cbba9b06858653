-------------------------- MODULE GatewayAccounts --------------------------
(***************************************************************************)
(* The gateway's accounts and what limits them: registration under         *)
(* accounts_mu with its file (gw_accounts.cpp), the login limiter, and the *)
(* daily quota of the AI relay (gw_usage.cpp), as the handlers of          *)
(* gw_proxy.cpp use them.  Password hashing and the upstream round happen  *)
(* between two looks at the same counter.                                  *)
(***************************************************************************)
EXTENDS Naturals, FiniteSets

CONSTANTS
    GaThreads,
    GaNames,       \* names that may register
    GaAdmin,       \* names of gateway.json
    GaNone,
    GaMaxAccounts, \* registration.max_accounts, 0 for no limit
    GaLimit,       \* ai.daily_limit
    GaMaxFails,    \* kMaxFailsPerWindow
    GaMaxFailures, \* bound: writes of a file that fail
    GaMaxRestarts  \* bound

ASSUME GaConstants ==
    /\ GaNames \cap GaAdmin = {} /\ GaNone \notin GaThreads
    /\ IsFiniteSet(GaAdmin) /\ IsFiniteSet(GaThreads)
    /\ {GaLimit, GaMaxFails} \subseteq Nat \ {0}
    /\ {GaMaxAccounts, GaMaxFailures, GaMaxRestarts} \subseteq Nat

VARIABLES
    gaFile, gaCfg,     \* registered_accounts.json; cfg.accounts
    gaMutex,           \* who holds accounts_mu
    gaFails, gaLocked, \* LoginRateLimiter: failures of a key's window; the locked keys
    gaUsed,            \* usage.json: rounds of today
    gaThread,          \* [GaThreads -> [op, arg]]
    gaFailures, gaRestarts

gaAccounts == <<gaFile, gaCfg, gaMutex>>
gaCounts   == <<gaFails, gaLocked, gaUsed>>
gaVars     == <<gaAccounts, gaCounts, gaThread, gaFailures, gaRestarts>>

\* The limiter's keys: the name of a login, and "__register__" for registrations.
GaKeys == {"login", "register"}

GaIdle == [op |-> "none", arg |-> GaNone]

GaInit ==
    /\ gaFile = {} /\ gaCfg = GaAdmin /\ gaMutex = GaNone
    /\ gaFails = [k \in GaKeys |-> 0] /\ gaLocked = {} /\ gaUsed = 0
    /\ gaThread = [th \in GaThreads |-> GaIdle]
    /\ gaFailures = 0 /\ gaRestarts = 0

GaGoto(th, o, a) == gaThread' = [gaThread EXCEPT ![th] = [op |-> o, arg |-> a]]
GaDone(th)       == gaThread' = [gaThread EXCEPT ![th] = GaIdle]
GaAt(th, o)      == gaThread[th].op = o

-----------------------------------------------------------------------------
(* LoginRateLimiter, and POST /api/auth/login: the limiter, the password,   *)
(* the limiter again                                                       *)

Allowed(k) == k \notin gaLocked

RecordSuccess(k) == gaFails' = [gaFails EXCEPT ![k] = 0] /\ gaLocked' = gaLocked \ {k}

RecordFail(k) ==
    IF gaFails[k] + 1 >= GaMaxFails
    THEN gaFails' = [gaFails EXCEPT ![k] = 0] /\ gaLocked' = gaLocked \cup {k}
    ELSE gaFails' = [gaFails EXCEPT ![k] = @ + 1] /\ UNCHANGED gaLocked

\* The window slides past its failures; the five minutes of a lock end.
LimiterForgets ==
    /\ \E k \in GaKeys : (gaFails[k] > 0 \/ ~Allowed(k)) /\ RecordSuccess(k)
    /\ UNCHANGED <<gaAccounts, gaUsed, gaThread, gaFailures, gaRestarts>>

LoginAllowed(th) ==
    /\ gaThread[th] = GaIdle /\ Allowed("login")
    /\ GaGoto(th, "password", GaNone)
    /\ UNCHANGED <<gaAccounts, gaCounts, gaFailures, gaRestarts>>

LoginChecked(th) ==
    /\ GaAt(th, "password")
    /\ (gaCfg # {} /\ RecordSuccess("login")) \/ RecordFail("login")
    /\ GaDone(th)
    /\ UNCHANGED <<gaAccounts, gaUsed, gaFailures, gaRestarts>>

-----------------------------------------------------------------------------
(* POST /api/auth/register: the limiter, the request's own mistakes, the   *)
(* account under accounts_mu, the limiter again                            *)

RegisterAllowed(th) ==
    /\ gaThread[th] = GaIdle /\ Allowed("register")
    /\ GaGoto(th, "register", GaNone)
    /\ UNCHANGED <<gaAccounts, gaCounts, gaFailures, gaRestarts>>

\* An invalid name, a weak password, a wrong invite code.
RegisterInvalid(th) ==
    /\ GaAt(th, "register")
    /\ RecordFail("register") /\ GaDone(th)
    /\ UNCHANGED <<gaAccounts, gaUsed, gaFailures, gaRestarts>>

\* Mutant: the checks and the insertion are not one critical section.
MayRegisterUnlocked == TRUE

MayRegister == gaMutex = GaNone

HasRoom(accounts) == GaMaxAccounts = 0 \/ Cardinality(accounts) < GaMaxAccounts

\* Neither the name nor the limit is in the way.
Registrable(n) == n \notin gaCfg /\ HasRoom(gaCfg)

RegisterChecks(th) ==
    /\ GaAt(th, "register") /\ MayRegister
    /\ \E n \in GaNames \cup GaAdmin :
         \/ /\ Registrable(n)
            /\ gaMutex' = th /\ GaGoto(th, "add", n)
            /\ UNCHANGED <<gaFails, gaLocked>>
         \/ ~Registrable(n) /\ RecordFail("register") /\ GaDone(th) /\ UNCHANGED gaMutex
    /\ UNCHANGED <<gaFile, gaCfg, gaUsed, gaFailures, gaRestarts>>

\* RegisteredAccounts::add: the file is written, or the entry is taken back.
RegisterAdds(th) ==
    /\ GaAt(th, "add")
    /\ \/ /\ gaFile' = gaFile \cup {gaThread[th].arg}
          /\ GaGoto(th, "publish", gaThread[th].arg)
          /\ UNCHANGED <<gaMutex, gaFails, gaLocked, gaFailures>>
       \/ /\ gaFailures < GaMaxFailures
          /\ gaFailures' = gaFailures + 1
          /\ RecordFail("register")
          /\ gaMutex' = GaNone /\ GaDone(th) /\ UNCHANGED gaFile
    /\ UNCHANGED <<gaCfg, gaUsed, gaRestarts>>

RegisterPublishes(th) ==
    /\ GaAt(th, "publish")
    /\ gaCfg' = gaCfg \cup {gaThread[th].arg}
    /\ gaMutex' = GaNone
    /\ GaGoto(th, "registered", GaNone)
    /\ UNCHANGED <<gaFile, gaCounts, gaFailures, gaRestarts>>

\* After the lock: the account's directory is made, and the limiter told.
RegisterSucceeds(th) ==
    /\ GaAt(th, "registered")
    /\ RecordSuccess("register") /\ GaDone(th)
    /\ UNCHANGED <<gaAccounts, gaUsed, gaFailures, gaRestarts>>

-----------------------------------------------------------------------------
(* POST /api/ai/relay/chat: the quota is read, the round made, then charged *)

\* Mutant: one round more than the limit.
OverLimitLate == gaUsed > GaLimit

OverLimit == gaUsed >= GaLimit

RelayAdmitted(th) ==
    /\ gaThread[th] = GaIdle /\ ~OverLimit
    /\ GaGoto(th, "relay", GaNone)
    /\ UNCHANGED <<gaAccounts, gaCounts, gaFailures, gaRestarts>>

\* Only a round that was delivered is charged.
RelayEnds(th) ==
    /\ GaAt(th, "relay")
    /\ gaUsed' \in {gaUsed, gaUsed + 1}
    /\ GaDone(th)
    /\ UNCHANGED <<gaAccounts, gaFails, gaLocked, gaFailures, gaRestarts>>

NewDay ==
    /\ gaUsed > 0
    /\ gaUsed' = 0
    /\ UNCHANGED <<gaAccounts, gaFails, gaLocked, gaThread, gaFailures, gaRestarts>>

\* The gateway restarts: merge_into puts the file's accounts behind the admin's.
RestartAccounts ==
    /\ gaRestarts < GaMaxRestarts
    /\ gaRestarts' = gaRestarts + 1
    /\ gaCfg' = GaAdmin \cup gaFile /\ gaMutex' = GaNone
    /\ gaFails' = [k \in GaKeys |-> 0] /\ gaLocked' = {}
    /\ gaThread' = [th \in GaThreads |-> GaIdle]
    /\ UNCHANGED <<gaFile, gaUsed, gaFailures>>

GaNext ==
    \/ LimiterForgets \/ NewDay \/ RestartAccounts
    \/ \E th \in GaThreads :
         \/ LoginAllowed(th) \/ LoginChecked(th)
         \/ RegisterAllowed(th) \/ RegisterInvalid(th) \/ RegisterChecks(th)
         \/ RegisterAdds(th) \/ RegisterPublishes(th) \/ RegisterSucceeds(th)
         \/ RelayAdmitted(th) \/ RelayEnds(th)

GaSpec == GaInit /\ [][GaNext]_gaVars

-----------------------------------------------------------------------------
(* Properties                                                              *)

\* The accounts in use are those of gateway.json and of the registration file,
\* never more than the limit: also for two registrations at once, a file that
\* cannot be written and a restart between the file and the table.
AccountsAgree ==
    /\ GaMaxAccounts = 0 \/ Cardinality(gaCfg) <= GaMaxAccounts \/ gaCfg = GaAdmin
    /\ gaMutex = GaNone => gaCfg = GaAdmin \cup gaFile

\* The quota is read before a round and charged after it: an account goes over
\* its limit by at most the other requests it had in flight.
QuotaBounded == gaUsed <= GaLimit + Cardinality(GaThreads) - 1
=============================================================================
