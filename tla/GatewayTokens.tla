--------------------------- MODULE GatewayTokens ---------------------------
(***************************************************************************)
(* What proves to the gateway who a request comes from: access sessions in *)
(* memory (gw_sessions.cpp), refresh and API tokens in memory and in a     *)
(* file (gw_refresh.cpp, gw_api_tokens.cpp).  Each table has its mutex and *)
(* the handlers of gw_proxy.cpp go through them one lock section at a time.*)
(***************************************************************************)
EXTENDS Naturals, FiniteSets

CONSTANTS
    GtThreads,
    GtTokens,      \* tokens that may be issued: a bound on a behaviour
    GtNone,
    GtMaxFailures, \* bound: writes of a token file that fail
    GtMaxRestarts  \* bound

ASSUME GtConstants ==
    GtNone \notin GtTokens /\ {GtMaxFailures, GtMaxRestarts} \subseteq Nat

VARIABLES
    gtToken,    \* [GtTokens -> [st, kind, login]]: the tables in memory
    gtDisk,     \* tokens of refresh_tokens.json and api_tokens.json that load_locked
                \* would take: a line that has expired is never read back
    gtSession,  \* access sessions, each named by the token issued with it
    gtThread,   \* [GtThreads -> [op, arg]]
    gtUnsaved,  \* a token file could not be written (history)
    gtFailures, gtRestarts

gtSaved == <<gtDisk, gtUnsaved, gtFailures>>
gtVars  == <<gtToken, gtSaved, gtSession, gtThread, gtRestarts>>

GtIdle  == [op |-> "none", arg |-> GtNone]
GtFresh == [st |-> "unused", kind |-> "none", login |-> GtNone]

GtInit ==
    /\ gtToken = [t \in GtTokens |-> GtFresh]
    /\ gtDisk = {} /\ gtSession = {} /\ gtUnsaved = FALSE
    /\ gtThread = [th \in GtThreads |-> GtIdle]
    /\ gtFailures = 0 /\ gtRestarts = 0

GtGoto(th, o, t) == gtThread' = [gtThread EXCEPT ![th] = [op |-> o, arg |-> t]]
GtDone(th)       == gtThread' = [gtThread EXCEPT ![th] = GtIdle]

-----------------------------------------------------------------------------
(* The tables                                                              *)

Live(t)      == gtToken[t].st = "live"
IsRefresh(t) == gtToken[t].kind \in {"session", "remember"}
Persists(k)  == k \in {"remember", "api"}

\* What is on disk when the file of tokens of kind k has been written: the other
\* kind has a file of its own.
Kept(k, tok) ==
    {t \in GtTokens : IF (tok[t].kind = "api") = (k = "api")
                      THEN tok[t].st = "live" /\ Persists(tok[t].kind)
                      ELSE t \in gtDisk}

\* save_locked writes the whole table; a failure is only logged.
SaveTokens(k, tok) ==
    \/ gtDisk' = Kept(k, tok) /\ UNCHANGED <<gtUnsaved, gtFailures>>
    \/ /\ gtFailures < GtMaxFailures
       /\ gtFailures' = gtFailures + 1
       /\ gtUnsaved' = TRUE /\ UNCHANGED gtDisk

\* if (persist) save_locked()
SaveFor(k, tok) == IF Persists(k) THEN SaveTokens(k, tok) ELSE UNCHANGED gtSaved

\* Mutant: a token leaves the table but not the file.
ForgetUnsaved(t) ==
    /\ gtToken' = [gtToken EXCEPT ![t].st = "dead"]
    /\ UNCHANGED gtSaved

\* erase, and save what the file is to keep.
Forget(t) ==
    /\ gtToken' = [gtToken EXCEPT ![t].st = "dead"]
    /\ SaveFor(gtToken[t].kind, gtToken')

\* issue: a token that begins a line of its own.
IssueToken(t, k) ==
    /\ gtToken[t].st = "unused"
    /\ gtToken' = [gtToken EXCEPT ![t] = [st |-> "live", kind |-> k, login |-> t]]
    /\ SaveFor(k, gtToken')

\* revoke: a token that is in the table leaves it.
Revoke(t) ==
    \/ gtToken[t].st \in {"live", "expired"} /\ Forget(t)
    \/ gtToken[t].st = "dead" /\ UNCHANGED <<gtToken, gtSaved>>

\* Mutant: the old token is left in the table.
RotatedKept(old, new) == [gtToken EXCEPT ![new] = [gtToken[old] EXCEPT !.st = "live"]]

\* refresh: the old token goes and its successor, of the same kind, comes in one
\* lock section.
Rotated(old, new) ==
    [gtToken EXCEPT ![old].st = "dead", ![new] = gtToken[old]]

ExpireToken ==
    \E t \in GtTokens :
        /\ Live(t)
        /\ gtToken' = [gtToken EXCEPT ![t].st = "expired"]
        /\ gtDisk' = gtDisk \ {t}
        /\ UNCHANGED <<gtUnsaved, gtFailures, gtSession, gtThread, gtRestarts>>

\* Sessions::check and prune_expired drop what is out of date.
ExpireSession ==
    \E t \in gtSession :
        /\ gtSession' = gtSession \ {t}
        /\ UNCHANGED <<gtToken, gtSaved, gtThread, gtRestarts>>

\* RefreshTokens::prune_expired, from the gateway's main loop.
PruneTokens ==
    LET expired == {t \in GtTokens : gtToken[t].st = "expired" /\ IsRefresh(t)} IN
    /\ expired # {}
    /\ gtToken' = [t \in GtTokens |-> IF t \in expired THEN [gtToken[t] EXCEPT !.st = "dead"]
                                     ELSE gtToken[t]]
    /\ IF \E t \in expired : Persists(gtToken[t].kind)
       THEN SaveTokens("remember", gtToken') ELSE UNCHANGED gtSaved
    /\ UNCHANGED <<gtSession, gtThread, gtRestarts>>

-----------------------------------------------------------------------------
(* Requests                                                                *)

\* issue_session_tokens, after a login or a registration.
Login ==
    \E t \in GtTokens, k \in {"session", "remember"} :
        /\ IssueToken(t, k)
        /\ gtSession' = gtSession \cup {t}
        /\ UNCHANGED <<gtThread, gtRestarts>>

\* POST refresh: RefreshTokens::check, which drops an expired token and saves
\* nothing, then the account is looked up ...
RefreshChecked(th) ==
    /\ gtThread[th] = GtIdle
    /\ \E t \in GtTokens :
         /\ IsRefresh(t)
         /\ \/ Live(t) /\ GtGoto(th, "rotate", t) /\ UNCHANGED gtToken
            \/ /\ gtToken[t].st = "expired"
               /\ gtToken' = [gtToken EXCEPT ![t].st = "dead"]
               /\ UNCHANGED gtThread
    /\ UNCHANGED <<gtSaved, gtSession, gtRestarts>>

\* ... then RefreshTokens::refresh: who comes second finds nothing.
RefreshRotated(th) ==
    LET old == gtThread[th].arg IN
    /\ gtThread[th].op = "rotate"
    /\ \/ /\ Live(old)
          /\ \E new \in GtTokens :
               /\ gtToken[new].st = "unused"
               /\ gtToken' = Rotated(old, new)
               /\ gtSession' = gtSession \cup {new}
          /\ SaveFor(gtToken[old].kind, gtToken')
       \/ gtToken[old].st = "expired" /\ Forget(old) /\ UNCHANGED gtSession
       \/ gtToken[old].st = "dead" /\ UNCHANGED <<gtToken, gtSaved, gtSession>>
    /\ GtDone(th)
    /\ UNCHANGED gtRestarts

\* ... unless the account is gone or was disabled: then the token is revoked.
RefreshDenied(th) ==
    /\ gtThread[th].op = "rotate"
    /\ Revoke(gtThread[th].arg)
    /\ GtDone(th)
    /\ UNCHANGED <<gtSession, gtRestarts>>

\* POST logout revokes the refresh token ...
LogoutToken(th) ==
    /\ gtThread[th] = GtIdle
    /\ \E t \in GtTokens :
         /\ gtToken[t].st \in {"live", "expired"} /\ IsRefresh(t)
         /\ Forget(t)
         /\ GtGoto(th, "logout", t)
    /\ UNCHANGED <<gtSession, gtRestarts>>

\* ... then the session.
LogoutSession(th) ==
    /\ gtThread[th].op = "logout"
    /\ gtSession' = gtSession \ {gtThread[th].arg}
    /\ GtDone(th)
    /\ UNCHANGED <<gtToken, gtSaved, gtRestarts>>

IssueApiToken ==
    /\ gtSession # {}
    /\ \E t \in GtTokens : IssueToken(t, "api")
    /\ UNCHANGED <<gtSession, gtThread, gtRestarts>>

\* Revoked by its account, or found expired by a request that carries it.
EndApiToken ==
    /\ \E t \in GtTokens :
         /\ gtToken[t].kind = "api"
         /\ (Live(t) /\ gtSession # {}) \/ gtToken[t].st = "expired"
         /\ Forget(t)
    /\ UNCHANGED <<gtSession, gtThread, gtRestarts>>

\* load_locked after a restart: what the files hold and has not expired.
RestartTokens ==
    /\ gtRestarts < GtMaxRestarts
    /\ gtRestarts' = gtRestarts + 1
    /\ gtToken' = [t \in GtTokens |->
           IF t \in gtDisk THEN [gtToken[t] EXCEPT !.st = "live"]
           ELSE IF gtToken[t].st = "unused" THEN GtFresh
           ELSE [gtToken[t] EXCEPT !.st = "dead"]]
    /\ gtSession' = {}
    /\ gtThread' = [th \in GtThreads |-> GtIdle]
    /\ UNCHANGED gtSaved

GtNext ==
    \/ Login \/ IssueApiToken \/ EndApiToken
    \/ ExpireToken \/ ExpireSession \/ PruneTokens \/ RestartTokens
    \/ \E th \in GtThreads :
         \/ RefreshChecked(th) \/ RefreshRotated(th) \/ RefreshDenied(th)
         \/ LogoutToken(th) \/ LogoutSession(th)

GtSpec == GtInit /\ [][GtNext]_gtVars

-----------------------------------------------------------------------------
(* Properties                                                              *)

\* A login has one refresh token at a time, however many requests present the
\* same one at once: check, account lookup and rotation are separate lock
\* sections, and only one request still finds the token in the last.
OneRefreshToken ==
    \A login \in GtTokens :
        Cardinality({t \in GtTokens : Live(t) /\ gtToken[t].login = login}) <= 1

\* A token that was rotated, revoked or pruned does not come back with a
\* restart, unless a token file could not be written.
DeadStaysDead ==
    [][\A t \in GtTokens : gtToken[t].st = "dead" /\ gtToken'[t].st # "dead" => gtUnsaved]_gtVars
=============================================================================
