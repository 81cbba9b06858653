---------------------------- MODULE GatewayProofs ----------------------------
(***************************************************************************)
(* Proofs about the gateway's tokens and accounts: the properties of       *)
(* GatewayTokens and GatewayAccounts for any threads, tokens, names and    *)
(* limits, any number of failed writes and of restarts.                    *)
(***************************************************************************)
EXTENDS GatewayTokens, GatewayAccounts, FiniteSetTheorems, TLAPS

-----------------------------------------------------------------------------
(* Tokens                                                                  *)

TokenRecords == [st : {"unused", "live", "expired", "dead"},
                 kind : {"none", "session", "remember", "api"},
                 login : GtTokens \cup {GtNone}]

GtTypeOK ==
    /\ gtToken \in [GtTokens -> TokenRecords]
    /\ gtDisk \subseteq GtTokens
    /\ gtUnsaved \in BOOLEAN

\* Every token but an unused one belongs to the line of tokens that some issued
\* token began, and all tokens of a line are of one kind.
LinesSound ==
    /\ \A t \in GtTokens :
         \/ gtToken[t] = GtFresh
         \/ /\ gtToken[t].st # "unused" /\ gtToken[t].login \in GtTokens
            /\ gtToken[gtToken[t].login].st # "unused"
    /\ \A t, u \in GtTokens :
         gtToken[t].login = gtToken[u].login => gtToken[t].kind = gtToken[u].kind

\* Of one line, at most one token is alive in memory.
OneLive ==
    \A t, u \in GtTokens :
        Live(t) /\ Live(u) /\ gtToken[t].login = gtToken[u].login => t = u

\* Of one line, at most one token is in the files: also with a restart to come.
OneOnDisk == \A t, u \in gtDisk : gtToken[t].login = gtToken[u].login => t = u

\* The files hold nothing that was never issued or is not to be kept and, unless
\* one could not be written, nothing that is dead.
DiskSound ==
    \A t \in gtDisk :
        /\ gtToken[t].st # "unused" /\ Persists(gtToken[t].kind)
        /\ gtUnsaved \/ gtToken[t].st = "live"

\* A request that is about to rotate has a token.
HandsSound ==
    /\ gtThread \in [GtThreads -> [op : {"none", "rotate", "logout"},
                                   arg : GtTokens \cup {GtNone}]]
    /\ \A th \in GtThreads : gtThread[th].op = "rotate" => gtThread[th].arg \in GtTokens

GtInv == GtTypeOK /\ LinesSound /\ OneLive /\ OneOnDisk /\ DiskSound

\* At first no token exists.
LEMMA GtInvInit == GtInit => GtInv
<1> SUFFICES ASSUME GtInit PROVE GtInv
  OBVIOUS
<1>1. \A t \in GtTokens : gtToken[t] = GtFresh
  BY DEF GtInit
<1>2. GtFresh \in TokenRecords /\ GtFresh.st = "unused"
  BY DEF GtFresh, TokenRecords
<1>3. GtTypeOK
  BY <1>2 DEF GtInit, GtTypeOK
<1> QED BY <1>1, <1>2, <1>3 DEF GtInit, GtInv, LinesSound, OneLive, OneOnDisk, DiskSound, Live

\* A step that changes what tokens of a line are in, but no line, and wakes none.
LEMMA NoLineChanges ==
    ASSUME GtInv,
           \A t \in GtTokens : Live(t)' => Live(t),
           \A t \in GtTokens :
             /\ gtToken'[t].login = gtToken[t].login /\ gtToken'[t].kind = gtToken[t].kind
             /\ gtToken'[t].st = "unused" <=> gtToken[t].st = "unused"
             /\ gtToken[t].st = "unused" => gtToken'[t] = gtToken[t]
    PROVE  LinesSound' /\ OneLive'
<1>1. LinesSound'
  BY DEF GtInv, GtTypeOK, LinesSound, GtFresh
<1>2. OneLive'
  BY DEF GtInv, OneLive
<1> QED BY <1>1, <1>2

\* A step after which the files hold a part of what they held.
LEMMA NothingSaved ==
    ASSUME GtInv, gtDisk' \subseteq gtDisk,
           \A t \in gtDisk' :
             /\ gtToken'[t].login = gtToken[t].login /\ gtToken'[t].kind = gtToken[t].kind
             /\ gtToken'[t].st # "unused"
             /\ gtUnsaved' \/ gtToken'[t].st = "live"
    PROVE  OneOnDisk' /\ DiskSound'
BY DEF GtInv, OneOnDisk, DiskSound

\* A step that saves the file of kind k, if tokens of kind k are saved at all, and
\* changes, of what was on disk, only what that file holds.
LEMMA SavedOrNot ==
    ASSUME GtInv, GtTypeOK', LinesSound', OneLive', NEW k, SaveFor(k, gtToken'),
           \A t \in gtDisk :
             /\ gtToken'[t].login = gtToken[t].login /\ gtToken'[t].kind = gtToken[t].kind
             /\ gtToken'[t].st # "unused"
             /\ gtToken'[t].st = gtToken[t].st
                  \/ (Persists(k) /\ (gtToken[t].kind = "api") = (k = "api"))
    PROVE  OneOnDisk' /\ DiskSound'
<1>1. CASE ~Persists(k)
  BY <1>1, NothingSaved DEF SaveFor, gtSaved, GtInv, DiskSound
<1>2. CASE UNCHANGED gtDisk /\ gtUnsaved' = TRUE
  BY <1>2, NothingSaved
<1>3. CASE Persists(k) /\ gtDisk' = Kept(k, gtToken') /\ UNCHANGED gtUnsaved
  <2>1. \A t \in gtDisk' :
          \/ gtToken'[t].st = "live" /\ Persists(gtToken'[t].kind)
          \/ t \in gtDisk /\ (gtToken'[t].kind = "api") # (k = "api")
    BY <1>3 DEF Kept
  <2>2. \A t \in gtDisk' :
          (gtToken'[t].kind = "api") = (k = "api") => gtToken'[t].st = "live"
    BY <1>3 DEF Kept
  <2>3. gtDisk' \subseteq GtTokens
    BY DEF GtTypeOK
  <2>4. OneOnDisk'
    <3> SUFFICES ASSUME NEW t \in gtDisk', NEW u \in gtDisk',
                        gtToken'[t].login = gtToken'[u].login
                 PROVE  t = u
      BY DEF OneOnDisk
    <3>1. gtToken'[t].kind = gtToken'[u].kind
      BY <2>3 DEF LinesSound
    <3>2. CASE (gtToken'[t].kind = "api") = (k = "api")
      <4>1. gtToken'[t].st = "live" /\ gtToken'[u].st = "live"
        BY <2>2, <3>1, <3>2
      <4> QED BY <2>3, <4>1 DEF OneLive, Live
    <3>3. CASE (gtToken'[t].kind = "api") # (k = "api")
      <4>1. t \in gtDisk /\ u \in gtDisk
        BY <1>3, <3>1, <3>3 DEF Kept
      <4> QED BY <4>1 DEF GtInv, OneOnDisk
    <3> QED BY <3>2, <3>3
  <2>5. DiskSound'
    BY <1>3, <2>1 DEF GtInv, DiskSound
  <2> QED BY <2>4, <2>5
<1> QED BY <1>1, <1>2, <1>3 DEF SaveFor, SaveTokens

\* erase and save, whichever token it is.
LEMMA ForgetKeeps ==
    ASSUME GtInv, NEW t \in GtTokens, gtToken[t].st # "unused", Forget(t)
    PROVE  GtInv'
<1>1. /\ gtToken' = [gtToken EXCEPT ![t].st = "dead"]
      /\ SaveFor(gtToken[t].kind, gtToken')
  BY DEF Forget
<1>2. GtTypeOK'
  <2>1. gtToken' \in [GtTokens -> TokenRecords]
    BY <1>1 DEF GtInv, GtTypeOK, TokenRecords
  <2>2. gtDisk' \subseteq GtTokens /\ gtUnsaved' \in BOOLEAN
    BY <1>1 DEF GtInv, GtTypeOK, SaveFor, SaveTokens, Kept, gtSaved
  <2> QED BY <2>1, <2>2 DEF GtTypeOK
<1>3. /\ \A u \in GtTokens \ {t} : gtToken'[u] = gtToken[u]
      /\ gtToken'[t].login = gtToken[t].login /\ gtToken'[t].kind = gtToken[t].kind
      /\ gtToken'[t].st = "dead"
  BY <1>1 DEF GtInv, GtTypeOK, TokenRecords
<1>4. LinesSound' /\ OneLive'
  BY <1>3, NoLineChanges DEF Live
<1>5. OneOnDisk' /\ DiskSound'
  <2>1. t \in gtDisk => Persists(gtToken[t].kind)
    BY DEF GtInv, DiskSound
  <2>2. gtDisk \subseteq GtTokens
    BY DEF GtInv, GtTypeOK
  <2>3. \A u \in gtDisk : gtToken[u].st # "unused"
    BY DEF GtInv, DiskSound
  <2>4. PICK k : k = gtToken[t].kind
    OBVIOUS
  <2>5. \A u \in gtDisk :
          /\ gtToken'[u].login = gtToken[u].login /\ gtToken'[u].kind = gtToken[u].kind
          /\ gtToken'[u].st # "unused"
          /\ gtToken'[u].st = gtToken[u].st
               \/ (Persists(k) /\ (gtToken[u].kind = "api") = (k = "api"))
    BY <1>3, <2>1, <2>2, <2>3, <2>4
  <2>6. SaveFor(k, gtToken')
    BY <1>1, <2>4
  <2> QED BY <1>2, <1>4, <2>5, <2>6, SavedOrNot
<1> QED BY <1>2, <1>4, <1>5 DEF GtInv

\* A token that begins a line.
LEMMA IssueKeeps ==
    ASSUME GtInv, NEW t \in GtTokens, NEW k \in {"session", "remember", "api"},
           IssueToken(t, k)
    PROVE  GtInv'
<1>1. /\ gtToken[t].st = "unused" /\ SaveFor(k, gtToken')
      /\ gtToken' = [gtToken EXCEPT ![t] = [st |-> "live", kind |-> k, login |-> t]]
  BY DEF IssueToken
<1>2. GtTypeOK'
  <2>1. gtToken' \in [GtTokens -> TokenRecords]
    BY <1>1 DEF GtInv, GtTypeOK, TokenRecords
  <2>2. gtDisk' \subseteq GtTokens /\ gtUnsaved' \in BOOLEAN
    BY <1>1 DEF GtInv, GtTypeOK, SaveFor, SaveTokens, Kept, gtSaved
  <2> QED BY <2>1, <2>2 DEF GtTypeOK
<1>3. /\ \A u \in GtTokens \ {t} : gtToken'[u] = gtToken[u]
      /\ gtToken'[t] = [st |-> "live", kind |-> k, login |-> t]
  BY <1>1 DEF GtInv, GtTypeOK
<1>4. \A u \in GtTokens : gtToken[u].login # t
  BY <1>1, GtConstants DEF GtInv, LinesSound, GtFresh
<1>5. LinesSound'
  <2>1. \A u \in GtTokens :
         \/ gtToken'[u] = GtFresh
         \/ /\ gtToken'[u].st # "unused" /\ gtToken'[u].login \in GtTokens
            /\ gtToken'[gtToken'[u].login].st # "unused"
    BY <1>3 DEF GtInv, LinesSound
  <2>2. \A u, v \in GtTokens :
         gtToken'[u].login = gtToken'[v].login => gtToken'[u].kind = gtToken'[v].kind
    BY <1>3, <1>4 DEF GtInv, LinesSound
  <2> QED BY <2>1, <2>2 DEF LinesSound
<1>6. OneLive'
  BY <1>3, <1>4 DEF GtInv, OneLive, Live
<1>7. OneOnDisk' /\ DiskSound'
  <2>1. \A u \in gtDisk : u \in GtTokens \ {t} /\ gtToken[u].st # "unused"
    BY <1>1 DEF GtInv, GtTypeOK, DiskSound
  <2> QED BY <1>1, <1>2, <1>3, <1>5, <1>6, <2>1, SavedOrNot
<1> QED BY <1>2, <1>5, <1>6, <1>7 DEF GtInv

\* The rotation: the old token goes, its successor comes.
LEMMA RotateKeeps ==
    ASSUME GtInv, NEW old \in GtTokens, NEW new \in GtTokens, Live(old),
           gtToken[new].st = "unused", gtToken' = Rotated(old, new),
           SaveFor(gtToken[old].kind, gtToken')
    PROVE  GtInv'
<1>1. old # new
  BY DEF Live
<1>2. /\ \A u \in GtTokens \ {old, new} : gtToken'[u] = gtToken[u]
      /\ gtToken'[new] = gtToken[old] /\ gtToken'[old] = [gtToken[old] EXCEPT !.st = "dead"]
  BY <1>1 DEF GtInv, GtTypeOK, Rotated
<1>3. /\ gtToken'[old].st = "dead" /\ gtToken'[new].st = "live"
      /\ gtToken'[old].login = gtToken[old].login /\ gtToken'[new].login = gtToken[old].login
      /\ gtToken'[old].kind = gtToken[old].kind /\ gtToken'[new].kind = gtToken[old].kind
  BY <1>2 DEF GtInv, GtTypeOK, TokenRecords, Live
<1>4. GtTypeOK'
  <2>1. gtToken' \in [GtTokens -> TokenRecords]
    BY <1>1 DEF GtInv, GtTypeOK, TokenRecords, Rotated
  <2>2. gtDisk' \subseteq GtTokens /\ gtUnsaved' \in BOOLEAN
    BY DEF GtInv, GtTypeOK, SaveFor, SaveTokens, Kept, gtSaved
  <2> QED BY <2>1, <2>2 DEF GtTypeOK
<1>5. \A u \in GtTokens : gtToken[u].login # new
  BY GtConstants DEF GtInv, LinesSound, GtFresh
<1>6. LinesSound'
  <2>0. gtToken[old].login \in GtTokens
    BY DEF GtInv, LinesSound, Live, GtFresh
  <2>1. \A u \in GtTokens :
         \/ gtToken'[u] = GtFresh
         \/ /\ gtToken'[u].st # "unused" /\ gtToken'[u].login \in GtTokens
            /\ gtToken'[gtToken'[u].login].st # "unused"
    <3> SUFFICES ASSUME NEW u \in GtTokens, gtToken'[u] # GtFresh
                 PROVE  /\ gtToken'[u].st # "unused" /\ gtToken'[u].login \in GtTokens
                        /\ gtToken'[gtToken'[u].login].st # "unused"
      OBVIOUS
    <3>1. gtToken'[u].st # "unused" /\ gtToken'[u].login \in GtTokens
      BY <1>2, <1>3, <2>0 DEF GtInv, LinesSound
    <3>2. PICK v \in GtTokens : /\ gtToken'[u].login = gtToken[v].login
                                /\ gtToken[v].st # "unused"
      BY <1>2, <1>3, <3>1 DEF Live
    <3>3. PICK l \in GtTokens : l = gtToken'[u].login
      BY <3>1
    <3>4. gtToken[l].st # "unused"
      BY <3>2, <3>3 DEF GtInv, LinesSound, GtFresh
    <3>5. gtToken'[l].st # "unused"
      BY <1>2, <1>3, <3>4
    <3> QED BY <3>1, <3>3, <3>5
  <2>2. \A u \in GtTokens : u # new =>
          gtToken'[u].login = gtToken[u].login /\ gtToken'[u].kind = gtToken[u].kind
    BY <1>2, <1>3
  <2>3. \A u, v \in GtTokens :
         gtToken'[u].login = gtToken'[v].login => gtToken'[u].kind = gtToken'[v].kind
    BY <1>3, <2>2 DEF GtInv, LinesSound
  <2> QED BY <2>1, <2>3 DEF LinesSound
<1>7. OneLive'
  <2>1. \A u \in GtTokens : gtToken'[u].st = "live" =>
          \/ u \in GtTokens \ {old, new} /\ gtToken[u].st = "live"
                /\ gtToken'[u].login = gtToken[u].login
          \/ u = new
    BY <1>2, <1>3
  <2>2. \A u \in GtTokens \ {old} : gtToken[u].st = "live" =>
          gtToken[u].login # gtToken[old].login
    BY DEF GtInv, OneLive, Live
  <2> QED BY <1>3, <2>1, <2>2 DEF GtInv, OneLive, Live
<1>8. OneOnDisk' /\ DiskSound'
  <2>1. \A u \in gtDisk : u \in GtTokens \ {new} /\ gtToken[u].st # "unused"
    BY DEF GtInv, GtTypeOK, DiskSound
  <2>2. old \in gtDisk => Persists(gtToken[old].kind)
    BY DEF GtInv, DiskSound
  <2>3. PICK k : k = gtToken[old].kind
    OBVIOUS
  <2>4. \A u \in gtDisk :
          /\ gtToken'[u].login = gtToken[u].login /\ gtToken'[u].kind = gtToken[u].kind
          /\ gtToken'[u].st # "unused"
          /\ gtToken'[u].st = gtToken[u].st
               \/ (Persists(k) /\ (gtToken[u].kind = "api") = (k = "api"))
    <3> SUFFICES ASSUME NEW u \in gtDisk
                 PROVE  /\ gtToken'[u].login = gtToken[u].login
                        /\ gtToken'[u].kind = gtToken[u].kind
                        /\ gtToken'[u].st # "unused"
                        /\ gtToken'[u].st = gtToken[u].st
                             \/ (Persists(k) /\ (gtToken[u].kind = "api") = (k = "api"))
      OBVIOUS
    <3>1. CASE u = old
      BY <1>3, <2>2, <2>3, <3>1
    <3>2. CASE u # old
      BY <1>2, <2>1, <3>2
    <3> QED BY <3>1, <3>2
  <2> QED BY <1>4, <1>6, <1>7, <2>3, <2>4, SavedOrNot
<1> QED BY <1>4, <1>6, <1>7, <1>8 DEF GtInv

\* A restart brings back what the files hold, which is one token of a line at most.
LEMMA RestartKeeps == GtInv /\ RestartTokens => GtInv'
<1> SUFFICES ASSUME GtInv, RestartTokens PROVE GtInv'
  OBVIOUS
<1>1. /\ UNCHANGED <<gtDisk, gtUnsaved>> /\ gtDisk \subseteq GtTokens
      /\ \A t \in gtDisk : gtToken[t].st # "unused" /\ Persists(gtToken[t].kind)
      /\ \A t, u \in gtDisk : gtToken[t].login = gtToken[u].login => t = u
  BY DEF GtInv, GtTypeOK, DiskSound, OneOnDisk, RestartTokens, gtSaved
<1>2. GtTypeOK'
  BY DEF GtInv, GtTypeOK, TokenRecords, GtFresh, RestartTokens, gtSaved
<1>3. \A t \in GtTokens :
        /\ t \in gtDisk => gtToken'[t] = [gtToken[t] EXCEPT !.st = "live"]
        /\ t \notin gtDisk /\ gtToken[t].st = "unused" => gtToken'[t] = GtFresh
        /\ t \notin gtDisk /\ gtToken[t].st # "unused" =>
             gtToken'[t] = [gtToken[t] EXCEPT !.st = "dead"]
  BY DEF RestartTokens
<1>4. \A t \in GtTokens :
        /\ gtToken'[t].login = gtToken[t].login /\ gtToken'[t].kind = gtToken[t].kind
        /\ gtToken'[t].st = "unused" <=> gtToken[t].st = "unused"
        /\ gtToken[t].st = "unused" => gtToken'[t] = gtToken[t]
        /\ gtToken'[t].st = "live" <=> t \in gtDisk
  <2> SUFFICES ASSUME NEW t \in GtTokens
               PROVE  /\ gtToken'[t].login = gtToken[t].login
                      /\ gtToken'[t].kind = gtToken[t].kind
                      /\ gtToken'[t].st = "unused" <=> gtToken[t].st = "unused"
                      /\ gtToken[t].st = "unused" => gtToken'[t] = gtToken[t]
                      /\ gtToken'[t].st = "live" <=> t \in gtDisk
    OBVIOUS
  <2>0. gtToken[t] \in TokenRecords
    BY DEF GtInv, GtTypeOK
  <2>1. CASE t \in gtDisk
    BY <1>1, <1>3, <2>0, <2>1 DEF TokenRecords
  <2>2. CASE t \notin gtDisk /\ gtToken[t].st = "unused"
    <3>1. gtToken[t] = GtFresh
      BY <2>2 DEF GtInv, LinesSound
    <3> QED BY <1>3, <2>2, <3>1 DEF GtFresh
  <2>3. CASE t \notin gtDisk /\ gtToken[t].st # "unused"
    BY <1>3, <2>0, <2>3 DEF TokenRecords
  <2> QED BY <2>1, <2>2, <2>3
<1>5. LinesSound'
  BY <1>4 DEF GtInv, GtTypeOK, LinesSound, GtFresh
<1>6. OneLive'
  BY <1>1, <1>4 DEF OneLive, Live
<1>7. OneOnDisk' /\ DiskSound'
  BY <1>1, <1>4, NothingSaved
<1> QED BY <1>2, <1>5, <1>6, <1>7 DEF GtInv

\* PruneTokens drops what has expired.
LEMMA PruneKeeps == GtInv /\ PruneTokens => GtInv'
<1> SUFFICES ASSUME GtInv, PruneTokens PROVE GtInv'
  OBVIOUS
<1>1. PICK expired : expired = {t \in GtTokens : gtToken[t].st = "expired" /\ IsRefresh(t)}
  OBVIOUS
<1>2. /\ gtToken' = [t \in GtTokens |-> IF t \in expired THEN [gtToken[t] EXCEPT !.st = "dead"]
                                       ELSE gtToken[t]]
      /\ IF \E t \in expired : Persists(gtToken[t].kind)
         THEN SaveTokens("remember", gtToken') ELSE UNCHANGED gtSaved
  BY <1>1 DEF PruneTokens
<1>3. GtTypeOK'
  <2>1. gtToken' \in [GtTokens -> TokenRecords]
    BY <1>2 DEF GtInv, GtTypeOK, TokenRecords
  <2>2. gtDisk' \subseteq GtTokens /\ gtUnsaved' \in BOOLEAN
    BY <1>2 DEF GtInv, GtTypeOK, SaveTokens, Kept, gtSaved
  <2> QED BY <2>1, <2>2 DEF GtTypeOK
<1>4. \A t \in GtTokens :
        /\ gtToken'[t].login = gtToken[t].login /\ gtToken'[t].kind = gtToken[t].kind
        /\ t \in expired => gtToken[t].st = "expired" /\ gtToken'[t].st = "dead"
        /\ t \notin expired => gtToken'[t] = gtToken[t]
  BY <1>1, <1>2 DEF GtInv, GtTypeOK, TokenRecords
<1>5. LinesSound' /\ OneLive'
  BY <1>4, NoLineChanges DEF Live
<1>6. /\ gtDisk \subseteq GtTokens
      /\ \A t \in gtDisk : gtToken[t].st # "unused" /\ Persists(gtToken[t].kind)
  BY DEF GtInv, GtTypeOK, DiskSound
<1>7. CASE \E t \in expired : Persists(gtToken[t].kind)
  <2>1. SaveFor("remember", gtToken') /\ Persists("remember")
    BY <1>2, <1>7 DEF SaveFor, Persists
  <2>2. \A t \in expired : gtToken[t].kind # "api"
    BY <1>1 DEF IsRefresh
  <2>3. \A t \in gtDisk :
          /\ gtToken'[t].login = gtToken[t].login /\ gtToken'[t].kind = gtToken[t].kind
          /\ gtToken'[t].st # "unused"
          /\ gtToken'[t].st = gtToken[t].st
               \/ (Persists("remember") /\ (gtToken[t].kind = "api") = ("remember" = "api"))
    BY <1>4, <1>6, <2>1, <2>2
  <2> QED BY <1>3, <1>5, <2>1, <2>3, SavedOrNot DEF GtInv
<1>8. CASE ~\E t \in expired : Persists(gtToken[t].kind)
  <2>1. UNCHANGED <<gtDisk, gtUnsaved>> /\ \A t \in gtDisk : gtToken'[t] = gtToken[t]
    BY <1>2, <1>4, <1>6, <1>8 DEF gtSaved
  <2>2. OneOnDisk' /\ DiskSound'
    BY <1>6, <2>1 DEF GtInv, OneOnDisk, DiskSound
  <2> QED BY <1>3, <1>5, <2>2 DEF GtInv
<1> QED BY <1>7, <1>8

\* A token dies or expires, and of the files' tokens those that do so are dropped or
\* were no longer alive.
LEMMA FadeKeeps ==
    ASSUME GtInv, NEW t \in GtTokens, NEW l \in {"expired", "dead"},
           gtToken[t].st \in {"live", "expired"},
           gtToken' = [gtToken EXCEPT ![t].st = l],
           gtDisk' = gtDisk \ {t} \/ (UNCHANGED gtDisk /\ gtToken[t].st = "expired"),
           UNCHANGED gtUnsaved
    PROVE  GtInv'
<1>1. GtTypeOK'
  BY DEF GtInv, GtTypeOK, TokenRecords
<1>2. /\ \A u \in GtTokens \ {t} : gtToken'[u] = gtToken[u]
      /\ gtToken'[t].login = gtToken[t].login /\ gtToken'[t].kind = gtToken[t].kind
      /\ gtToken'[t].st = l
  BY DEF GtInv, GtTypeOK, TokenRecords
<1>3. LinesSound' /\ OneLive'
  BY <1>2, NoLineChanges DEF Live
<1>4. \A u \in gtDisk' :
        /\ gtToken'[u].login = gtToken[u].login /\ gtToken'[u].kind = gtToken[u].kind
        /\ gtToken'[u].st # "unused"
        /\ gtUnsaved' \/ gtToken'[u].st = "live"
  BY <1>2 DEF GtInv, GtTypeOK, DiskSound
<1> QED BY <1>1, <1>3, <1>4, NothingSaved DEF GtInv

\* At first no request rotates.
LEMMA HandsSoundInit == GtInit => HandsSound
  BY DEF GtInit, HandsSound, GtIdle

\* A request that is to rotate knows its token.
LEMMA HandsSoundNext == HandsSound /\ [GtNext]_gtVars => HandsSound'
<1> SUFFICES ASSUME HandsSound, [GtNext]_gtVars PROVE HandsSound'
  OBVIOUS
<1>1. CASE UNCHANGED gtThread
  BY <1>1 DEF HandsSound
<1>2. ASSUME NEW th \in GtThreads, NEW t \in GtTokens,
             NEW o \in {"rotate", "logout"}, GtGoto(th, o, t)
      PROVE  HandsSound'
  BY <1>2 DEF HandsSound, GtGoto
<1>3. ASSUME NEW th \in GtThreads, GtDone(th)
      PROVE  HandsSound'
  BY <1>3 DEF HandsSound, GtDone, GtIdle
<1>4. CASE Login \/ IssueApiToken \/ EndApiToken \/ ExpireToken \/ ExpireSession \/ PruneTokens
  BY <1>1, <1>4 DEF Login, IssueApiToken, EndApiToken, ExpireToken, ExpireSession, PruneTokens
<1>5. CASE RestartTokens
  BY <1>5 DEF RestartTokens, HandsSound, GtIdle
<1>6. ASSUME NEW th \in GtThreads,
             \/ RefreshChecked(th) \/ RefreshRotated(th) \/ RefreshDenied(th)
             \/ LogoutToken(th) \/ LogoutSession(th)
      PROVE  HandsSound'
  BY <1>1, <1>2, <1>3, <1>6
     DEF RefreshChecked, RefreshRotated, RefreshDenied, LogoutToken, LogoutSession
<1> QED BY <1>1, <1>4, <1>5, <1>6 DEF GtNext, gtVars

\* Rotation kills the token it replaces in the lock section that makes its
\* successor; the files hold no more than one of a line either.
LEMMA GtInvNext == GtInv /\ HandsSound /\ [GtNext]_gtVars => GtInv'
<1> SUFFICES ASSUME GtInv, HandsSound, [GtNext]_gtVars PROVE GtInv'
  OBVIOUS
<1>1. CASE UNCHANGED <<gtToken, gtDisk, gtUnsaved>>
  BY <1>1 DEF GtInv, GtTypeOK, LinesSound, OneLive, OneOnDisk, DiskSound, Live
<1>2. CASE Login
  BY <1>2, IssueKeeps DEF Login
<1>3. CASE IssueApiToken
  BY <1>3, IssueKeeps DEF IssueApiToken
<1>4. CASE EndApiToken
  BY <1>4, ForgetKeeps DEF EndApiToken, Live
<1>5. CASE ExpireToken
  BY <1>5, FadeKeeps DEF ExpireToken, Live
<1>6. CASE ExpireSession
  BY <1>1, <1>6 DEF ExpireSession, gtSaved
<1>7. ASSUME NEW th \in GtThreads, RefreshChecked(th)
      PROVE  GtInv'
  <2>1. CASE UNCHANGED gtToken
    BY <1>1, <1>7, <2>1 DEF RefreshChecked, gtSaved
  <2>2. ASSUME NEW t \in GtTokens, gtToken[t].st = "expired",
               gtToken' = [gtToken EXCEPT ![t].st = "dead"]
        PROVE  GtInv'
    BY <1>7, <2>2, FadeKeeps DEF RefreshChecked, gtSaved
  <2> QED BY <1>7, <2>1, <2>2 DEF RefreshChecked
<1>8. ASSUME NEW th \in GtThreads, RefreshRotated(th)
      PROVE  GtInv'
  <2>1. PICK old \in GtTokens : old = gtThread[th].arg
    BY <1>8 DEF HandsSound, RefreshRotated
  <2>2. CASE UNCHANGED <<gtToken, gtSaved>>
    BY <1>1, <2>2 DEF gtSaved
  <2>3. CASE gtToken[old].st = "expired" /\ Forget(old)
    BY <2>3, ForgetKeeps
  <2>4. ASSUME NEW new \in GtTokens, Live(old), gtToken[new].st = "unused",
               gtToken' = Rotated(old, new), SaveFor(gtToken[old].kind, gtToken')
        PROVE  GtInv'
    BY <2>4, RotateKeeps
  <2> QED BY <1>8, <2>1, <2>2, <2>3, <2>4 DEF RefreshRotated
<1>9. ASSUME NEW th \in GtThreads, LogoutToken(th)
      PROVE  GtInv'
  BY <1>9, ForgetKeeps DEF LogoutToken
<1>10. ASSUME NEW th \in GtThreads, LogoutSession(th)
       PROVE  GtInv'
  BY <1>1, <1>10 DEF LogoutSession, gtSaved
<1>11. ASSUME NEW th \in GtThreads, RefreshDenied(th)
       PROVE  GtInv'
  <2>1. PICK t \in GtTokens : t = gtThread[th].arg
    BY <1>11 DEF HandsSound, RefreshDenied
  <2>2. CASE UNCHANGED <<gtToken, gtSaved>>
    BY <1>1, <2>2 DEF gtSaved
  <2>3. CASE gtToken[t].st \in {"live", "expired"} /\ Forget(t)
    BY <2>3, ForgetKeeps
  <2> QED BY <1>11, <2>1, <2>2, <2>3 DEF RefreshDenied, Revoke
<1>12. CASE UNCHANGED gtVars
  BY <1>1, <1>12 DEF gtVars, gtSaved
<1> QED BY <1>2, <1>3, <1>4, <1>5, <1>6, <1>7, <1>8, <1>9, <1>10, <1>11, <1>12, PruneKeeps,
        RestartKeeps
        DEF GtNext

\* Tables and files agree in every behaviour.
LEMMA GtSpecInv == GtSpec => [](GtInv /\ HandsSound)
<1>1. GtInit => GtInv /\ HandsSound
  BY GtInvInit, HandsSoundInit
<1>2. GtInv /\ HandsSound /\ [GtNext]_gtVars => (GtInv /\ HandsSound)'
  BY GtInvNext, HandsSoundNext
<1> QED BY <1>1, <1>2, PTL DEF GtSpec

\* A login has one refresh token at a time (RefreshTokens::refresh), whatever
\* requests present it together, which writes fail and when the gateway restarts.
THEOREM OneTokenPerLogin == GtSpec => []OneRefreshToken
<1>1. ASSUME GtInv
      PROVE  OneRefreshToken
  <2> SUFFICES ASSUME NEW login \in GtTokens
               PROVE  Cardinality({t \in GtTokens : Live(t) /\ gtToken[t].login = login}) <= 1
    BY DEF OneRefreshToken
  <2>1. PICK S : S = {t \in GtTokens : Live(t) /\ gtToken[t].login = login}
    OBVIOUS
  <2>2. \A t, u \in S : t = u
    BY <1>1, <2>1 DEF GtInv, OneLive
  <2>3. CASE S = {}
    BY <2>1, <2>3, FS_EmptySet
  <2>4. ASSUME NEW t \in S
        PROVE  Cardinality(S) <= 1
    <3>1. S = {t}
      BY <2>2
    <3> QED BY <3>1, FS_Singleton
  <2> QED BY <2>1, <2>3, <2>4
<1> QED BY <1>1, GtSpecInv, PTL

\* A token that was rotated, revoked or pruned stays dead through any number of
\* restarts, unless a token file could not be written (save_locked, load_locked).
THEOREM DeadTokensStayDead == GtSpec => DeadStaysDead
<1>1. ASSUME GtInv, HandsSound, [GtNext]_gtVars
      PROVE  [\A t \in GtTokens :
                gtToken[t].st = "dead" /\ gtToken'[t].st # "dead" => gtUnsaved]_gtVars
  <2> SUFFICES ASSUME NEW t \in GtTokens, gtToken[t].st = "dead", gtToken'[t].st # "dead"
               PROVE  gtUnsaved
    OBVIOUS
  <2>0. gtToken \in [GtTokens -> TokenRecords]
    BY <1>1 DEF GtInv, GtTypeOK
  <2>1. ASSUME NEW u \in GtTokens, NEW l \in {"expired", "dead"},
               gtToken[u].st # "dead" \/ l = "dead", gtToken' = [gtToken EXCEPT ![u].st = l]
        PROVE  FALSE
    BY <2>0, <2>1 DEF TokenRecords
  <2>2. ASSUME NEW u \in GtTokens, gtToken[u].st # "dead", NEW r \in TokenRecords,
               gtToken' = [gtToken EXCEPT ![u] = r]
        PROVE  FALSE
    BY <2>0, <2>2
  <2>3. ~UNCHANGED gtToken
    OBVIOUS
  <2>4. CASE Login \/ IssueApiToken
    <3>1. PICK u \in GtTokens, k \in {"session", "remember", "api"} :
            /\ gtToken[u].st = "unused"
            /\ gtToken' = [gtToken EXCEPT ![u] = [st |-> "live", kind |-> k, login |-> u]]
      BY <2>4 DEF Login, IssueApiToken, IssueToken
    <3>2. [st |-> "live", kind |-> k, login |-> u] \in TokenRecords
      BY DEF TokenRecords
    <3> QED BY <2>2, <3>1, <3>2
  <2>5. CASE EndApiToken
    BY <2>1, <2>5 DEF EndApiToken, Forget
  <2>6. CASE ExpireToken
    BY <2>1, <2>6 DEF ExpireToken, Live
  <2>7. CASE ExpireSession
    BY <2>3, <2>7 DEF ExpireSession
  <2>8. CASE PruneTokens
    BY <2>0, <2>8 DEF PruneTokens, TokenRecords
  <2>9. CASE RestartTokens
    <3>1. t \in gtDisk
      BY <2>0, <2>9 DEF RestartTokens, TokenRecords
    <3> QED BY <1>1, <3>1 DEF GtInv, DiskSound
  <2>10. ASSUME NEW th \in GtThreads, RefreshChecked(th)
         PROVE  FALSE
    BY <2>1, <2>3, <2>10 DEF RefreshChecked
  <2>11. ASSUME NEW th \in GtThreads, RefreshRotated(th)
         PROVE  FALSE
    <3>1. PICK old \in GtTokens : old = gtThread[th].arg
      BY <1>1, <2>11 DEF HandsSound, RefreshRotated
    <3>2. CASE Forget(old)
      BY <2>1, <3>2 DEF Forget
    <3>3. ASSUME NEW new \in GtTokens, Live(old), gtToken[new].st = "unused",
                 gtToken' = Rotated(old, new)
          PROVE  FALSE
      BY <2>0, <3>3 DEF Rotated, Live, TokenRecords
    <3> QED BY <2>3, <2>11, <3>1, <3>2, <3>3 DEF RefreshRotated
  <2>12. ASSUME NEW th \in GtThreads, LogoutToken(th)
         PROVE  FALSE
    BY <2>1, <2>12 DEF LogoutToken, Forget
  <2>13. ASSUME NEW th \in GtThreads, LogoutSession(th)
         PROVE  FALSE
    BY <2>3, <2>13 DEF LogoutSession
  <2>14. ASSUME NEW th \in GtThreads, RefreshDenied(th)
         PROVE  FALSE
    <3>1. PICK u \in GtTokens : u = gtThread[th].arg
      BY <1>1, <2>14 DEF HandsSound, RefreshDenied
    <3>2. CASE Forget(u)
      BY <2>1, <3>2 DEF Forget
    <3> QED BY <2>3, <2>14, <3>1, <3>2 DEF RefreshDenied, Revoke
  <2>15. CASE UNCHANGED gtVars
    BY <2>3, <2>15 DEF gtVars
  <2> QED BY <1>1, <2>4, <2>5, <2>6, <2>7, <2>8, <2>9, <2>10, <2>11, <2>12, <2>13, <2>14, <2>15
          DEF GtNext
<1> QED BY <1>1, GtSpecInv, PTL DEF GtSpec, DeadStaysDead

-----------------------------------------------------------------------------
(* Accounts                                                                *)

\* Where a request is that does not hold accounts_mu.
GaOutside == {"none", "password", "relay", "register", "registered"}

GaHands ==
    [op : GaOutside, arg : {GaNone}] \cup
    [op : {"add", "publish"}, arg : GaNames \cup GaAdmin]

GaTypeOK ==
    /\ gaThread \in [GaThreads -> GaHands]
    /\ gaMutex \in GaThreads \cup {GaNone}
    /\ IsFiniteSet(gaCfg) /\ IsFiniteSet(gaFile)

\* The limit on accounts, if there is one, is kept.
WithinLimit(accounts) == GaMaxAccounts = 0 \/ Cardinality(accounts) <= GaMaxAccounts

Registering(th) == gaThread[th].op \in {"add", "publish"}

\* Who registers holds the mutex; it found room, and what it has written but not
\* yet published is one name.
AccountsSound ==
    /\ \A th \in GaThreads : Registering(th) <=> gaMutex = th
    /\ WithinLimit(gaCfg) \/ gaCfg = GaAdmin
    /\ \A th \in GaThreads : Registering(th) => /\ HasRoom(gaCfg)
                                              /\ gaThread[th].arg \notin gaCfg
    /\ IF \E th \in GaThreads : GaAt(th, "publish")
       THEN \A th \in GaThreads : GaAt(th, "publish") =>
              gaCfg \cup {gaThread[th].arg} = GaAdmin \cup gaFile
       ELSE gaCfg = GaAdmin \cup gaFile

GaInv == GaTypeOK /\ AccountsSound

\* At first the accounts are those of the files.
LEMMA GaInvInit == GaInit => GaInv
<1> SUFFICES ASSUME GaInit PROVE GaInv
  OBVIOUS
<1>1. GaTypeOK
  BY GaConstants, FS_EmptySet DEF GaInit, GaTypeOK, GaHands, GaOutside, GaIdle
<1>2. AccountsSound
  BY GaConstants DEF GaInit, AccountsSound, Registering, GaAt, GaIdle
<1> QED BY <1>1, <1>2 DEF GaInv

\* A step in which nobody who registers goes anywhere.
LEMMA AccountsUntouched ==
    ASSUME GaInv, UNCHANGED gaAccounts, GaTypeOK',
           \A th \in GaThreads :
             \/ gaThread'[th] = gaThread[th]
             \/ ~Registering(th) /\ ~Registering(th)'
    PROVE  GaInv'
<1>1. /\ UNCHANGED <<gaFile, gaCfg, gaMutex>>
      /\ \A th \in GaThreads : Registering(th)' <=> Registering(th)
      /\ \A th \in GaThreads : GaAt(th, "publish")' <=> GaAt(th, "publish")
      /\ \A th \in GaThreads : Registering(th) => gaThread'[th].arg = gaThread[th].arg
  BY DEF gaAccounts, Registering, GaAt
<1>2. \A th \in GaThreads : GaAt(th, "publish") => Registering(th)
  BY DEF GaAt, Registering
<1>3. AccountsSound'
  BY <1>1, <1>2 DEF GaInv, AccountsSound
<1> QED BY <1>3 DEF GaInv

\* One account more, where there is room for it.
LEMMA RoomForOne ==
    ASSUME NEW S, NEW n, IsFiniteSet(S), HasRoom(S)
    PROVE  IsFiniteSet(S \cup {n}) /\ WithinLimit(S \cup {n})
<1>1. GaMaxAccounts \in Nat /\ Cardinality(S) \in Nat
  BY GaConstants, FS_CardinalityType
<1>2. IsFiniteSet(S \cup {n}) /\ Cardinality(S \cup {n}) \in {Cardinality(S), Cardinality(S) + 1}
  BY FS_AddElement
<1> QED BY <1>1, <1>2 DEF HasRoom, WithinLimit

\* A registration goes under accounts_mu from its checks to its publication.
LEMMA GaInvNext == GaInv /\ [GaNext]_gaVars => GaInv'
<1> SUFFICES ASSUME GaInv, [GaNext]_gaVars PROVE GaInv'
  OBVIOUS
<1>0. GaTypeOK /\ AccountsSound /\ GaNone \notin GaThreads
  BY GaConstants DEF GaInv
\* Logins and relays only move a thread that does not register.
<1>1. ASSUME NEW th \in GaThreads, UNCHANGED gaAccounts, ~Registering(th),
             NEW h \in [op : GaOutside, arg : {GaNone}],
             gaThread' = [gaThread EXCEPT ![th] = h]
      PROVE  GaInv'
  <2>1. h \in GaHands
    BY DEF GaHands
  <2>2. GaTypeOK'
    BY <1>0, <1>1, <2>1 DEF GaTypeOK, gaAccounts
  <2>3. /\ \A u \in GaThreads \ {th} : gaThread'[u] = gaThread[u]
        /\ gaThread'[th].op \notin {"add", "publish"}
    BY <1>0, <1>1 DEF GaTypeOK, GaOutside
  <2> QED BY <1>1, <2>2, <2>3, AccountsUntouched DEF Registering
<1>2. CASE UNCHANGED <<gaAccounts, gaThread>>
  BY <1>0, <1>2, AccountsUntouched DEF GaTypeOK, gaAccounts
<1>3. ASSUME NEW th \in GaThreads,
             \/ LoginAllowed(th) \/ LoginChecked(th) \/ RelayAdmitted(th) \/ RelayEnds(th)
             \/ RegisterAllowed(th) \/ RegisterInvalid(th) \/ RegisterSucceeds(th)
      PROVE  GaInv'
  <2>1. ~Registering(th) /\ UNCHANGED gaAccounts
    BY <1>3 DEF LoginAllowed, LoginChecked, RelayAdmitted, RelayEnds, RegisterAllowed,
       RegisterInvalid, RegisterSucceeds, Registering, GaAt, GaIdle
  <2>2. \E o \in GaOutside :
          gaThread' = [gaThread EXCEPT ![th] = [op |-> o, arg |-> GaNone]]
    BY <1>3 DEF LoginAllowed, LoginChecked, RelayAdmitted, RelayEnds, RegisterAllowed,
       RegisterInvalid, RegisterSucceeds, GaGoto, GaDone, GaIdle, GaOutside
  <2> QED BY <1>1, <2>1, <2>2
<1>refused. ASSUME NEW th \in GaThreads, RegisterChecks(th), UNCHANGED gaMutex, GaDone(th)
       PROVE  GaInv'
  <2>1. ~Registering(th) /\ UNCHANGED gaAccounts
    BY <1>refused DEF RegisterChecks, Registering, GaAt, gaAccounts
  <2>2. gaThread' = [gaThread EXCEPT ![th] = [op |-> "none", arg |-> GaNone]]
    BY <1>refused DEF GaDone, GaIdle
  <2> QED BY <1>1, <2>1, <2>2 DEF GaOutside
<1>4. ASSUME NEW th \in GaThreads, RegisterChecks(th)
      PROVE  GaInv'
  <2> SUFFICES ASSUME NEW n \in GaNames \cup GaAdmin, Registrable(n), gaMutex' = th,
                      GaGoto(th, "add", n)
               PROVE  GaInv'
    BY <1>4, <1>refused DEF RegisterChecks
  <2>1. /\ n \notin gaCfg /\ HasRoom(gaCfg)
        /\ gaThread' = [gaThread EXCEPT ![th] = [op |-> "add", arg |-> n]]
    BY DEF Registrable, GaGoto
  <2>2. gaMutex = GaNone /\ gaMutex' = th /\ UNCHANGED <<gaFile, gaCfg>>
    BY <1>4 DEF RegisterChecks, MayRegister
  <2>3. \A u \in GaThreads : ~Registering(u)
    BY <1>0, <2>2 DEF AccountsSound
  <2>4. GaTypeOK'
    BY <1>0, <2>1, <2>2 DEF GaTypeOK, GaHands
  <2>5. /\ gaThread'[th] = [op |-> "add", arg |-> n]
        /\ \A u \in GaThreads \ {th} : gaThread'[u] = gaThread[u]
    BY <1>0, <2>1 DEF GaTypeOK
  <2>6. \A u \in GaThreads : ~GaAt(u, "publish") /\ ~GaAt(u, "publish")'
    BY <2>3, <2>5 DEF Registering, GaAt
  <2>7. \A u \in GaThreads : Registering(u)' <=> u = th
    BY <2>3, <2>5 DEF Registering
  <2>8. AccountsSound'
    BY <1>0, <2>1, <2>2, <2>5, <2>6, <2>7 DEF AccountsSound
  <2> QED BY <2>4, <2>8 DEF GaInv
<1>5. ASSUME NEW th \in GaThreads, RegisterAdds(th)
      PROVE  GaInv'
  <2>0. /\ gaMutex = th /\ gaThread[th].op = "add" /\ UNCHANGED gaCfg
        /\ \A u \in GaThreads \ {th} : ~Registering(u)
        /\ gaThread[th].arg \in GaNames \cup GaAdmin
    BY <1>0, <1>5 DEF RegisterAdds, AccountsSound, GaAt, Registering, GaTypeOK, GaHands, GaOutside
  <2>1. gaCfg = GaAdmin \cup gaFile /\ HasRoom(gaCfg)
    BY <1>0, <2>0 DEF AccountsSound, Registering, GaAt
  <2>2. CASE gaFile' = gaFile \cup {gaThread[th].arg} /\ UNCHANGED gaMutex
             /\ GaGoto(th, "publish", gaThread[th].arg) /\ gaThread[th].arg \notin gaCfg
    <3>1. /\ gaThread'[th] = [op |-> "publish", arg |-> gaThread[th].arg]
          /\ \A u \in GaThreads \ {th} : gaThread'[u] = gaThread[u]
      BY <1>0, <2>2 DEF GaTypeOK, GaGoto
    <3>2. IsFiniteSet(gaFile')
      BY <1>0, <2>2, FS_AddElement DEF GaTypeOK
    <3>3. GaTypeOK'
      BY <1>0, <2>0, <2>2, <3>2 DEF GaTypeOK, GaHands, GaGoto
    <3>4. \A u \in GaThreads : Registering(u)' <=> u = th
      BY <2>0, <3>1 DEF Registering
    <3>5. \A u \in GaThreads : GaAt(u, "publish")' <=> u = th
      BY <2>0, <3>1 DEF Registering, GaAt
    <3>6. gaCfg' \cup {gaThread'[th].arg} = GaAdmin \cup gaFile' /\ gaThread'[th].arg \notin gaCfg'
      BY <2>0, <2>1, <2>2, <3>1
    <3>7. AccountsSound'
      BY <1>0, <2>0, <2>1, <2>2, <3>4, <3>5, <3>6 DEF AccountsSound
    <3> QED BY <3>3, <3>7 DEF GaInv
  <2>3. CASE gaMutex' = GaNone /\ GaDone(th) /\ UNCHANGED gaFile
    <3>1. /\ gaThread'[th] = GaIdle
          /\ \A u \in GaThreads \ {th} : gaThread'[u] = gaThread[u]
      BY <1>0, <2>3 DEF GaTypeOK, GaDone
    <3>2. GaTypeOK'
      BY <1>0, <2>0, <2>3 DEF GaTypeOK, GaHands, GaOutside, GaDone, GaIdle
    <3>3. \A u \in GaThreads : ~Registering(u)' /\ ~GaAt(u, "publish")'
      BY <2>0, <3>1 DEF Registering, GaAt, GaIdle
    <3>4. AccountsSound'
      BY <1>0, <2>0, <2>1, <2>3, <3>3 DEF AccountsSound
    <3> QED BY <3>2, <3>4 DEF GaInv
  <2>4. gaThread[th].arg \notin gaCfg
    BY <1>0, <2>0 DEF AccountsSound, Registering
  <2> QED BY <1>5, <2>2, <2>3, <2>4 DEF RegisterAdds
<1>6. ASSUME NEW th \in GaThreads, RegisterPublishes(th)
      PROVE  GaInv'
  <2>0. /\ gaMutex = th /\ gaThread[th].op = "publish" /\ UNCHANGED gaFile
        /\ gaMutex' = GaNone /\ gaCfg' = gaCfg \cup {gaThread[th].arg}
        /\ \A u \in GaThreads \ {th} : ~Registering(u)
    BY <1>0, <1>6 DEF RegisterPublishes, AccountsSound, GaAt, Registering
  <2>1. gaCfg' = GaAdmin \cup gaFile' /\ HasRoom(gaCfg)
    BY <1>0, <2>0 DEF AccountsSound, Registering, GaAt
  <2>2. IsFiniteSet(gaCfg') /\ WithinLimit(gaCfg')
    <3>1. PICK n : gaCfg' = gaCfg \cup {n}
      BY <2>0
    <3>2. IsFiniteSet(gaCfg) /\ HasRoom(gaCfg)
      BY <1>0, <2>1 DEF GaTypeOK
    <3>3. IsFiniteSet(gaCfg \cup {n}) /\ WithinLimit(gaCfg \cup {n})
      BY <3>2, RoomForOne
    <3> QED BY <3>1, <3>3
  <2>3. /\ gaThread'[th] = [op |-> "registered", arg |-> GaNone]
        /\ \A u \in GaThreads \ {th} : gaThread'[u] = gaThread[u]
    BY <1>0, <1>6 DEF GaTypeOK, RegisterPublishes, GaGoto
  <2>4. GaTypeOK'
    BY <1>0, <1>6, <2>0, <2>2 DEF GaTypeOK, GaHands, GaOutside, RegisterPublishes, GaGoto
  <2>5. \A u \in GaThreads : ~Registering(u)' /\ ~GaAt(u, "publish")'
    BY <2>0, <2>3 DEF Registering, GaAt, GaIdle
  <2>6. AccountsSound'
    BY <1>0, <2>0, <2>1, <2>2, <2>5 DEF AccountsSound
  <2> QED BY <2>4, <2>6 DEF GaInv
<1>7. CASE RestartAccounts
  <2>1. GaTypeOK'
    BY <1>0, <1>7, FS_Union, GaConstants
       DEF GaTypeOK, GaHands, GaOutside, RestartAccounts, GaIdle
  <2>2. WithinLimit(gaCfg') \/ gaCfg' = GaAdmin
    <3>1. CASE \E th \in GaThreads : GaAt(th, "publish")
      <4>1. PICK th \in GaThreads : GaAt(th, "publish")
        BY <3>1
      <4>2. gaCfg \cup {gaThread[th].arg} = gaCfg' /\ HasRoom(gaCfg)
        BY <1>0, <1>7, <4>1 DEF AccountsSound, RestartAccounts, GaAt, Registering
      <4> QED BY <1>0, <4>2, RoomForOne DEF GaTypeOK
    <3>2. CASE ~\E th \in GaThreads : GaAt(th, "publish")
      BY <1>0, <1>7, <3>2 DEF AccountsSound, RestartAccounts
    <3> QED BY <3>1, <3>2
  <2>3. \A th \in GaThreads : ~Registering(th)' /\ ~GaAt(th, "publish")'
    BY <1>7 DEF RestartAccounts, Registering, GaAt, GaIdle
  <2>4. AccountsSound'
    BY <1>0, <1>7, <2>2, <2>3 DEF AccountsSound, RestartAccounts
  <2> QED BY <2>1, <2>4 DEF GaInv
<1> QED BY <1>2, <1>3, <1>4, <1>5, <1>6, <1>7 DEF GaNext, gaVars, LimiterForgets, NewDay

\* The accounts in use are those of gateway.json and of the registration file, and
\* within the limit: also while two registrations race, when a file cannot be
\* written and when a restart comes between the file and the table (gw_accounts.cpp,
\* POST /api/auth/register).
THEOREM AccountsAlwaysAgree == GaSpec => []AccountsAgree
<1>1. GaInv => AccountsAgree
  <2> SUFFICES ASSUME GaInv PROVE AccountsAgree
    OBVIOUS
  <2>1. gaMutex = GaNone => \A th \in GaThreads : ~GaAt(th, "publish")
    BY GaConstants DEF GaInv, AccountsSound, Registering, GaAt
  <2> QED BY <2>1 DEF GaInv, AccountsSound, AccountsAgree, WithinLimit
<1> QED BY <1>1, GaInvInit, GaInvNext, PTL DEF GaSpec

\* The requests that have passed the check and not yet been charged.
Relaying == {th \in GaThreads : GaAt(th, "relay")}

\* Every such request still finds a place under the bound.
QuotaInv ==
    /\ gaUsed \in Nat /\ DOMAIN gaThread = GaThreads
    /\ gaUsed + Cardinality(Relaying) <= GaLimit + Cardinality(GaThreads) - 1

\* The requests in a round are finitely many.
LEMMA RelayingIsFinite ==
    /\ IsFiniteSet(Relaying) /\ Cardinality(Relaying) \in Nat
    /\ Cardinality(GaThreads) \in Nat /\ Cardinality(Relaying) <= Cardinality(GaThreads)
    /\ GaLimit \in Nat \ {0}
<1>1. Relaying \in SUBSET GaThreads
  BY DEF Relaying
<1> QED BY <1>1, GaConstants, FS_Subset, FS_CardinalityType

\* At first nothing is charged.
LEMMA QuotaInit == GaInit => QuotaInv
<1> SUFFICES ASSUME GaInit PROVE QuotaInv
  OBVIOUS
<1>1. Relaying = {}
  BY DEF GaInit, Relaying, GaAt, GaIdle
<1>2. Cardinality(Relaying) = 0
  BY <1>1, FS_EmptySet
<1> QED BY <1>2, RelayingIsFinite DEF GaInit, QuotaInv

\* A round leaves, charged or not.
LEMMA RoundEnds ==
    ASSUME QuotaInv, NEW th \in GaThreads, RelayEnds(th)
    PROVE  QuotaInv'
<1>1. /\ gaThread' = [gaThread EXCEPT ![th] = GaIdle] /\ th \in Relaying
      /\ gaUsed' \in {gaUsed, gaUsed + 1}
  BY DEF RelayEnds, GaDone, Relaying
<1>2. Relaying' = Relaying \ {th}
  BY <1>1 DEF QuotaInv, Relaying, GaAt, GaIdle
<1>3. Cardinality(Relaying') = Cardinality(Relaying) - 1
  BY <1>1, <1>2, RelayingIsFinite, FS_RemoveElement
<1> QED BY <1>1, <1>3, RelayingIsFinite DEF QuotaInv

\* A round is admitted: the limit is not reached, and it is one of the threads.
LEMMA RoundBegins ==
    ASSUME QuotaInv, NEW th \in GaThreads, RelayAdmitted(th)
    PROVE  QuotaInv'
<1>1. /\ gaThread' = [gaThread EXCEPT ![th] = [op |-> "relay", arg |-> GaNone]]
      /\ gaUsed < GaLimit /\ UNCHANGED gaUsed
  BY RelayingIsFinite DEF QuotaInv, RelayAdmitted, GaGoto, OverLimit, gaCounts
<1>2. Relaying' \in SUBSET GaThreads
  BY DEF Relaying
<1>3. Cardinality(Relaying') \in Nat /\ Cardinality(Relaying') <= Cardinality(GaThreads)
  BY <1>2, GaConstants, FS_Subset, FS_CardinalityType
<1> QED BY <1>1, <1>3, RelayingIsFinite DEF QuotaInv

\* A round begins below the limit, and every charge ends one.
LEMMA QuotaNext == QuotaInv /\ [GaNext]_gaVars => QuotaInv'
<1> SUFFICES ASSUME QuotaInv, [GaNext]_gaVars PROVE QuotaInv'
  OBVIOUS
\* Whoever else moves is no round, before or after.
<1>1. ASSUME UNCHANGED gaUsed, DOMAIN gaThread' = GaThreads, Relaying' = Relaying
      PROVE  QuotaInv'
  BY <1>1 DEF QuotaInv
<1>2. CASE UNCHANGED <<gaUsed, gaThread>>
  <2>1. Relaying' = Relaying
    BY <1>2 DEF Relaying, GaAt
  <2> QED BY <1>1, <1>2, <2>1 DEF QuotaInv
<1>3. ASSUME NEW th \in GaThreads, ~GaAt(th, "relay"), UNCHANGED gaUsed, NEW h,
             gaThread' = [gaThread EXCEPT ![th] = h], h.op # "relay"
      PROVE  QuotaInv'
  <2>1. Relaying' = Relaying
    BY <1>3 DEF Relaying, GaAt, QuotaInv
  <2> QED BY <1>1, <1>3, <2>1 DEF QuotaInv
<1>4. ASSUME NEW th \in GaThreads,
             \/ LoginAllowed(th) \/ LoginChecked(th)
             \/ RegisterAllowed(th) \/ RegisterInvalid(th) \/ RegisterSucceeds(th)
      PROVE  QuotaInv'
  BY <1>3, <1>4 DEF LoginAllowed, LoginChecked, RegisterAllowed, RegisterInvalid,
     RegisterSucceeds, GaGoto, GaDone, GaAt, GaIdle, gaCounts
<1>5. ASSUME NEW th \in GaThreads,
             RegisterChecks(th) \/ RegisterAdds(th) \/ RegisterPublishes(th)
      PROVE  QuotaInv'
  BY <1>3, <1>5 DEF RegisterChecks, RegisterAdds, RegisterPublishes, GaGoto, GaDone, GaAt,
     GaIdle, gaCounts
<1>6. CASE NewDay
  <2>1. Relaying' = Relaying
    BY <1>6 DEF NewDay, Relaying, GaAt
  <2> QED BY <1>6, <2>1, RelayingIsFinite DEF NewDay, QuotaInv
<1>7. CASE RestartAccounts
  <2>1. Relaying' = {}
    BY <1>7 DEF RestartAccounts, Relaying, GaAt, GaIdle
  <2>2. Cardinality(Relaying') = 0
    BY <2>1, FS_EmptySet
  <2> QED BY <1>7, <2>2, RelayingIsFinite DEF RestartAccounts, QuotaInv
<1>8. CASE LimiterForgets
  BY <1>2, <1>8 DEF LimiterForgets
<1>9. CASE UNCHANGED gaVars
  BY <1>2, <1>9 DEF gaVars, gaCounts
<1> QED BY <1>4, <1>5, <1>6, <1>7, <1>8, <1>9, RoundBegins, RoundEnds DEF GaNext

\* The quota is looked at before a round and charged after it (POST
\* /api/ai/relay/chat, gw_usage.cpp): with any number of requests in flight an
\* account goes over its limit by less than their number.
THEOREM QuotaIsBounded == GaSpec => []QuotaBounded
<1>1. QuotaInv => QuotaBounded
  BY RelayingIsFinite DEF QuotaInv, QuotaBounded
<1> QED BY <1>1, QuotaInit, QuotaNext, PTL DEF GaSpec

=============================================================================
