------------------------ MODULE InstancePoolProofs ------------------------
(***************************************************************************)
(* Proofs about the gateway's pool of backends: its types, that a running  *)
(* backend is never forgotten, and what holds while nothing is evicted or  *)
(* reaped.  The argument is who holds a record's mutex: only the holder    *)
(* gives a record a process or takes it away, and only once it is dead.    *)
(***************************************************************************)
EXTENDS InstancePool, FiniteSetTheorems, TLAPS

-----------------------------------------------------------------------------
(* Shapes                                                                  *)

RecordSet == [name : Accounts \cup {NoAccount}, pid : Procs \cup {None}, port : Procs \cup {None},
              inflight : Int, detached : BOOLEAN, mu : BOOLEAN]
ThreadPcs == {"idle", "lookup", "evict", "retire", "retired", "lock", "check", "recycled",
              "start", "wait port", "wait ping", "start failed", "serving", "unref"}
ThreadSet == [pc : ThreadPcs, name : Accounts \cup {NoAccount}, in : Records \cup {None},
              victim : Records \cup {None}, requests : 0..MaxRequests]
ProcSet   == [name : Accounts \cup {NoAccount}, state : {"none", "booting", "up", "dead"}]

\* The records that exist, in the order they are made; the others have no process.
RecordsOK ==
    /\ rec \in [Records -> RecordSet]
    /\ made \in Nat /\ made <= MaxRecords
    /\ \A r \in Records : IF r <= made THEN rec[r].name \in Accounts ELSE rec[r].pid = None

MapOK ==
    /\ map \in [Accounts -> Records \cup {None}]
    /\ \A a \in Accounts : map[a] # None => map[a] <= made /\ rec[map[a]].name = a

\* The processes that were forked, in the order they were.
ProcsOK ==
    /\ proc \in [Procs -> ProcSet]
    /\ \E k \in Nat : k <= MaxForks /\ \A p \in Procs : proc[p].state # "none" <=> p <= k
    /\ \A r \in Records : rec[r].pid # None => proc[rec[r].pid].state # "none"
    /\ portFile \in [Accounts -> Procs \cup {None}]
    /\ faults \in 0..MaxFaults

\* What thread t has in its hands.
ThreadOK(o) ==
    /\ o.in <= made /\ o.victim <= made
    /\ o.pc # "idle" => o.name \in Accounts
    /\ o.pc \notin {"idle", "lookup"} => o.in # None
    /\ o.pc \in {"retire", "retired"} => o.victim # None
    /\ o.pc \notin {"idle", "lookup"} => rec[o.in].name = o.name

ThreadsOK ==
    /\ th \in [Threads -> ThreadSet]
    /\ \A t \in Threads : ThreadOK(th[t])

OthersOK ==
    /\ reaper \in [todo : SUBSET Records, in : Records \cup {None}, ticks : 0..MaxTicks]
    /\ main \in [pc : {"running", "shutdown", "stop", "drain", "last stop", "exited"},
                 todo : SUBSET Records, in : Records \cup {None}]
    /\ \A r \in reaper.todo \cup main.todo : r <= made
    /\ reaper.in <= made /\ main.in <= made

PoolShape == RecordsOK /\ MapOK /\ ProcsOK /\ ThreadsOK /\ OthersOK

\* The bounds are numbers, and None is no record and no process.
LEMMA PoolNumbers ==
    /\ MaxRecords \in Nat /\ MaxForks \in Nat /\ MaxInstances \in Nat /\ None = 0
    /\ Records = {r \in Nat : 0 < r /\ r <= MaxRecords}
    /\ Procs = {p \in Nat : 0 < p /\ p <= MaxForks}
    /\ None \notin Records /\ None \notin Procs
BY PoolAssumption DEF Records, Procs, None

\* The number that names no record is below all counts.
LEMMA NoneIsBefore == ASSUME NEW n \in Nat PROVE None <= n
BY PoolNumbers

\* The initial state has its shape.
LEMMA PoolShapeInit == Init => PoolShape
<1> SUFFICES ASSUME Init PROVE PoolShape
  OBVIOUS
<1>1. RecordsOK
  BY PoolNumbers DEF Init, RecordsOK, RecordSet, NewRecord
<1>2. MapOK
  BY PoolNumbers DEF Init, MapOK
<1>3. ProcsOK
  <2>1. 0 \in Nat /\ 0 <= MaxForks /\ \A p \in Procs : proc[p].state # "none" <=> p <= 0
    BY PoolNumbers DEF Init, NoProc
  <2>2. \A r \in Records : rec[r].pid = None
    BY DEF Init, NewRecord
  <2>3. proc \in [Procs -> ProcSet] /\ portFile \in [Accounts -> Procs \cup {None}]
        /\ faults \in 0..MaxFaults
    BY PoolAssumption DEF Init, NoProc, ProcSet
  <2> QED BY <2>1, <2>2, <2>3 DEF ProcsOK
<1>4. ThreadsOK
  <2>1. IdleThread \in ThreadSet
    BY PoolAssumption DEF IdleThread, ThreadSet, ThreadPcs
  <2>2. ThreadOK(IdleThread)
    BY PoolNumbers DEF Init, IdleThread, ThreadOK
  <2> QED BY <2>1, <2>2 DEF Init, ThreadsOK, ThreadOK
<1>5. OthersOK
  BY PoolAssumption, PoolNumbers DEF Init, OthersOK
<1> QED BY <1>1, <1>2, <1>3, <1>4, <1>5 DEF PoolShape

\* One record changes, under its name, and no process comes to it.
LEMMA RecordChanges ==
    ASSUME PoolShape, NEW r \in Records, NEW q \in RecordSet, q.name = rec[r].name,
           q.pid \in {rec[r].pid, None},
           rec' = [rec EXCEPT ![r] = q], UNCHANGED made
    PROVE  /\ RecordsOK'
           /\ rec'[r] = q /\ \A s \in Records \ {r} : rec'[s] = rec[s]
           /\ \A s \in Records : rec'[s].name = rec[s].name
           /\ \A s \in Records : rec'[s].pid \in {rec[s].pid, None}
BY DEF PoolShape, RecordsOK, RecordSet

\* What depends on the records' names and processes stays, whatever else of the
\* records changes.
LEMMA NamesStay ==
    ASSUME PoolShape, UNCHANGED made,
           \A s \in Records : rec'[s].name = rec[s].name /\ rec'[s].pid \in {rec[s].pid, None}
    PROVE  /\ UNCHANGED map => MapOK'
           /\ UNCHANGED <<proc, portFile, faults>> => ProcsOK'
           /\ UNCHANGED th => ThreadsOK'
           /\ UNCHANGED <<reaper, main>> => OthersOK'
           /\ \A o \in ThreadSet : ThreadOK(o) => ThreadOK(o)'
<1>1. UNCHANGED map => MapOK'
  BY PoolNumbers DEF PoolShape, MapOK
<1>2. UNCHANGED <<proc, portFile, faults>> => ProcsOK'
  BY DEF PoolShape, ProcsOK
<1>3. ASSUME NEW o \in ThreadSet, ThreadOK(o) PROVE ThreadOK(o)'
  BY <1>3 DEF ThreadOK, ThreadSet
<1>4. UNCHANGED th => ThreadsOK'
  BY <1>3 DEF PoolShape, ThreadsOK
<1>5. UNCHANGED <<reaper, main>> => OthersOK'
  BY DEF PoolShape, OthersOK
<1> QED BY <1>1, <1>2, <1>3, <1>4, <1>5

\* A thread moves.
LEMMA ThreadMoves ==
    ASSUME PoolShape, NEW t \in Threads, NEW o \in ThreadSet, th' = [th EXCEPT ![t] = o],
           ThreadOK(o)',
           \A u \in ThreadSet : ThreadOK(u) => ThreadOK(u)'
    PROVE  ThreadsOK'
BY DEF PoolShape, ThreadsOK, ThreadOK

\* A thread that only moves on keeps its record and its victim.
LEMMA PcMoves ==
    ASSUME PoolShape, NEW t \in Threads, NEW l \in ThreadPcs, Move(t, l),
           \A u \in ThreadSet : ThreadOK(u) => ThreadOK(u)',
           th[t].pc \notin {"idle", "lookup"} \/ l = "idle",
           l = "retired" => th[t].pc = "retire", l # "retire"
    PROVE  /\ ThreadsOK'
           /\ th'[t] = [th[t] EXCEPT !.pc = l] /\ th'[t].pc = l
           /\ th'[t].in = th[t].in /\ th'[t].victim = th[t].victim /\ th'[t].name = th[t].name
           /\ \A u \in Threads \ {t} : th'[u] = th[u]
<1>1. PICK o : o = [th[t] EXCEPT !.pc = l]
  OBVIOUS
<1>2. th[t] \in ThreadSet /\ ThreadOK(th[t])
  BY DEF PoolShape, ThreadsOK
<1>3. o \in ThreadSet /\ o.pc = l /\ o.in = th[t].in /\ o.victim = th[t].victim
      /\ o.name = th[t].name
  BY <1>1, <1>2 DEF ThreadSet
<1>4. th' = [th EXCEPT ![t] = o]
  BY <1>1 DEF Move
<1>5. PICK x \in ThreadSet : x = th[t]
  BY <1>2
<1>6. ThreadOK(x)'
  BY <1>2, <1>5
<1>7. ThreadOK(o)'
  BY <1>2, <1>3, <1>5, <1>6 DEF ThreadOK
<1>8. ThreadsOK'
  BY <1>3, <1>4, <1>7, ThreadMoves
<1>9. th'[t] = o /\ \A u \in Threads \ {t} : th'[u] = th[u]
  BY <1>4 DEF PoolShape, ThreadsOK
<1> QED BY <1>1, <1>3, <1>8, <1>9

\* A process changes its state, but not to and from "none".
LEMMA ProcChanges ==
    ASSUME PoolShape, proc' \in [Procs -> ProcSet], faults' \in 0..MaxFaults,
           \A r \in Records : rec'[r].pid \in {rec[r].pid, None},
           \A p \in Procs : proc'[p].state # "none" <=> proc[p].state # "none",
           portFile' \in [Accounts -> Procs \cup {None}]
    PROVE  ProcsOK'
<1>1. \A r \in Records : rec[r].pid \in Procs \cup {None}
  BY DEF PoolShape, RecordsOK, RecordSet
<1> QED BY <1>1 DEF PoolShape, ProcsOK

\* The backend of a record is killed, or there is none.
LEMMA KilledProcs ==
    ASSUME PoolShape, NEW p \in Procs \cup {None}, proc' = Killed(p),
           p # None => proc[p].state # "none"
    PROVE  /\ proc' \in [Procs -> ProcSet]
           /\ \A x \in Procs : proc'[x].state # "none" <=> proc[x].state # "none"
           /\ p # None => proc'[p].state = "dead"
           /\ \A x \in Procs : x # p => proc'[x] = proc[x]
<1>1. CASE p = None
  BY <1>1, PoolNumbers DEF Killed, PoolShape, ProcsOK
<1>2. CASE p \in Procs
  <2>1. proc' = [proc EXCEPT ![p].state = "dead"]
    BY <1>2, PoolNumbers DEF Killed
  <2>2. proc \in [Procs -> ProcSet] /\ proc[p].state # "none"
    BY <1>2, PoolNumbers DEF PoolShape, ProcsOK
  <2>3. PICK q \in ProcSet : q = [proc[p] EXCEPT !.state = "dead"]
    <3>1. [proc[p] EXCEPT !.state = "dead"] \in ProcSet
      BY <1>2, <2>2 DEF ProcSet
    <3> QED BY <3>1
  <2>4. proc' = [proc EXCEPT ![p] = q] /\ q.state = "dead"
    BY <1>2, <2>1, <2>2, <2>3 DEF ProcSet
  <2> QED BY <1>2, <2>2, <2>4
<1> QED BY <1>1, <1>2

\* The tail of a stop.
LEMMA ForgetFacts ==
    ASSUME PoolShape, NEW r \in Records, Forget(r), UNCHANGED <<made, proc, faults>>
    PROVE  /\ RecordsOK' /\ ProcsOK'
           /\ rec'[r].pid = None /\ ~rec'[r].mu
           /\ rec'[r].name = rec[r].name /\ rec'[r].inflight = rec[r].inflight
           /\ rec'[r].detached = rec[r].detached
           /\ \A s \in Records \ {r} : rec'[s] = rec[s]
           /\ \A s \in Records : rec'[s].name = rec[s].name /\ rec'[s].pid \in {rec[s].pid, None}
<1>1. PICK q : q = [rec[r] EXCEPT !.pid = None, !.port = None, !.mu = FALSE]
  OBVIOUS
<1>2. rec[r] \in RecordSet
  BY DEF PoolShape, RecordsOK
<1>3. q \in RecordSet /\ q.name = rec[r].name /\ q.pid = None /\ ~q.mu
      /\ q.inflight = rec[r].inflight /\ q.detached = rec[r].detached
  BY <1>1, <1>2 DEF RecordSet
<1>4. rec' = [rec EXCEPT ![r] = q]
  BY <1>1 DEF Forget, PoolShape, RecordsOK, RecordSet
<1>5. /\ RecordsOK' /\ rec'[r] = q /\ \A s \in Records \ {r} : rec'[s] = rec[s]
      /\ \A s \in Records : rec'[s].name = rec[s].name /\ rec'[s].pid \in {rec[s].pid, None}
  BY <1>3, <1>4, RecordChanges
<1>6. portFile' \in [Accounts -> Procs \cup {None}]
  BY DEF Forget, PoolShape, ProcsOK
<1>7. ProcsOK'
  BY <1>5, <1>6 DEF PoolShape, ProcsOK
<1> QED BY <1>3, <1>5, <1>7

\* A record made now comes after the others.
LEMMA AfterTheMade == ASSUME NEW n \in Nat, NEW k, k = n + 1 PROVE ~(k <= n)
OBVIOUS

\* What exists after one more was made, and is not that one, existed before.
LEMMA OneMoreMade ==
    ASSUME PoolShape, NEW s \in Records, NEW k, s # k, s <= k, k = made + 1
    PROVE  s <= made
BY PoolNumbers DEF PoolShape, RecordsOK

\* Integer arithmetic.
LEMMA OneMore == ASSUME NEW j \in Int PROVE j + 1 \in Int /\ j - 1 \in Int
OBVIOUS

\* The backend is handed out.
LEMMA HandOutFacts ==
    ASSUME PoolShape, NEW t \in Threads, th[t].pc \in {"check", "wait ping"}, HandOut(t),
           UNCHANGED faults
    PROVE  /\ PoolShape'
           /\ th[t].in \in Records /\ ~rec'[th[t].in].mu
           /\ rec'[th[t].in].pid = rec[th[t].in].pid
           /\ rec'[th[t].in].detached = rec[th[t].in].detached
           /\ rec'[th[t].in].name = rec[th[t].in].name
           /\ \A s \in Records \ {th[t].in} : rec'[s] = rec[s]
           /\ th'[t].pc = "serving" /\ th'[t].in = th[t].in
           /\ th'[t].victim = th[t].victim /\ th'[t].name = th[t].name
           /\ \A u \in Threads \ {t} : th'[u] = th[u]
<1>1. th[t].in \in Records
  BY DEF PoolShape, ThreadsOK, ThreadOK, ThreadSet
<1>2. PICK r \in Records : r = th[t].in
  BY <1>1
<1>3. PICK q : q = [rec[r] EXCEPT !.inflight = @ + 1, !.mu = FALSE]
  OBVIOUS
<1>4. rec[r] \in RecordSet
  BY DEF PoolShape, RecordsOK
<1>5. q \in RecordSet /\ q.name = rec[r].name /\ q.pid = rec[r].pid /\ ~q.mu
      /\ q.detached = rec[r].detached
  <2>0. rec[r].inflight \in Int
    BY <1>4 DEF RecordSet
  <2>1. PICK i \in Int : i = rec[r].inflight + 1
    BY <2>0, OneMore
  <2>2. q = [rec[r] EXCEPT !.inflight = i, !.mu = FALSE]
    BY <1>3, <2>1
  <2> QED BY <1>4, <2>2 DEF RecordSet
<1>6. rec' = [rec EXCEPT ![r] = q]
  BY <1>2, <1>3 DEF HandOut, PoolShape, RecordsOK, RecordSet
<1>7. UNCHANGED <<map, made, proc, portFile, reaper, main>> /\ Move(t, "serving")
  BY DEF HandOut
<1>8. /\ RecordsOK' /\ rec'[r] = q /\ \A s \in Records \ {r} : rec'[s] = rec[s]
      /\ \A s \in Records : rec'[s].name = rec[s].name /\ rec'[s].pid \in {rec[s].pid, None}
  BY <1>5, <1>6, <1>7, RecordChanges
<1>9. MapOK' /\ ProcsOK' /\ OthersOK' /\ \A o \in ThreadSet : ThreadOK(o) => ThreadOK(o)'
  BY <1>7, <1>8, NamesStay
<1>10. /\ ThreadsOK' /\ th'[t].pc = "serving" /\ th'[t].in = th[t].in
       /\ th'[t].victim = th[t].victim /\ th'[t].name = th[t].name
       /\ \A u \in Threads \ {t} : th'[u] = th[u]
  BY <1>7, <1>9, PcMoves DEF ThreadPcs
<1> QED BY <1>2, <1>5, <1>7, <1>8, <1>9, <1>10 DEF PoolShape

-----------------------------------------------------------------------------
(* What each step does to threads, records and processes                   *)

\* Thread t goes to l, the others stay.
Goes(t, l) ==
    /\ th'[t].pc = l /\ th'[t].in = th[t].in
    /\ th'[t].victim = th[t].victim /\ th'[t].name = th[t].name
    /\ \A u \in Threads \ {t} : th'[u] = th[u]

\* Of the records, at most r changes.
Only(r) == \A s \in Records \ {r} : rec'[s] = rec[s]

\* What a thread knows of the record it deals with.
LEMMA ThreadFacts ==
    ASSUME PoolShape, NEW t \in Threads
    PROVE  /\ th[t] \in ThreadSet /\ ThreadOK(th[t])
           /\ th[t].in \in Records \cup {None} /\ th[t].victim \in Records \cup {None}
           /\ th[t].name \in Accounts \cup {NoAccount}
           /\ th[t].pc \notin {"idle", "lookup"} =>
                /\ th[t].in \in Records /\ th[t].in <= made
                /\ th[t].name \in Accounts /\ rec[th[t].in].name = th[t].name
                /\ rec[th[t].in] \in RecordSet
           /\ th[t].pc \in {"retire", "retired"} =>
                /\ th[t].victim \in Records /\ th[t].victim <= made
                /\ rec[th[t].victim] \in RecordSet /\ rec[th[t].victim].name \in Accounts
BY DEF PoolShape, ThreadsOK, ThreadOK, ThreadSet, RecordsOK

\* Find: the account's record, or a new one; eviction only when the pool is full.
LEMMA FindFacts ==
    ASSUME PoolShape, NEW t \in Threads, Find(t)
    PROVE  /\ PoolShape' /\ UNCHANGED <<proc, reaper, main>>
           /\ \E r \in Records :
                /\ th[t].pc = "lookup" /\ th'[t].pc \in {"evict", "lock"} /\ th'[t].in = r
                /\ th'[t].pc = "evict" => /\ rec[r].pid = None
                                          /\ Cardinality(Live) >= MaxInstances
                /\ th'[t].victim = th[t].victim /\ th'[t].name = th[t].name
                /\ \A u \in Threads \ {t} : th'[u] = th[u]
                /\ Only(r) /\ map' = [map EXCEPT ![th[t].name] = r]
                /\ rec'[r].name = th[t].name
                /\ \/ r = map[th[t].name] /\ ~rec[r].detached /\ rec' = rec /\ made' = made
                   \/ /\ r = made + 1 /\ rec[r].pid = None /\ made' = r
                      /\ map[th[t].name] = None \/ rec[map[th[t].name]].detached
                      /\ rec'[r] = NewRecord(th[t].name)
<1>1. PICK fresh \in BOOLEAN : Lookup(t, th[t].name, fresh)
  BY DEF Find
<1>2. PICK a : a = th[t].name
  OBVIOUS
<1>3. PICK r : r = IF fresh THEN made + 1 ELSE map[a]
  OBVIOUS
<1>4. PICK l : l = IF rec[r].pid = None /\ Cardinality(Live) >= MaxInstances
                   THEN "evict" ELSE "lock"
  OBVIOUS
<1>5. /\ fresh <=> (map[a] = None \/ rec[map[a]].detached)
      /\ fresh => made < MaxRecords
      /\ made' = IF fresh THEN r ELSE made
      /\ map' = [map EXCEPT ![a] = r]
      /\ rec' = IF fresh THEN [rec EXCEPT ![r] = NewRecord(a)] ELSE rec
      /\ th' = [th EXCEPT ![t].pc = l, ![t].name = a, ![t].in = r]
      /\ UNCHANGED <<proc, portFile, reaper, main, faults>>
  BY <1>1, <1>2, <1>3, <1>4 DEF Lookup
<1>6. /\ th[t].pc = "lookup" /\ a \in Accounts /\ th[t].name = a
      /\ th[t] \in ThreadSet /\ ThreadOK(th[t])
  BY <1>2, ThreadFacts DEF Find, At, ThreadOK
<1>7. /\ r \in Records /\ r <= made' /\ made' \in Nat /\ made <= made' /\ made' <= MaxRecords
      /\ made \in Nat
  <2>1. CASE fresh
    BY <1>3, <1>5, <2>1, PoolNumbers DEF PoolShape, RecordsOK
  <2>2. CASE ~fresh
    BY <1>3, <1>5, <1>6, <2>2, PoolNumbers DEF PoolShape, RecordsOK, MapOK
  <2> QED BY <2>1, <2>2
<1>8. /\ Only(r) /\ rec'[r].name = a /\ rec' \in [Records -> RecordSet]
      /\ fresh => rec'[r] = NewRecord(a) /\ rec[r].pid = None
      /\ rec'[r].pid = rec[r].pid
  <2>1. CASE fresh
    <3>1. NewRecord(a) \in RecordSet /\ NewRecord(a).name = a /\ NewRecord(a).pid = None
      BY <1>6 DEF NewRecord, RecordSet
    <3>2. rec[r].pid = None
      BY <1>3, <1>7, <2>1 DEF PoolShape, RecordsOK
    <3> QED BY <1>5, <1>7, <2>1, <3>1, <3>2 DEF PoolShape, RecordsOK, Only
  <2>2. CASE ~fresh
    BY <1>3, <1>5, <1>6, <2>2 DEF PoolShape, RecordsOK, MapOK, Only
  <2> QED BY <2>1, <2>2
<1>9. RecordsOK'
  <2>1. ASSUME NEW s \in Records
        PROVE  IF s <= made' THEN rec'[s].name \in Accounts ELSE rec'[s].pid = None
    <3>1. CASE s = r
      BY <1>6, <1>7, <1>8, <3>1
    <3>2. CASE s # r
      <4>1. s <= made' <=> s <= made
        BY <1>3, <1>5, <1>7, <3>2, PoolNumbers
      <4> QED BY <1>8, <3>2, <4>1 DEF PoolShape, RecordsOK, Only
    <3> QED BY <3>1, <3>2
  <2> QED BY <1>7, <1>8, <2>1 DEF RecordsOK
<1>10. MapOK'
  <2>1. map' \in [Accounts -> Records \cup {None}]
    BY <1>5, <1>7 DEF PoolShape, MapOK
  <2>2. ASSUME NEW b \in Accounts, map'[b] # None
        PROVE  map'[b] <= made' /\ rec'[map'[b]].name = b
    <3>1. CASE b = a
      BY <1>5, <1>6, <1>7, <1>8, <3>1 DEF PoolShape, MapOK
    <3>2. CASE b # a
      <4>1. map'[b] = map[b] /\ map[b] \in Records /\ map[b] <= made /\ rec[map[b]].name = b
        BY <1>5, <2>2, <3>2 DEF PoolShape, MapOK
      <4>2. map[b] # r
        BY <1>3, <1>5, <1>6, <1>7, <3>2, <4>1, PoolNumbers DEF PoolShape, MapOK
      <4> QED BY <1>7, <1>8, <4>1, <4>2, PoolNumbers DEF Only
    <3> QED BY <3>1, <3>2
  <2> QED BY <2>1, <2>2 DEF MapOK
<1>11. ProcsOK'
  <2>1. \A s \in Records : rec'[s].pid = rec[s].pid
    BY <1>8 DEF Only
  <2> QED BY <1>5, <2>1 DEF PoolShape, ProcsOK
<1>12. OthersOK'
  <2>1. \A x \in Records \cup {None} : x <= made => x <= made'
    BY <1>7, PoolNumbers
  <2>2. /\ reaper.in \in Records \cup {None} /\ main.in \in Records \cup {None}
        /\ \A x \in reaper.todo \cup main.todo : x \in Records
    BY DEF PoolShape, OthersOK
  <2> QED BY <1>5, <2>1, <2>2 DEF PoolShape, OthersOK
<1>13. PICK o \in ThreadSet : /\ th' = [th EXCEPT ![t] = o] /\ o.pc = l /\ o.in = r /\ o.name = a
                              /\ o.victim = th[t].victim
  <2>1. PICK o : o = [th[t] EXCEPT !.pc = l, !.name = a, !.in = r]
    OBVIOUS
  <2>2. o \in ThreadSet /\ o.pc = l /\ o.in = r /\ o.name = a /\ o.victim = th[t].victim
    BY <1>4, <1>6, <1>7, <2>1 DEF ThreadSet, ThreadPcs
  <2>3. th' = [th EXCEPT ![t] = o]
    BY <1>5, <2>1 DEF PoolShape, ThreadsOK, ThreadSet
  <2> QED BY <2>2, <2>3
<1>14. ThreadsOK'
  <2>1. ThreadOK(o)'
    <3>1. o.victim <= made'
      BY <1>6, <1>7, <1>13, PoolNumbers DEF ThreadOK, ThreadSet
    <3> QED BY <1>4, <1>6, <1>7, <1>8, <1>13, <3>1, PoolNumbers DEF ThreadOK
  <2>2. ASSUME NEW u \in ThreadSet, ThreadOK(u) PROVE ThreadOK(u)'
    <3>1. u.in <= made' /\ u.victim <= made'
      BY <1>7, <2>2, PoolNumbers DEF ThreadOK, ThreadSet
    <3>2. u.pc \notin {"idle", "lookup"} => rec'[u.in].name = u.name
      <4>1. ASSUME u.pc \notin {"idle", "lookup"} PROVE rec'[u.in].name = u.name
        <5>1. u.in \in Records /\ u.in <= made /\ rec[u.in].name = u.name
          BY <2>2, <4>1 DEF ThreadOK, ThreadSet
        <5>2. CASE u.in = r
          BY <1>3, <1>5, <1>6, <1>7, <1>8, <5>1, <5>2, PoolNumbers DEF PoolShape, MapOK
        <5>3. CASE u.in # r
          BY <1>8, <5>1, <5>3 DEF Only
        <5> QED BY <5>2, <5>3
      <4> QED BY <4>1
    <3> QED BY <2>2, <3>1, <3>2 DEF ThreadOK
  <2> QED BY <1>13, <2>1, <2>2, ThreadMoves
<1>15. th'[t] = o /\ \A u \in Threads \ {t} : th'[u] = th[u]
  BY <1>13 DEF PoolShape, ThreadsOK
<1>16. PoolShape'
  BY <1>9, <1>10, <1>11, <1>12, <1>14 DEF PoolShape
<1>17. /\ l \in {"evict", "lock"}
       /\ l = "evict" => rec[r].pid = None /\ Cardinality(Live) >= MaxInstances
  BY <1>4
<1>18. \/ r = map[a] /\ ~rec[r].detached /\ rec' = rec /\ made' = made
       \/ /\ r = made + 1 /\ rec[r].pid = None /\ made' = r
          /\ map[a] = None \/ rec[map[a]].detached
          /\ rec'[r] = NewRecord(a)
  BY <1>3, <1>5, <1>8
<1> QED BY <1>5, <1>6, <1>7, <1>8, <1>13, <1>15, <1>16, <1>17, <1>18

\* One record changes, under its name, and no process comes to it: the same in one
\* piece.
LEMMA RecordStep ==
    ASSUME PoolShape, NEW r \in Records, NEW q \in RecordSet, q.name = rec[r].name,
           q.pid \in {rec[r].pid, None},
           rec' = [rec EXCEPT ![r] = q], UNCHANGED made
    PROVE  /\ RecordsOK' /\ Only(r) /\ rec'[r] = q
           /\ \A s \in Records : rec'[s].pid \in {rec[s].pid, None} /\ rec'[s].name = rec[s].name
           /\ UNCHANGED map => MapOK'
           /\ UNCHANGED <<proc, portFile, faults>> => ProcsOK'
           /\ UNCHANGED th => ThreadsOK'
           /\ UNCHANGED <<reaper, main>> => OthersOK'
           /\ \A o \in ThreadSet : ThreadOK(o) => ThreadOK(o)'
BY RecordChanges, NamesStay DEF Only

\* Accounts lose their records.
LEMMA MapShrinks ==
    ASSUME PoolShape, UNCHANGED made, \A s \in Records : rec'[s].name = rec[s].name,
           map' \in [Accounts -> Records \cup {None}],
           \A a \in Accounts : map'[a] \in {map[a], None}
    PROVE  MapOK'
BY PoolNumbers DEF PoolShape, MapOK

\* A record is detached or taken back, and locked or unlocked.
LEMMA MarkRecord ==
    ASSUME NEW o \in RecordSet, NEW b \in BOOLEAN
    PROVE  \E q \in RecordSet :
             /\ q = [o EXCEPT !.detached = b] /\ q.detached = b
             /\ q.name = o.name /\ q.pid = o.pid /\ q.mu = o.mu /\ q.inflight = o.inflight
<1>1. PICK q : q = [o EXCEPT !.detached = b]
  OBVIOUS
<1>2. q \in RecordSet /\ q.detached = b
      /\ q.name = o.name /\ q.pid = o.pid /\ q.mu = o.mu /\ q.inflight = o.inflight
  BY <1>1 DEF RecordSet
<1> QED BY <1>1, <1>2

\* Taking or leaving a record's mutex changes nothing else of it.
LEMMA LockRecord ==
    ASSUME NEW o \in RecordSet, NEW b \in BOOLEAN
    PROVE  \E q \in RecordSet :
             /\ q = [o EXCEPT !.mu = b] /\ q.mu = b
             /\ q.name = o.name /\ q.pid = o.pid /\ q.detached = o.detached
             /\ q.inflight = o.inflight
<1>1. PICK q : q = [o EXCEPT !.mu = b]
  OBVIOUS
<1>2. q \in RecordSet /\ q.mu = b
      /\ q.name = o.name /\ q.pid = o.pid /\ q.detached = o.detached
      /\ q.inflight = o.inflight
  BY <1>1 DEF RecordSet
<1> QED BY <1>1, <1>2

\* Request: a thread gets an account to serve.
LEMMA RequestFacts ==
    ASSUME PoolShape, NEW t \in Threads, NEW a \in Accounts, Request(t, a)
    PROVE  /\ PoolShape' /\ UNCHANGED <<map, rec, made, proc, reaper, main>>
           /\ main.pc = "running"
           /\ th[t].pc = "idle" /\ th'[t].pc = "lookup"
           /\ th'[t].in = th[t].in /\ th'[t].victim = th[t].victim
           /\ \A u \in Threads \ {t} : th'[u] = th[u]
<1>1. th[t] \in ThreadSet /\ ThreadOK(th[t]) /\ th[t].pc = "idle"
  BY ThreadFacts DEF Request, At
<1>2. PICK o : o = [th[t] EXCEPT !.pc = "lookup", !.name = a, !.requests = th[t].requests + 1]
  OBVIOUS
<1>3. th[t].requests + 1 \in 0..MaxRequests
  <2>1. th[t].requests \in Nat /\ th[t].requests < MaxRequests /\ MaxRequests \in Nat
    BY <1>1, PoolAssumption DEF ThreadSet, Request
  <2> QED BY <2>1
<1>4. o \in ThreadSet /\ o.pc = "lookup" /\ o.name = a /\ o.in = th[t].in
      /\ o.victim = th[t].victim
  BY <1>1, <1>2, <1>3 DEF ThreadSet, ThreadPcs
<1>5. th' = [th EXCEPT ![t] = o]
  BY <1>2 DEF Request, PoolShape, ThreadsOK, ThreadSet
<1>6. UNCHANGED <<map, rec, made, proc, portFile, reaper, main, faults>>
  BY DEF Request
<1>7. ThreadsOK'
  BY <1>1, <1>4, <1>5, <1>6 DEF PoolShape, ThreadsOK, ThreadOK
<1>8. PoolShape'
  BY <1>6, <1>7 DEF PoolShape, RecordsOK, MapOK, ProcsOK, OthersOK
<1>9. th'[t] = o /\ \A u \in Threads \ {t} : th'[u] = th[u]
  BY <1>5 DEF PoolShape, ThreadsOK
<1> QED BY <1>1, <1>4, <1>6, <1>8, <1>9 DEF Request

\* Steps that only move the thread.
LEMMA OnlyMoves ==
    ASSUME PoolShape, NEW t \in Threads, NEW l \in ThreadPcs, Move(t, l),
           UNCHANGED <<map, rec, made, proc, portFile, reaper, main, faults>>,
           th[t].pc \notin {"idle", "lookup"} \/ l = "idle",
           l = "retired" => th[t].pc = "retire", l # "retire"
    PROVE  PoolShape' /\ Goes(t, l)
<1>1. \A u \in ThreadSet : ThreadOK(u) => ThreadOK(u)'
  BY DEF ThreadOK
<1>2. ThreadsOK' /\ Goes(t, l)
  BY <1>1, PcMoves DEF Goes
<1> QED BY <1>2 DEF PoolShape, RecordsOK, MapOK, ProcsOK, OthersOK

\* NoVictim: nothing is idle, the pool grows beyond its cap.
LEMMA NoVictimFacts ==
    ASSUME PoolShape, NEW t \in Threads, NoVictim(t)
    PROVE  PoolShape' /\ Goes(t, "lock") /\ th[t].pc = "evict"
           /\ UNCHANGED <<map, rec, made, proc, reaper, main>>
BY OnlyMoves DEF NoVictim, At, ThreadPcs

\* DetachVictim: the victim leaves the map.
LEMMA DetachFacts ==
    ASSUME PoolShape, NEW t \in Threads, DetachVictim(t)
    PROVE  /\ PoolShape' /\ UNCHANGED <<made, proc, reaper, main>> /\ th[t].pc = "evict"
           /\ \A s \in Records : rec'[s].pid = rec[s].pid /\ rec'[s].mu = rec[s].mu
           /\ th'[t].pc = "retire" /\ th'[t].in = th[t].in
           /\ \A u \in Threads \ {t} : th'[u] = th[u]
<1>1. PICK v \in Mapped :
        /\ rec' = [rec EXCEPT ![v].detached = TRUE]
        /\ map' = [map EXCEPT ![rec[v].name] = None]
        /\ th' = [th EXCEPT ![t].pc = "retire", ![t].victim = v]
  BY DEF DetachVictim
<1>2. /\ UNCHANGED <<made, proc, portFile, reaper, main, faults>> /\ th[t].pc = "evict"
      /\ th[t] \in ThreadSet /\ ThreadOK(th[t])
  BY ThreadFacts DEF DetachVictim, At
<1>3. v \in Records /\ v <= made
  BY <1>1, PoolNumbers DEF PoolShape, MapOK, Mapped
<1>4. PICK q \in RecordSet : /\ q = [rec[v] EXCEPT !.detached = TRUE]
                             /\ q.name = rec[v].name /\ q.pid = rec[v].pid /\ q.mu = rec[v].mu
  <2>1. rec[v] \in RecordSet
    BY <1>3 DEF PoolShape, RecordsOK
  <2> QED BY <2>1, MarkRecord
<1>5. rec' = [rec EXCEPT ![v] = q]
  BY <1>1, <1>3, <1>4 DEF PoolShape, RecordsOK, RecordSet
<1>6. /\ RecordsOK' /\ Only(v) /\ rec'[v] = q /\ ProcsOK' /\ OthersOK'
      /\ \A s \in Records : rec'[s].name = rec[s].name
      /\ \A o \in ThreadSet : ThreadOK(o) => ThreadOK(o)'
  BY <1>2, <1>3, <1>4, <1>5, RecordStep
<1>7. MapOK'
  <2>1. map' \in [Accounts -> Records \cup {None}] /\ \A a \in Accounts : map'[a] \in {map[a], None}
    BY <1>1 DEF PoolShape, MapOK
  <2> QED BY <1>2, <1>6, <2>1, MapShrinks
<1>8. PICK o \in ThreadSet : /\ o = [th[t] EXCEPT !.pc = "retire", !.victim = v]
                             /\ o.pc = "retire" /\ o.victim = v /\ o.in = th[t].in
                             /\ o.name = th[t].name
  <2>1. PICK o : o = [th[t] EXCEPT !.pc = "retire", !.victim = v]
    OBVIOUS
  <2>2. o \in ThreadSet /\ o.pc = "retire" /\ o.victim = v /\ o.in = th[t].in
        /\ o.name = th[t].name
    BY <1>2, <1>3, <2>1 DEF ThreadSet, ThreadPcs
  <2> QED BY <2>1, <2>2
<1>9. th' = [th EXCEPT ![t] = o]
  BY <1>1, <1>8 DEF PoolShape, ThreadsOK, ThreadSet
<1>10. ThreadOK(o)'
  <2>1. PICK x \in ThreadSet : x = th[t]
    BY <1>2
  <2>2. ThreadOK(x)'
    BY <1>2, <1>6, <2>1
  <2> QED BY <1>2, <1>3, <1>8, <2>1, <2>2, PoolNumbers DEF ThreadOK
<1>11. ThreadsOK'
  BY <1>6, <1>8, <1>9, <1>10, ThreadMoves
<1>12. th'[t] = o /\ \A u \in Threads \ {t} : th'[u] = th[u]
  BY <1>9 DEF PoolShape, ThreadsOK
<1> QED BY <1>2, <1>4, <1>6, <1>7, <1>8, <1>11, <1>12 DEF PoolShape, Only

\* SpareVictim: the victim is in use after all.
LEMMA SpareFacts ==
    ASSUME PoolShape, NEW t \in Threads, SpareVictim(t)
    PROVE  /\ PoolShape' /\ UNCHANGED <<made, proc, reaper, main>> /\ th[t].pc = "retire"
           /\ \A s \in Records : rec'[s].pid = rec[s].pid /\ rec'[s].mu = rec[s].mu
           /\ Goes(t, "lock")
<1>1. PICK v \in Records : v = th[t].victim /\ v <= made /\ rec[v].name \in Accounts
                           /\ rec[v] \in RecordSet
  BY ThreadFacts DEF SpareVictim, At
<1>2. /\ UNCHANGED <<made, proc, portFile, reaper, main, faults>> /\ th[t].pc = "retire"
      /\ Move(t, "lock")
  BY DEF SpareVictim, At
<1>3. CASE UNCHANGED <<map, rec>>
  BY <1>2, <1>3, OnlyMoves DEF ThreadPcs
<1>4. CASE /\ map' = [map EXCEPT ![rec[v].name] = v]
           /\ rec' = [rec EXCEPT ![v].detached = FALSE]
  <2>1. PICK q \in RecordSet : /\ q = [rec[v] EXCEPT !.detached = FALSE]
                               /\ q.name = rec[v].name /\ q.pid = rec[v].pid /\ q.mu = rec[v].mu
    BY <1>1, MarkRecord
  <2>2. rec' = [rec EXCEPT ![v] = q]
    BY <1>1, <1>4, <2>1 DEF PoolShape, RecordsOK, RecordSet
  <2>3. /\ RecordsOK' /\ Only(v) /\ rec'[v] = q /\ ProcsOK' /\ OthersOK'
        /\ \A s \in Records : rec'[s].name = rec[s].name
        /\ \A o \in ThreadSet : ThreadOK(o) => ThreadOK(o)'
    BY <1>2, <2>1, <2>2, RecordStep
  <2>4. MapOK'
    BY <1>1, <1>2, <1>4, <2>3, PoolNumbers DEF PoolShape, MapOK
  <2>5. ThreadsOK' /\ Goes(t, "lock")
    BY <1>2, <2>3, PcMoves DEF ThreadPcs, Goes
  <2> QED BY <1>2, <2>1, <2>3, <2>4, <2>5 DEF PoolShape, Only
<1> QED BY <1>1, <1>3, <1>4 DEF SpareVictim

\* RetireVictim: its backend is stopped under its mutex.
LEMMA RetireFacts ==
    ASSUME PoolShape, NEW t \in Threads, RetireVictim(t)
    PROVE  /\ PoolShape' /\ UNCHANGED <<map, made, reaper, main>> /\ th[t].pc = "retire"
           /\ Goes(t, "retired")
           /\ \E v \in Records :
                /\ v = th[t].victim /\ ~rec[v].mu /\ rec'[v].mu /\ rec'[v].pid = rec[v].pid
                /\ rec'[v].detached = rec[v].detached
                /\ Only(v) /\ proc' = Killed(rec[v].pid)
<1>1. PICK v \in Records : v = th[t].victim /\ v <= made /\ rec[v].name \in Accounts
                           /\ rec[v] \in RecordSet
  BY ThreadFacts DEF RetireVictim, At
<1>2. /\ UNCHANGED <<map, made, portFile, reaper, main, faults>> /\ th[t].pc = "retire"
      /\ Move(t, "retired") /\ ~rec[v].mu /\ proc' = Killed(rec[v].pid)
      /\ rec' = [rec EXCEPT ![v].mu = TRUE]
  BY <1>1 DEF RetireVictim, At, Locks
<1>3. PICK q \in RecordSet : /\ q = [rec[v] EXCEPT !.mu = TRUE]
                             /\ q.name = rec[v].name /\ q.pid = rec[v].pid /\ q.mu
                             /\ q.detached = rec[v].detached
  BY <1>1, LockRecord
<1>4. rec' = [rec EXCEPT ![v] = q]
  BY <1>1, <1>2, <1>3 DEF PoolShape, RecordsOK, RecordSet
<1>5. /\ RecordsOK' /\ Only(v) /\ rec'[v] = q /\ MapOK' /\ OthersOK'
      /\ \A s \in Records : rec'[s].pid \in {rec[s].pid, None}
      /\ \A o \in ThreadSet : ThreadOK(o) => ThreadOK(o)'
  BY <1>2, <1>3, <1>4, RecordStep
<1>6. ProcsOK'
  <2>1. rec[v].pid \in Procs \cup {None}
    BY <1>1 DEF RecordSet
  <2>2. rec[v].pid # None => proc[rec[v].pid].state # "none"
    BY DEF PoolShape, ProcsOK
  <2>3. PICK p \in Procs \cup {None} : p = rec[v].pid
    BY <2>1
  <2>4. /\ proc' \in [Procs -> ProcSet]
        /\ \A x \in Procs : proc'[x].state # "none" <=> proc[x].state # "none"
    BY <1>2, <2>2, <2>3, KilledProcs
  <2> QED BY <1>2, <1>5, <2>4, ProcChanges DEF PoolShape, ProcsOK
<1>7. ThreadsOK' /\ Goes(t, "retired")
  BY <1>2, <1>5, PcMoves DEF ThreadPcs, Goes
<1> QED BY <1>1, <1>2, <1>3, <1>5, <1>6, <1>7 DEF PoolShape

\* The backend of a record is killed.
LEMMA KillKeepsProcs ==
    ASSUME PoolShape, NEW r \in Records, proc' = Killed(rec[r].pid), UNCHANGED portFile,
           faults' \in 0..MaxFaults,
           \A s \in Records : rec'[s].pid \in {rec[s].pid, None}
    PROVE  ProcsOK'
<1>1. PICK p \in Procs \cup {None} : p = rec[r].pid
  BY DEF PoolShape, RecordsOK, RecordSet
<1>2. p # None => proc[p].state # "none"
  BY <1>1 DEF PoolShape, ProcsOK
<1>3. /\ proc' \in [Procs -> ProcSet]
      /\ \A x \in Procs : proc'[x].state # "none" <=> proc[x].state # "none"
  BY <1>1, <1>2, KilledProcs
<1> QED BY <1>3, ProcChanges DEF PoolShape, ProcsOK

\* Lock: the record's mutex is taken, a detached record sends the thread back.
LEMMA LockFacts ==
    ASSUME PoolShape, NEW t \in Threads, Lock(t)
    PROVE  /\ PoolShape' /\ UNCHANGED <<map, made, proc, reaper, main>> /\ th[t].pc = "lock"
           /\ \E r \in Records :
                /\ r = th[t].in /\ ~rec[r].mu
                /\ \/ rec[r].detached /\ UNCHANGED rec /\ Goes(t, "lookup")
                   \/ /\ ~rec[r].detached /\ Only(r) /\ rec'[r].mu /\ rec'[r].pid = rec[r].pid
                      /\ rec'[r].detached = rec[r].detached /\ rec'[r].name = rec[r].name
                      /\ \/ Goes(t, "check")
                         \/ Goes(t, "start") /\ rec[r].pid = None
<1>1. PICK r \in Records : r = th[t].in /\ rec[r] \in RecordSet
  BY ThreadFacts DEF Lock, At
<1>2. /\ UNCHANGED <<map, made, proc, portFile, reaper, main, faults>> /\ th[t].pc = "lock"
      /\ ~rec[r].mu
  BY <1>1 DEF Lock, At, Locks
<1>3. CASE rec[r].detached
  BY <1>1, <1>2, <1>3, OnlyMoves DEF Lock, ThreadPcs
<1>4. CASE ~rec[r].detached
  <2>1. PICK l \in {"check", "start"} : Move(t, l) /\ (l = "start" => rec[r].pid = None)
    BY <1>1, <1>4 DEF Lock
  <2>2. PICK q \in RecordSet : /\ q = [rec[r] EXCEPT !.mu = TRUE]
                               /\ q.name = rec[r].name /\ q.pid = rec[r].pid /\ q.mu
                               /\ q.detached = rec[r].detached
    BY <1>1, LockRecord
  <2>3. rec' = [rec EXCEPT ![r] = q]
    BY <1>1, <1>4, <2>2 DEF Lock, PoolShape, RecordsOK, RecordSet
  <2>4. /\ RecordsOK' /\ Only(r) /\ rec'[r] = q /\ MapOK' /\ ProcsOK' /\ OthersOK'
        /\ \A o \in ThreadSet : ThreadOK(o) => ThreadOK(o)'
    BY <1>2, <2>2, <2>3, RecordStep
  <2>5. ThreadsOK' /\ Goes(t, l)
    BY <1>2, <2>1, <2>4, PcMoves DEF ThreadPcs, Goes
  <2> QED BY <1>1, <1>2, <1>4, <2>1, <2>2, <2>4, <2>5 DEF PoolShape
<1> QED BY <1>3, <1>4

\* Reuse, Started: the request is served by the record.
LEMMA ServeFacts ==
    ASSUME PoolShape, NEW t \in Threads, Reuse(t) \/ Started(t)
    PROVE  /\ PoolShape' /\ UNCHANGED <<map, made, proc, reaper, main>>
           /\ th[t].pc \in {"check", "wait ping"} /\ Goes(t, "serving")
           /\ \E r \in Records : /\ r = th[t].in /\ Only(r) /\ rec'[r].pid = rec[r].pid
                                 /\ rec'[r].detached = rec[r].detached /\ ~rec'[r].mu
                                 /\ rec'[r].name = rec[r].name
<1>1. th[t].pc \in {"check", "wait ping"} /\ HandOut(t) /\ UNCHANGED faults
  BY DEF Reuse, Started, At
<1>2. UNCHANGED <<map, made, proc, reaper, main>>
  BY <1>1 DEF HandOut
<1> QED BY <1>1, <1>2, HandOutFacts DEF Goes, Only

\* Recycle, StartFails: a backend that does not answer is killed.
LEMMA KillFacts ==
    ASSUME PoolShape, NEW t \in Threads, Recycle(t) \/ StartFails(t)
    PROVE  /\ PoolShape' /\ UNCHANGED <<map, rec, made, reaper, main>>
           /\ \/ th[t].pc = "check" /\ Goes(t, "recycled")
              \/ th[t].pc \in {"wait port", "wait ping"} /\ Goes(t, "start failed")
           /\ \E r \in Records : r = th[t].in /\ proc' = Killed(rec[r].pid)
<1>0. th[t].pc \in {"check", "wait port", "wait ping"}
  BY DEF Recycle, StartFails, At
<1>1. PICK r \in Records : r = th[t].in
  BY <1>0, ThreadFacts
<1>2. /\ UNCHANGED <<map, rec, made, portFile, reaper, main>> /\ proc' = Killed(rec[r].pid)
      /\ \/ th[t].pc = "check" /\ Move(t, "recycled")
         \/ th[t].pc \in {"wait port", "wait ping"} /\ Move(t, "start failed")
  BY <1>1 DEF Recycle, StartFails, At
<1>3. faults' \in 0..MaxFaults
  <2>1. faults \in 0..MaxFaults /\ MaxFaults \in Nat
        /\ (faults' = faults \/ (faults < MaxFaults /\ faults' = faults + 1))
    BY PoolAssumption DEF Recycle, StartFails, PoolShape, ProcsOK
  <2> QED BY <2>1
<1>4. ProcsOK'
  BY <1>2, <1>3, KillKeepsProcs
<1>5. \A u \in ThreadSet : ThreadOK(u) => ThreadOK(u)'
  BY <1>2 DEF ThreadOK
<1>6. PICK l \in {"recycled", "start failed"} :
        /\ Move(t, l)
        /\ \/ th[t].pc = "check" /\ l = "recycled"
           \/ th[t].pc \in {"wait port", "wait ping"} /\ l = "start failed"
  BY <1>2
<1>7. ThreadsOK' /\ Goes(t, l)
  BY <1>0, <1>5, <1>6, PcMoves DEF Goes, ThreadPcs
<1> QED BY <1>1, <1>2, <1>4, <1>6, <1>7 DEF PoolShape, RecordsOK, MapOK, OthersOK

\* VictimGone, Recycled, Refused: a killed backend is forgotten and the mutex
\* freed.
LEMMA StopFacts ==
    ASSUME PoolShape, NEW t \in Threads, VictimGone(t) \/ Recycled(t) \/ Refused(t)
    PROVE  /\ PoolShape' /\ UNCHANGED <<map, made, proc, reaper, main>>
           /\ \E r \in Records :
                /\ \/ th[t].pc = "retired" /\ r = th[t].victim /\ Goes(t, "lock")
                   \/ th[t].pc = "recycled" /\ r = th[t].in /\ Goes(t, "lookup")
                   \/ th[t].pc = "start failed" /\ r = th[t].in /\ Goes(t, "idle")
                /\ Only(r) /\ rec'[r].pid = None /\ rec'[r].detached = rec[r].detached
                /\ ~rec'[r].mu /\ rec'[r].name = rec[r].name
<1>1. /\ th[t].pc \in {"retired", "recycled", "start failed"}
      /\ UNCHANGED <<map, made, proc, reaper, main, faults>>
  BY DEF VictimGone, Recycled, Refused, At
<1>2. PICK r \in Records :
        /\ \/ th[t].pc = "retired" /\ r = th[t].victim /\ Move(t, "lock")
           \/ th[t].pc = "recycled" /\ r = th[t].in /\ Move(t, "lookup")
           \/ th[t].pc = "start failed" /\ r = th[t].in /\ Move(t, "idle")
        /\ Forget(r)
  BY <1>1, ThreadFacts DEF VictimGone, Recycled, Refused, At
<1>3. /\ RecordsOK' /\ ProcsOK' /\ rec'[r].pid = None /\ ~rec'[r].mu
      /\ rec'[r].detached = rec[r].detached
      /\ Only(r)
      /\ \A s \in Records : rec'[s].name = rec[s].name /\ rec'[s].pid \in {rec[s].pid, None}
  BY <1>1, <1>2, ForgetFacts DEF Only
<1>4. MapOK' /\ OthersOK' /\ \A o \in ThreadSet : ThreadOK(o) => ThreadOK(o)'
  BY <1>1, <1>3, NamesStay
<1>5. PICK l \in {"lock", "lookup", "idle"} :
        /\ Move(t, l)
        /\ \/ th[t].pc = "retired" /\ r = th[t].victim /\ l = "lock"
           \/ th[t].pc = "recycled" /\ r = th[t].in /\ l = "lookup"
           \/ th[t].pc = "start failed" /\ r = th[t].in /\ l = "idle"
  BY <1>2
<1>6. ThreadsOK' /\ Goes(t, l)
  BY <1>1, <1>4, <1>5, PcMoves DEF Goes, ThreadPcs
<1> QED BY <1>1, <1>3, <1>4, <1>5, <1>6 DEF PoolShape

\* The process after the k forked ones.
LEMMA NextProc ==
    ASSUME NEW k \in Nat, NEW p, p = k + 1, p <= MaxForks
    PROVE  p \in Procs /\ ~(p <= k)
BY PoolNumbers

\* Fork: the new process is the pid of the record at once.
LEMMA ForkFacts ==
    ASSUME PoolShape, NEW t \in Threads, Fork(t)
    PROVE  /\ PoolShape' /\ UNCHANGED <<map, made, reaper, main>>
           /\ th[t].pc = "start" /\ Goes(t, "wait port")
           /\ \E r \in Records, p \in Procs :
                /\ r = th[t].in /\ Only(r) /\ rec'[r].pid = p
                /\ rec'[r].detached = rec[r].detached /\ rec'[r].mu = rec[r].mu
                /\ rec'[r].name = rec[r].name
                /\ proc[p].state = "none" /\ proc'[p].state = "booting"
                /\ \A x \in Procs \ {p} : proc'[x] = proc[x]
<1>0. /\ th[t].pc = "start" /\ th[t].in \in Records /\ th[t].in <= made
      /\ th[t].name \in Accounts /\ rec[th[t].in].name = th[t].name
      /\ rec[th[t].in] \in RecordSet
  <2>1. th[t].pc = "start"
    BY DEF Fork, At
  <2> QED BY <2>1, ThreadFacts
<1>1. PICK r \in Records : r = th[t].in /\ r <= made /\ rec[r] \in RecordSet
                           /\ rec[r].name \in Accounts
  BY <1>0
<1>2. PICK k \in Nat : k <= MaxForks /\ \A p \in Procs : proc[p].state # "none" <=> p <= k
  BY DEF PoolShape, ProcsOK
<1>3. Forked = 1..k
  <2>1. Forked = {p \in Procs : p <= k}
    BY <1>2 DEF Forked
  <2> QED BY <1>2, <2>1, PoolNumbers
<1>4. Cardinality(Forked) = k
  BY <1>2, <1>3, FS_Interval
<1>5. PICK p : p = k + 1
  OBVIOUS
<1>6. /\ p <= MaxForks
      /\ proc' = [proc EXCEPT ![p] = [name |-> rec[r].name, state |-> "booting"]]
      /\ rec' = [rec EXCEPT ![r].pid = p] /\ Move(t, "wait port")
      /\ portFile' = [portFile EXCEPT ![rec[r].name] = None]
      /\ UNCHANGED <<map, made, reaper, main, faults>> /\ th[t].pc = "start"
  BY <1>1, <1>4, <1>5 DEF Fork, At
<1>7. p \in Procs /\ proc[p].state = "none"
  <2>1. p \in Procs /\ ~(p <= k)
    BY <1>2, <1>5, <1>6, NextProc
  <2> QED BY <1>2, <2>1
<1>8. PICK q : q = [rec[r] EXCEPT !.pid = p]
  OBVIOUS
<1>9. q \in RecordSet /\ q.name = rec[r].name /\ q.pid = p /\ q.mu = rec[r].mu
      /\ q.detached = rec[r].detached
  BY <1>1, <1>7, <1>8 DEF RecordSet
<1>10. rec' = [rec EXCEPT ![r] = q]
  BY <1>6, <1>8 DEF PoolShape, RecordsOK, RecordSet
<1>11. rec'[r] = q /\ Only(r) /\ \A s \in Records : rec'[s].name = rec[s].name
  BY <1>9, <1>10 DEF PoolShape, RecordsOK, Only
<1>12. RecordsOK'
  BY <1>1, <1>6, <1>9, <1>10, <1>11 DEF PoolShape, RecordsOK, Only
<1>13. MapOK' /\ OthersOK' /\ \A o \in ThreadSet : ThreadOK(o) => ThreadOK(o)'
  <2>1. MapOK'
    BY <1>6, <1>11, PoolNumbers DEF PoolShape, MapOK
  <2>2. OthersOK'
    BY <1>6 DEF PoolShape, OthersOK
  <2>3. \A o \in ThreadSet : ThreadOK(o) => ThreadOK(o)'
    BY <1>6, <1>11 DEF ThreadOK, ThreadSet
  <2> QED BY <2>1, <2>2, <2>3
<1>14. ThreadsOK' /\ Goes(t, "wait port")
  BY <1>6, <1>13, PcMoves DEF Goes, ThreadPcs
<1>15. PICK z \in ProcSet : z = [name |-> rec[r].name, state |-> "booting"] /\ z.state = "booting"
  <2>1. [name |-> rec[r].name, state |-> "booting"] \in ProcSet
    BY <1>1 DEF ProcSet
  <2> QED BY <2>1
<1>16. /\ proc' \in [Procs -> ProcSet] /\ proc'[p] = z
       /\ \A x \in Procs \ {p} : proc'[x] = proc[x]
  BY <1>6, <1>7, <1>15 DEF PoolShape, ProcsOK
<1>17. ProcsOK'
  <2>1. p \in Nat /\ \A x \in Procs : proc'[x].state # "none" <=> x <= p
    <3>1. ASSUME NEW x \in Procs \ {p} PROVE x <= p <=> x <= k
      BY <1>2, <1>5, PoolNumbers
    <3>2. p \in Nat /\ p <= p
      BY <1>2, <1>5
    <3> QED BY <1>2, <1>15, <1>16, <3>1, <3>2
  <2>2. \A s \in Records : rec'[s].pid # None => proc'[rec'[s].pid].state # "none"
    <3> TAKE s \in Records
    <3>1. CASE s = r
      BY <1>9, <1>11, <1>15, <1>16, <3>1
    <3>2. CASE s # r
      <4>1. rec'[s].pid = rec[s].pid /\ rec[s].pid \in Procs \cup {None}
        BY <1>11, <3>2 DEF Only, PoolShape, RecordsOK, RecordSet
      <4>2. rec[s].pid # None => proc[rec[s].pid].state # "none"
        BY DEF PoolShape, ProcsOK
      <4> QED BY <1>15, <1>16, <4>1, <4>2
    <3> QED BY <3>1, <3>2
  <2>3. portFile' \in [Accounts -> Procs \cup {None}] /\ faults' \in 0..MaxFaults
    BY <1>6 DEF PoolShape, ProcsOK
  <2> QED BY <1>6, <1>16, <2>1, <2>2, <2>3 DEF ProcsOK
<1> QED BY <1>1, <1>6, <1>7, <1>9, <1>11, <1>12, <1>13, <1>14, <1>15, <1>16, <1>17
        DEF PoolShape

\* ReadPort: only the port is set.
LEMMA ReadPortFacts ==
    ASSUME PoolShape, NEW t \in Threads, ReadPort(t)
    PROVE  /\ PoolShape' /\ UNCHANGED <<map, made, proc, reaper, main>>
           /\ th[t].pc = "wait port" /\ Goes(t, "wait ping")
           /\ \E r \in Records : /\ r = th[t].in /\ Only(r) /\ rec'[r].pid = rec[r].pid
                                 /\ rec'[r].detached = rec[r].detached
                                 /\ rec'[r].mu = rec[r].mu /\ rec'[r].name = rec[r].name
<1>0. th[t].pc = "wait port"
  BY DEF ReadPort, At
<1>1. th[t].in \in Records /\ rec[th[t].in] \in RecordSet /\ rec[th[t].in].name \in Accounts
  BY <1>0, ThreadFacts
<1>2. PICK r \in Records : r = th[t].in /\ rec[r] \in RecordSet /\ rec[r].name \in Accounts
  BY <1>1
<1>3. PICK w \in Procs \cup {None} : w = portFile[rec[r].name]
  BY <1>2 DEF PoolShape, ProcsOK
<1>4. PICK q : q = [rec[r] EXCEPT !.port = w]
  OBVIOUS
<1>5. q \in RecordSet /\ q.name = rec[r].name /\ q.pid = rec[r].pid /\ q.mu = rec[r].mu
      /\ q.detached = rec[r].detached
  BY <1>2, <1>4 DEF RecordSet
<1>6. /\ rec' = [rec EXCEPT ![r] = q] /\ Move(t, "wait ping")
      /\ UNCHANGED <<map, made, proc, portFile, reaper, main, faults>>
  BY <1>2, <1>3, <1>4 DEF ReadPort, PoolShape, RecordsOK, RecordSet
<1>7. /\ RecordsOK' /\ Only(r) /\ rec'[r] = q /\ MapOK' /\ ProcsOK' /\ OthersOK'
      /\ \A o \in ThreadSet : ThreadOK(o) => ThreadOK(o)'
  BY <1>5, <1>6, RecordStep
<1>8. ThreadsOK' /\ Goes(t, "wait ping")
  BY <1>0, <1>6, <1>7, PcMoves DEF ThreadPcs, Goes
<1> QED BY <1>0, <1>2, <1>5, <1>6, <1>7, <1>8 DEF PoolShape

\* Answered: release looks the account up again.
LEMMA AnsweredFacts ==
    ASSUME PoolShape, NEW t \in Threads, Answered(t)
    PROVE  /\ PoolShape' /\ UNCHANGED <<map, rec, made, proc, reaper, main>>
           /\ th[t].pc = "serving" /\ th'[t].pc \in {"idle", "unref"}
           /\ th'[t].in = map[th[t].name]
           /\ th'[t].victim = th[t].victim /\ th'[t].name = th[t].name
           /\ \A u \in Threads \ {t} : th'[u] = th[u]
<1>1. /\ th[t].pc = "serving" /\ th[t] \in ThreadSet /\ ThreadOK(th[t])
      /\ th[t].name \in Accounts
  BY ThreadFacts DEF Answered, At
<1>2. PICK r \in Records \cup {None} :
        /\ r = map[th[t].name] /\ r <= made /\ (r # None => rec[r].name = th[t].name)
  BY <1>1, PoolNumbers DEF PoolShape, MapOK, RecordsOK
<1>3. PICK l \in {"idle", "unref"} : l = IF r = None THEN "idle" ELSE "unref"
  OBVIOUS
<1>4. PICK o : o = [th[t] EXCEPT !.in = r, !.pc = l]
  OBVIOUS
<1>5. o \in ThreadSet /\ o.pc = l /\ o.in = r /\ o.name = th[t].name
      /\ o.victim = th[t].victim
  BY <1>1, <1>4 DEF ThreadSet, ThreadPcs
<1>6. /\ th' = [th EXCEPT ![t] = o]
      /\ UNCHANGED <<map, rec, made, proc, portFile, reaper, main, faults>>
  BY <1>2, <1>3, <1>4 DEF Answered, PoolShape, ThreadsOK, ThreadSet
<1>7. ThreadOK(o)
  BY <1>1, <1>2, <1>3, <1>5 DEF ThreadOK
<1>8. ThreadsOK' /\ th'[t] = o /\ \A u \in Threads \ {t} : th'[u] = th[u]
  BY <1>5, <1>6, <1>7 DEF PoolShape, ThreadsOK, ThreadOK
<1>9. PoolShape'
  BY <1>6, <1>8 DEF PoolShape, RecordsOK, MapOK, ProcsOK, OthersOK
<1> QED BY <1>1, <1>2, <1>5, <1>6, <1>8, <1>9

\* Unref: the count of that record goes down.
LEMMA UnrefFacts ==
    ASSUME PoolShape, NEW t \in Threads, Unref(t)
    PROVE  /\ PoolShape' /\ UNCHANGED <<map, made, proc, reaper, main>>
           /\ th[t].pc = "unref" /\ Goes(t, "idle")
           /\ \E r \in Records : /\ r = th[t].in /\ Only(r) /\ rec'[r].pid = rec[r].pid
                                 /\ rec'[r].detached = rec[r].detached
                                 /\ rec'[r].mu = rec[r].mu /\ rec'[r].name = rec[r].name
<1>0. th[t].pc = "unref"
  BY DEF Unref, At
<1>1. PICK r \in Records : r = th[t].in /\ rec[r] \in RecordSet
  BY <1>0, ThreadFacts
<1>2. rec[r].inflight \in Int
  BY <1>1 DEF RecordSet
<1>3. PICK i \in Int : i = IF rec[r].inflight < 0 THEN 0 ELSE rec[r].inflight - 1
  BY <1>2, OneMore
<1>4. PICK q : q = [rec[r] EXCEPT !.inflight = i]
  OBVIOUS
<1>5. q \in RecordSet /\ q.name = rec[r].name /\ q.pid = rec[r].pid /\ q.mu = rec[r].mu
      /\ q.detached = rec[r].detached
  BY <1>1, <1>4 DEF RecordSet
<1>6. /\ rec' = [rec EXCEPT ![r] = q] /\ Move(t, "idle")
      /\ UNCHANGED <<map, made, proc, portFile, reaper, main, faults>>
  BY <1>1, <1>3, <1>4 DEF Unref, PoolShape, RecordsOK, RecordSet
<1>7. /\ RecordsOK' /\ Only(r) /\ rec'[r] = q /\ MapOK' /\ ProcsOK' /\ OthersOK'
      /\ \A o \in ThreadSet : ThreadOK(o) => ThreadOK(o)'
  BY <1>5, <1>6, RecordStep
<1>8. ThreadsOK' /\ Goes(t, "idle")
  BY <1>0, <1>6, <1>7, PcMoves DEF ThreadPcs, Goes
<1> QED BY <1>0, <1>1, <1>5, <1>6, <1>7, <1>8 DEF PoolShape

\* Tick: the reaper lists the records.
LEMMA TickFacts ==
    ASSUME PoolShape, Tick
    PROVE  /\ PoolShape' /\ UNCHANGED <<map, rec, made, proc, th, main>>
           /\ reaper'.in = reaper.in /\ 0 < MaxTicks
<1>1. PICK R \in SUBSET Records : /\ R = {r \in Mapped : ~rec[r].detached}
                                  /\ \A r \in R : r <= made
  <2>1. \A r \in Mapped : r \in Records /\ r <= made
    BY PoolNumbers DEF PoolShape, MapOK, Mapped
  <2>2. PICK R : R = {r \in Mapped : ~rec[r].detached}
    OBVIOUS
  <2>3. R \subseteq Records /\ \A r \in R : r <= made
    BY <2>1, <2>2
  <2> QED BY <2>2, <2>3
<1>2. /\ reaper \in [todo : SUBSET Records, in : Records \cup {None}, ticks : 0..MaxTicks]
      /\ reaper.in <= made /\ reaper.ticks \in 0..MaxTicks
  BY DEF PoolShape, OthersOK
<1>3. reaper.ticks + 1 \in 0..MaxTicks /\ 0 < MaxTicks
  BY <1>2, PoolAssumption DEF Tick
<1>4. PICK k \in 0..MaxTicks : k = reaper.ticks + 1
  BY <1>3
<1>5. /\ reaper' = [reaper EXCEPT !.todo = R, !.ticks = k]
      /\ UNCHANGED <<map, rec, made, proc, portFile, th, main, faults>>
  BY <1>1, <1>4 DEF Tick
<1>6. /\ reaper' \in [todo : SUBSET Records, in : Records \cup {None}, ticks : 0..MaxTicks]
      /\ reaper'.todo = R /\ reaper'.in = reaper.in
  BY <1>2, <1>5
<1>7. OthersOK'
  BY <1>1, <1>2, <1>5, <1>6 DEF PoolShape, OthersOK
<1> QED BY <1>3, <1>5, <1>6, <1>7 DEF PoolShape, RecordsOK, MapOK, ProcsOK, ThreadsOK, ThreadOK

\* The reaper takes a record from its list.
LEMMA ReaperMoves ==
    ASSUME PoolShape, NEW r \in Records, NEW i \in {r, None}, r \in reaper.todo,
           UNCHANGED <<made, main>>,
           \/ reaper' = [reaper EXCEPT !.todo = @ \ {r}] /\ i = reaper.in
           \/ reaper' = [reaper EXCEPT !.todo = @ \ {r}, !.in = r] /\ i = r
           \/ reaper' = [reaper EXCEPT !.in = None] /\ i = None
    PROVE  OthersOK' /\ reaper'.in = i
<1>1. reaper \in [todo : SUBSET Records, in : Records \cup {None}, ticks : 0..MaxTicks]
      /\ r <= made /\ None <= made
  <2>1. made \in Nat /\ None <= made
    BY NoneIsBefore DEF PoolShape, RecordsOK
  <2> QED BY <2>1 DEF PoolShape, OthersOK
<1>2. /\ reaper' \in [todo : SUBSET Records, in : Records \cup {None}, ticks : 0..MaxTicks]
      /\ reaper'.in = i /\ reaper'.todo \subseteq reaper.todo
  BY <1>1
<1> QED BY <1>1, <1>2 DEF PoolShape, OthersOK

\* ReapDead: a dead backend is forgotten, an unused record erased with it.
LEMMA ReapDeadFacts ==
    ASSUME PoolShape, NEW r \in Records, ReapDead(r)
    PROVE  /\ PoolShape' /\ UNCHANGED <<made, proc, th, main>>
           /\ r \in reaper.todo /\ reaper.in = None /\ reaper'.in = None
           /\ ~rec[r].mu /\ ~Runs(rec[r].pid)
           /\ Only(r) /\ rec'[r].pid = None /\ rec'[r].mu = rec[r].mu
<1>1. /\ r \in reaper.todo /\ reaper.in = None /\ ~rec[r].mu /\ ~Runs(rec[r].pid)
      /\ UNCHANGED <<made, proc, portFile, th, main, faults>>
      /\ reaper' = [reaper EXCEPT !.todo = @ \ {r}]
  BY DEF ReapDead, Locks
<1>2. rec[r] \in RecordSet
  BY DEF PoolShape, RecordsOK
<1>3. PICK w \in Procs \cup {None} : w = IF rec[r].pid # None THEN None ELSE rec[r].port
  BY <1>2 DEF RecordSet
<1>4. PICK q : q = [rec[r] EXCEPT !.pid = None, !.port = w]
  OBVIOUS
<1>5. q \in RecordSet /\ q.name = rec[r].name /\ q.pid = None /\ q.mu = rec[r].mu
  BY <1>2, <1>4 DEF RecordSet
<1>6. rec' = [rec EXCEPT ![r] = q]
  BY <1>3, <1>4 DEF ReapDead, PoolShape, RecordsOK, RecordSet
<1>7. /\ RecordsOK' /\ Only(r) /\ rec'[r] = q /\ ProcsOK' /\ ThreadsOK'
      /\ \A s \in Records : rec'[s].name = rec[s].name
  BY <1>1, <1>5, <1>6, RecordStep
<1>8. MapOK'
  <2>1. map' = Erased(r) \/ map' = map
    BY DEF ReapDead
  <2>2. map' \in [Accounts -> Records \cup {None}] /\ \A a \in Accounts : map'[a] \in {map[a], None}
    BY <2>1 DEF PoolShape, MapOK, Erased
  <2> QED BY <1>1, <1>7, <2>2, MapShrinks
<1>9. OthersOK' /\ reaper'.in = None
  BY <1>1, ReaperMoves
<1> QED BY <1>1, <1>5, <1>7, <1>8, <1>9 DEF PoolShape

\* ReapSpares: a record with a running backend is passed over.
LEMMA ReapSparesFacts ==
    ASSUME PoolShape, NEW r \in Records, ReapSpares(r)
    PROVE  /\ PoolShape' /\ UNCHANGED <<map, rec, made, proc, th, main>>
           /\ reaper.in = None /\ reaper'.in = None /\ r \in reaper.todo
<1>1. /\ r \in reaper.todo /\ reaper.in = None
      /\ UNCHANGED <<map, rec, made, proc, portFile, th, main, faults>>
      /\ reaper' = [reaper EXCEPT !.todo = @ \ {r}]
  BY DEF ReapSpares
<1>2. OthersOK' /\ reaper'.in = None
  BY <1>1, ReaperMoves
<1> QED BY <1>1, <1>2 DEF PoolShape, RecordsOK, MapOK, ProcsOK, ThreadsOK, ThreadOK

\* ReapIdle: an idle backend is killed under the mutex.
LEMMA ReapIdleFacts ==
    ASSUME PoolShape, NEW r \in Records, ReapIdle(r)
    PROVE  /\ PoolShape' /\ UNCHANGED <<map, made, th, main>>
           /\ reaper.in = None /\ reaper'.in = r /\ r \in reaper.todo
           /\ ~rec[r].mu /\ rec'[r].mu /\ Only(r) /\ rec'[r].pid = rec[r].pid
           /\ proc' = Killed(rec[r].pid)
<1>1. /\ r \in reaper.todo /\ reaper.in = None /\ ~rec[r].mu /\ proc' = Killed(rec[r].pid)
      /\ UNCHANGED <<map, made, portFile, th, main, faults>>
      /\ reaper' = [reaper EXCEPT !.todo = @ \ {r}, !.in = r]
      /\ rec' = [rec EXCEPT ![r].mu = TRUE]
  BY DEF ReapIdle, Locks
<1>2. rec[r] \in RecordSet
  BY DEF PoolShape, RecordsOK
<1>3. PICK q \in RecordSet : /\ q = [rec[r] EXCEPT !.mu = TRUE]
                             /\ q.name = rec[r].name /\ q.pid = rec[r].pid /\ q.mu
  BY <1>2, LockRecord
<1>4. rec' = [rec EXCEPT ![r] = q]
  BY <1>1, <1>3 DEF PoolShape, RecordsOK, RecordSet
<1>5. /\ RecordsOK' /\ Only(r) /\ rec'[r] = q /\ MapOK' /\ ThreadsOK'
      /\ \A s \in Records : rec'[s].pid \in {rec[s].pid, None}
  BY <1>1, <1>3, <1>4, RecordStep
<1>6. ProcsOK'
  BY <1>1, <1>5, KillKeepsProcs DEF PoolShape, ProcsOK
<1>7. OthersOK' /\ reaper'.in = r
  BY <1>1, ReaperMoves
<1> QED BY <1>1, <1>3, <1>5, <1>6, <1>7 DEF PoolShape

\* ReapIdled: its record is erased.
LEMMA ReapIdledFacts ==
    ASSUME PoolShape, ReapIdled
    PROVE  /\ PoolShape' /\ UNCHANGED <<made, proc, th, main>>
           /\ reaper.in # None /\ reaper'.in = None
           /\ \E r \in Records : r = reaper.in /\ Only(r) /\ rec'[r].pid = None /\ ~rec'[r].mu
<1>1. PICK r \in Records : r = reaper.in
  BY DEF PoolShape, OthersOK, ReapIdled
<1>2. /\ UNCHANGED <<made, proc, th, main, faults>> /\ Forget(r) /\ map' = Erased(r)
      /\ reaper' = [reaper EXCEPT !.in = None] /\ reaper.in # None
  BY <1>1 DEF ReapIdled
<1>3. /\ RecordsOK' /\ ProcsOK' /\ rec'[r].pid = None /\ ~rec'[r].mu /\ Only(r)
      /\ \A s \in Records : rec'[s].name = rec[s].name /\ rec'[s].pid \in {rec[s].pid, None}
  BY <1>2, ForgetFacts DEF Only
<1>4. ThreadsOK'
  BY <1>2, <1>3, NamesStay
<1>5. MapOK'
  <2>1. map' \in [Accounts -> Records \cup {None}] /\ \A a \in Accounts : map'[a] \in {map[a], None}
    BY <1>2 DEF PoolShape, MapOK, Erased
  <2> QED BY <1>2, <1>3, <2>1, MapShrinks
<1>6. /\ reaper \in [todo : SUBSET Records, in : Records \cup {None}, ticks : 0..MaxTicks]
      /\ None <= made
  BY NoneIsBefore DEF PoolShape, OthersOK, RecordsOK
<1>7. OthersOK' /\ reaper'.in = None
  <2>1. /\ reaper' \in [todo : SUBSET Records, in : Records \cup {None}, ticks : 0..MaxTicks]
        /\ reaper'.in = None /\ reaper'.todo = reaper.todo
    BY <1>2, <1>6
  <2> QED BY <1>2, <1>6, <2>1 DEF PoolShape, OthersOK
<1> QED BY <1>1, <1>2, <1>3, <1>4, <1>5, <1>7 DEF PoolShape

\* Quit: the ticker has been joined.
LEMMA QuitFacts ==
    ASSUME PoolShape, Quit
    PROVE  /\ PoolShape' /\ UNCHANGED <<map, rec, made, proc, th, reaper>>
           /\ main.pc = "running" /\ main'.pc = "shutdown"
           /\ reaper.todo = {} /\ reaper.in = None
           /\ main'.todo = main.todo /\ main'.in = main.in
<1>1. /\ main \in [pc : {"running", "shutdown", "stop", "drain", "last stop", "exited"},
                   todo : SUBSET Records, in : Records \cup {None}]
  BY DEF PoolShape, OthersOK
<1>2. /\ main' = [main EXCEPT !.pc = "shutdown"] /\ main.pc = "running"
      /\ reaper.todo = {} /\ reaper.in = None
      /\ UNCHANGED <<map, rec, made, proc, portFile, th, reaper, faults>>
  BY DEF Quit
<1>3. /\ main' \in [pc : {"running", "shutdown", "stop", "drain", "last stop", "exited"},
                    todo : SUBSET Records, in : Records \cup {None}]
      /\ main'.pc = "shutdown" /\ main'.todo = main.todo /\ main'.in = main.in
  BY <1>1, <1>2
<1>4. OthersOK'
  BY <1>2, <1>3 DEF PoolShape, OthersOK
<1> QED BY <1>2, <1>3, <1>4 DEF PoolShape, RecordsOK, MapOK, ProcsOK, ThreadsOK, ThreadOK

\* What is in the map are records that exist.
LEMMA MappedFacts == PoolShape => \A r \in Mapped : r \in Records /\ r <= made
BY PoolNumbers DEF PoolShape, MapOK, Mapped

\* ShutdownDetach: the map is emptied, its records marked.
LEMMA ShutdownDetachFacts ==
    ASSUME PoolShape, ShutdownDetach
    PROVE  /\ PoolShape' /\ UNCHANGED <<made, proc, th, reaper>>
           /\ \/ main.pc = "shutdown" /\ main'.pc = "stop"
              \/ main.pc = "drain" /\ main'.pc = "last stop" /\ \A t \in Threads : At(t, "idle")
           /\ main'.todo = Mapped /\ main'.in = main.in
           /\ \A a \in Accounts : map'[a] = None
           /\ \A s \in Records : /\ rec'[s].pid = rec[s].pid /\ rec'[s].mu = rec[s].mu
                                 /\ rec'[s].name = rec[s].name
                                 /\ rec'[s].detached = (rec[s].detached \/ s \in Mapped)
<1>1. /\ main \in [pc : {"running", "shutdown", "stop", "drain", "last stop", "exited"},
                   todo : SUBSET Records, in : Records \cup {None}]
  BY DEF PoolShape, OthersOK
<1>2. PICK l \in {"stop", "last stop"} :
        /\ l = IF main.pc = "shutdown" THEN "stop" ELSE "last stop"
        /\ \/ main.pc = "shutdown" /\ l = "stop"
           \/ main.pc = "drain" /\ l = "last stop" /\ \A t \in Threads : At(t, "idle")
  BY DEF ShutdownDetach
<1>3. PICK R \in SUBSET Records : R = Mapped /\ \A r \in R : r <= made
  <2>1. \A r \in Mapped : r \in Records /\ r <= made
    BY MappedFacts
  <2>2. PICK R : R = Mapped
    OBVIOUS
  <2>3. \A r \in R : r \in Records /\ r <= made
    BY <2>1, <2>2
  <2> QED BY <2>2, <2>3
<1>4. /\ main' = [main EXCEPT !.todo = R, !.pc = l]
      /\ map' = [a \in Accounts |-> None]
      /\ rec' = [r \in Records |-> [rec[r] EXCEPT !.detached = rec[r].detached \/ r \in R]]
      /\ UNCHANGED <<made, proc, portFile, th, reaper, faults>>
  <2>1. rec' = [r \in Records |-> [rec[r] EXCEPT !.detached = rec[r].detached \/ r \in Mapped]]
    BY DEF ShutdownDetach, PoolShape, RecordsOK, RecordSet
  <2> QED BY <1>2, <1>3, <2>1 DEF ShutdownDetach
<1>5. /\ main' \in [pc : {"running", "shutdown", "stop", "drain", "last stop", "exited"},
                    todo : SUBSET Records, in : Records \cup {None}]
      /\ main'.pc = l /\ main'.todo = R /\ main'.in = main.in
  BY <1>1, <1>2, <1>4
<1>6. ASSUME NEW s \in Records
      PROVE  /\ rec'[s] \in RecordSet
             /\ rec'[s].pid = rec[s].pid /\ rec'[s].mu = rec[s].mu
             /\ rec'[s].name = rec[s].name
             /\ rec'[s].detached = (rec[s].detached \/ s \in R)
  <2>1. rec[s] \in RecordSet
    BY DEF PoolShape, RecordsOK
  <2>2. PICK b \in BOOLEAN : b = (rec[s].detached \/ s \in R)
    OBVIOUS
  <2>3. rec'[s] = [rec[s] EXCEPT !.detached = b]
    BY <1>4, <2>2
  <2> QED BY <2>1, <2>2, <2>3 DEF RecordSet
<1>7. RecordsOK'
  <2>1. rec' \in [Records -> RecordSet]
    BY <1>4, <1>6
  <2> QED BY <1>4, <1>6, <2>1 DEF PoolShape, RecordsOK
<1>8. MapOK'
  BY <1>4, PoolNumbers DEF MapOK
<1>9. ProcsOK' /\ ThreadsOK'
  BY <1>4, <1>6, NamesStay
<1>10. OthersOK'
  <2>1. /\ UNCHANGED <<made, reaper>> /\ main'.todo = R /\ main'.in = main.in
        /\ \A r \in R : r <= made
    BY <1>3, <1>4, <1>5
  <2>2. /\ \A r \in reaper.todo \cup main.todo : r <= made
        /\ reaper.in <= made /\ main.in <= made
        /\ reaper \in [todo : SUBSET Records, in : Records \cup {None}, ticks : 0..MaxTicks]
    BY DEF PoolShape, OthersOK
  <2>3. \A r \in reaper.todo \cup R : r <= made
    BY <2>1, <2>2
  <2>4. \A r \in reaper'.todo \cup main'.todo : r <= made'
    BY <2>1, <2>3
  <2>5. reaper'.in <= made' /\ main'.in <= made'
    BY <2>1, <2>2
  <2>6. /\ reaper' \in [todo : SUBSET Records, in : Records \cup {None}, ticks : 0..MaxTicks]
    BY <2>1, <2>2
  <2> QED BY <1>5, <2>4, <2>5, <2>6 DEF OthersOK
<1>11. PoolShape' /\ UNCHANGED <<made, proc, th, reaper>> /\ \A a \in Accounts : map'[a] = None
  BY <1>4, <1>7, <1>8, <1>9, <1>10 DEF PoolShape
<1>12. main'.todo = Mapped /\ main'.in = main.in /\ main'.pc = l
  BY <1>3, <1>5
<1>13. \A s \in Records : /\ rec'[s].pid = rec[s].pid /\ rec'[s].mu = rec[s].mu
                          /\ rec'[s].name = rec[s].name
                          /\ rec'[s].detached = (rec[s].detached \/ s \in Mapped)
  BY <1>3, <1>6
<1> QED BY <1>2, <1>11, <1>12, <1>13

\* ShutdownStop: a backend is killed under its mutex.
LEMMA ShutdownStopFacts ==
    ASSUME PoolShape, NEW r \in Records, ShutdownStop(r)
    PROVE  /\ PoolShape' /\ UNCHANGED <<map, made, th, reaper>>
           /\ main.in = None /\ main'.in = r /\ r \in main.todo /\ main'.todo = main.todo \ {r}
           /\ main'.pc = main.pc
           /\ ~rec[r].mu /\ rec'[r].mu /\ Only(r) /\ rec'[r].pid = rec[r].pid
           /\ rec'[r].detached = rec[r].detached /\ rec'[r].name = rec[r].name
           /\ proc' = Killed(rec[r].pid)
<1>1. /\ r \in main.todo /\ main.in = None /\ ~rec[r].mu /\ proc' = Killed(rec[r].pid)
      /\ UNCHANGED <<map, made, portFile, th, reaper, faults>>
      /\ main' = [main EXCEPT !.todo = @ \ {r}, !.in = r]
      /\ rec' = [rec EXCEPT ![r].mu = TRUE]
  BY DEF ShutdownStop, Locks
<1>2. rec[r] \in RecordSet
  BY DEF PoolShape, RecordsOK
<1>3. PICK q \in RecordSet : /\ q = [rec[r] EXCEPT !.mu = TRUE]
                             /\ q.name = rec[r].name /\ q.pid = rec[r].pid /\ q.mu
                             /\ q.detached = rec[r].detached
  BY <1>2, LockRecord
<1>4. rec' = [rec EXCEPT ![r] = q]
  BY <1>1, <1>3 DEF PoolShape, RecordsOK, RecordSet
<1>5. /\ RecordsOK' /\ Only(r) /\ rec'[r] = q /\ MapOK' /\ ThreadsOK'
      /\ \A s \in Records : rec'[s].pid \in {rec[s].pid, None}
  BY <1>1, <1>3, <1>4, RecordStep
<1>6. ProcsOK'
  BY <1>1, <1>5, KillKeepsProcs DEF PoolShape, ProcsOK
<1>7. /\ main \in [pc : {"running", "shutdown", "stop", "drain", "last stop", "exited"},
                   todo : SUBSET Records, in : Records \cup {None}]
      /\ r <= made
  BY <1>1 DEF PoolShape, OthersOK
<1>8. /\ main' \in [pc : {"running", "shutdown", "stop", "drain", "last stop", "exited"},
                    todo : SUBSET Records, in : Records \cup {None}]
      /\ main'.todo = main.todo \ {r} /\ main'.in = r /\ main'.pc = main.pc
  BY <1>1, <1>7
<1>9. OthersOK'
  BY <1>1, <1>7, <1>8 DEF PoolShape, OthersOK
<1> QED BY <1>1, <1>3, <1>5, <1>6, <1>8, <1>9 DEF PoolShape

\* ShutdownStopped: and forgotten.
LEMMA ShutdownStoppedFacts ==
    ASSUME PoolShape, ShutdownStopped
    PROVE  /\ PoolShape' /\ UNCHANGED <<map, made, proc, th, reaper>>
           /\ main.in # None /\ main'.in = None /\ main'.todo = main.todo /\ main'.pc = main.pc
           /\ \E r \in Records : /\ r = main.in /\ Only(r) /\ rec'[r].pid = None /\ ~rec'[r].mu
                                 /\ rec'[r].detached = rec[r].detached
                                 /\ rec'[r].name = rec[r].name
<1>1. PICK r \in Records : r = main.in
  BY DEF PoolShape, OthersOK, ShutdownStopped
<1>2. /\ UNCHANGED <<map, made, proc, th, reaper, faults>> /\ Forget(r)
      /\ main' = [main EXCEPT !.in = None] /\ main.in # None
  BY <1>1 DEF ShutdownStopped
<1>3. /\ RecordsOK' /\ ProcsOK' /\ rec'[r].pid = None /\ ~rec'[r].mu /\ Only(r)
      /\ rec'[r].detached = rec[r].detached /\ rec'[r].name = rec[r].name
      /\ \A s \in Records : rec'[s].name = rec[s].name /\ rec'[s].pid \in {rec[s].pid, None}
  BY <1>2, ForgetFacts DEF Only
<1>4. MapOK' /\ ThreadsOK'
  BY <1>2, <1>3, NamesStay
<1>5. /\ main \in [pc : {"running", "shutdown", "stop", "drain", "last stop", "exited"},
                   todo : SUBSET Records, in : Records \cup {None}]
      /\ None <= made
  BY NoneIsBefore DEF PoolShape, OthersOK, RecordsOK
<1>6. /\ main' \in [pc : {"running", "shutdown", "stop", "drain", "last stop", "exited"},
                    todo : SUBSET Records, in : Records \cup {None}]
      /\ main'.todo = main.todo /\ main'.in = None /\ main'.pc = main.pc
  BY <1>2, <1>5
<1>7. OthersOK'
  BY <1>2, <1>5, <1>6 DEF PoolShape, OthersOK
<1> QED BY <1>1, <1>2, <1>3, <1>4, <1>6, <1>7 DEF PoolShape

\* ShutdownDone: the first round waits for the threads, the second exits.
LEMMA ShutdownDoneFacts ==
    ASSUME PoolShape, ShutdownDone
    PROVE  /\ PoolShape' /\ UNCHANGED <<map, rec, made, proc, th, reaper>>
           /\ \/ main.pc = "stop" /\ main'.pc = "drain"
              \/ main.pc = "last stop" /\ main'.pc = "exited"
           /\ main.todo = {} /\ main.in = None /\ main'.todo = {} /\ main'.in = None
<1>1. /\ main \in [pc : {"running", "shutdown", "stop", "drain", "last stop", "exited"},
                   todo : SUBSET Records, in : Records \cup {None}]
  BY DEF PoolShape, OthersOK
<1>2. PICK l \in {"drain", "exited"} :
        /\ main' = [main EXCEPT !.pc = l]
        /\ \/ main.pc = "stop" /\ l = "drain"
           \/ main.pc = "last stop" /\ l = "exited"
  BY DEF ShutdownDone
<1>3. /\ UNCHANGED <<map, rec, made, proc, portFile, th, reaper, faults>>
      /\ main.todo = {} /\ main.in = None
  BY DEF ShutdownDone
<1>4. /\ main' \in [pc : {"running", "shutdown", "stop", "drain", "last stop", "exited"},
                    todo : SUBSET Records, in : Records \cup {None}]
      /\ main'.pc = l /\ main'.todo = main.todo /\ main'.in = main.in
  BY <1>1, <1>2
<1>5. OthersOK'
  BY <1>3, <1>4 DEF PoolShape, OthersOK
<1> QED BY <1>2, <1>3, <1>4, <1>5 DEF PoolShape, RecordsOK, MapOK, ProcsOK, ThreadsOK, ThreadOK

\* Bind, Die: what a process does by itself.
LEMMA BackendFacts ==
    ASSUME PoolShape, NEW p \in Procs, Bind(p) \/ Die(p)
    PROVE  /\ PoolShape' /\ UNCHANGED <<map, rec, made, th, reaper, main>>
           /\ proc[p].state \in {"booting", "up"}
           /\ proc'[p].state \in {"up", "dead"}
           /\ \A x \in Procs \ {p} : proc'[x] = proc[x]
<1>1. /\ UNCHANGED <<map, rec, made, th, reaper, main>> /\ proc[p].state \in {"booting", "up"}
      /\ proc[p] \in ProcSet /\ proc \in [Procs -> ProcSet]
  BY DEF Bind, Die, Runs, PoolShape, ProcsOK
<1>2. PICK l \in {"up", "dead"} : proc' = [proc EXCEPT ![p].state = l]
  BY PoolNumbers DEF Bind, Die, Killed
<1>3. PICK z : z = [proc[p] EXCEPT !.state = l]
  OBVIOUS
<1>4. z \in ProcSet /\ z.state = l
  BY <1>1, <1>3 DEF ProcSet
<1>5. proc' = [proc EXCEPT ![p] = z]
  BY <1>1, <1>2, <1>3 DEF ProcSet
<1>6. /\ proc' \in [Procs -> ProcSet] /\ proc'[p] = z
      /\ \A x \in Procs \ {p} : proc'[x] = proc[x]
  BY <1>1, <1>4, <1>5
<1>7. \A x \in Procs : proc'[x].state # "none" <=> proc[x].state # "none"
  BY <1>1, <1>4, <1>6
<1>8. faults' \in 0..MaxFaults
  <2>1. faults \in 0..MaxFaults /\ MaxFaults \in Nat
        /\ (faults' = faults \/ (faults < MaxFaults /\ faults' = faults + 1))
    BY PoolAssumption DEF Bind, Die, PoolShape, ProcsOK
  <2> QED BY <2>1
<1>9. portFile' \in [Accounts -> Procs \cup {None}]
  BY DEF Bind, Die, PoolShape, ProcsOK
<1>10. ProcsOK'
  BY <1>1, <1>6, <1>7, <1>8, <1>9, ProcChanges
<1> QED BY <1>1, <1>4, <1>6, <1>10 DEF PoolShape, RecordsOK, MapOK, ThreadsOK, ThreadOK, OthersOK

-----------------------------------------------------------------------------
(* The types                                                               *)

\* Every step keeps the shape.
LEMMA PoolShapeNext == PoolShape /\ [Next]_vars => PoolShape'
<1> SUFFICES ASSUME PoolShape, [Next]_vars PROVE PoolShape'
  OBVIOUS
<1>1. ASSUME NEW t \in Threads, Acquire(t) PROVE PoolShape'
  BY <1>1, FindFacts, DetachFacts, NoVictimFacts, SpareFacts, RetireFacts, StopFacts, LockFacts,
     ServeFacts, KillFacts, ForkFacts, ReadPortFacts DEF Acquire
<1>2. ASSUME NEW t \in Threads, Release(t) PROVE PoolShape'
  BY <1>2, AnsweredFacts, UnrefFacts DEF Release
<1>3. ASSUME NEW t \in Threads, NEW a \in Accounts, Request(t, a) PROVE PoolShape'
  BY <1>3, RequestFacts
<1>4. CASE Tick
  BY <1>4, TickFacts
<1>5. CASE Reap
  BY <1>5, ReapIdledFacts, ReapDeadFacts, ReapSparesFacts, ReapIdleFacts DEF Reap
<1>6. CASE Quit
  BY <1>6, QuitFacts
<1>7. CASE Shutdown
  BY <1>7, ShutdownDetachFacts, ShutdownStoppedFacts, ShutdownDoneFacts, ShutdownStopFacts
     DEF Shutdown
<1>8. ASSUME NEW p \in Procs, Bind(p) \/ Die(p) PROVE PoolShape'
  BY <1>8, BackendFacts
<1>9. CASE UNCHANGED vars
  BY <1>9 DEF vars, PoolShape, RecordsOK, MapOK, ProcsOK, ThreadsOK, ThreadOK, OthersOK
<1> QED BY <1>1, <1>2, <1>3, <1>4, <1>5, <1>6, <1>7, <1>8, <1>9 DEF Next, Done

\* The shape implies the type invariant.
LEMMA PoolShapeType == PoolShape => TypeOK
<1> SUFFICES ASSUME PoolShape PROVE TypeOK
  OBVIOUS
<1>1. made \in Records \cup {None}
  BY PoolNumbers DEF PoolShape, RecordsOK
<1>2. /\ map \in [Accounts -> Records \cup {None}]
      /\ \A a \in Accounts : map[a] # None => rec[map[a]].name = a
  BY DEF PoolShape, MapOK
<1>3. /\ rec \in [Records -> RecordSet] /\ proc \in [Procs -> ProcSet]
      /\ portFile \in [Accounts -> Procs \cup {None}] /\ th \in [Threads -> ThreadSet]
      /\ faults \in 0..MaxFaults
  BY DEF PoolShape, RecordsOK, ProcsOK, ThreadsOK
<1> QED BY <1>1, <1>2, <1>3 DEF PoolShape, OthersOK, TypeOK, RecordSet, ProcSet, ThreadSet,
        ThreadPcs

\* Every variable of the pool has its type in every state, and an account's record
\* carries the account's name, however acquire, release, the reaper and the
\* shutdown interleave (gw_pool.cpp).
THEOREM PoolWellFormed == Spec => []TypeOK
<1>1. Spec => []PoolShape
  BY PoolShapeInit, PoolShapeNext, PTL DEF Spec
<1> QED BY <1>1, PoolShapeType, PTL

-----------------------------------------------------------------------------
(* Who holds a record's mutex                                              *)

\* Thread t is in the middle of a start, a check or a stop of record r.
Holds(t, r) ==
    \/ /\ th[t].in = r
       /\ th[t].pc \in {"check", "recycled", "start", "wait port", "wait ping", "start failed"}
    \/ th[t].victim = r /\ th[t].pc = "retired"

\* The record has no process, or a dead one.
Gone(r) == rec[r].pid # None => proc[rec[r].pid].state = "dead"

Locked ==
    /\ \A t \in Threads, r \in Records : Holds(t, r) => rec[r].mu
    /\ reaper.in \in Records => rec[reaper.in].mu
    /\ main.in \in Records => rec[main.in].mu

Alone ==
    /\ \A t, u \in Threads, r \in Records : Holds(t, r) /\ Holds(u, r) => t = u
    /\ \A t \in Threads, r \in Records : Holds(t, r) => reaper.in # r /\ main.in # r
    /\ reaper.in \in Records => reaper.in # main.in

\* A start begins without a process, a stop goes on after the kill.
Stopped ==
    /\ \A t \in Threads :
         /\ th[t].pc = "start" => rec[th[t].in].pid = None
         /\ th[t].pc \in {"recycled", "start failed"} => Gone(th[t].in)
         /\ th[t].pc = "retired" => Gone(th[t].victim)
    /\ reaper.in \in Records => Gone(reaper.in)
    /\ main.in \in Records => Gone(main.in)

\* A process that runs is the process of some record.
Recorded == \A p \in Procs : Runs(p) => \E r \in Records : rec[r].pid = p

Custody == Locked /\ Alone /\ Stopped /\ Recorded

\* What is held exists.
LEMMA HeldExist ==
    ASSUME PoolShape
    PROVE  /\ \A t \in Threads, r \in Records : Holds(t, r) => r <= made
           /\ reaper.in <= made /\ main.in <= made
BY DEF PoolShape, ThreadsOK, ThreadOK, OthersOK, Holds

\* Nobody takes a record; k may be unlocked, by the one that held it.
LEMMA NobodyLocks ==
    ASSUME PoolShape, Locked, Alone, NEW k,
           \A s \in Records \ {k} : s <= made => rec'[s].mu = rec[s].mu,
           \A t \in Threads, s \in Records : Holds(t, s)' => Holds(t, s) /\ s # k,
           reaper'.in \in {reaper.in, None}, main'.in \in {main.in, None},
           k \in Records => reaper'.in # k /\ main'.in # k
    PROVE  Locked' /\ Alone'
<1>1. Locked'
  BY HeldExist, PoolNumbers DEF Locked
<1>2. Alone'
  BY PoolNumbers DEF Alone
<1> QED BY <1>1, <1>2

\* One takes the record r, which was unlocked.
LEMMA OneLocks ==
    ASSUME PoolShape, Locked, Alone, NEW r \in Records, ~rec[r].mu, rec'[r].mu, Only(r),
           \A t \in Threads, s \in Records \ {r} : Holds(t, s)' => Holds(t, s),
           \A t, u \in Threads : Holds(t, r)' /\ Holds(u, r)' => t = u,
           reaper'.in = reaper.in \/ (reaper'.in = r /\ main'.in = main.in),
           main'.in = main.in \/ (main'.in = r /\ reaper'.in = reaper.in),
           \A t \in Threads : Holds(t, r)' => reaper'.in = reaper.in /\ main'.in = main.in
    PROVE  Locked' /\ Alone'
<1>1. /\ \A t \in Threads : ~Holds(t, r)
      /\ reaper.in # r /\ main.in # r
  BY DEF Locked
<1>2. Locked'
  BY DEF Locked, Only
<1>3. Alone'
  BY <1>1 DEF Alone
<1> QED BY <1>2, <1>3

\* Processes stay dead and no record is given one.
LEMMA StoppedStays ==
    ASSUME PoolShape, Stopped,
           \A s \in Records : rec'[s].pid \in {rec[s].pid, None},
           \A p \in Procs : proc[p].state = "dead" => proc'[p].state = "dead",
           \A t \in Threads :
             \/ th'[t] = th[t]
             \/ /\ th'[t].pc = "start" => rec'[th'[t].in].pid = None
                /\ th'[t].pc \in {"recycled", "start failed"} => Gone(th[t].in)'
                /\ th'[t].pc = "retired" => Gone(th[t].victim)',
           \/ reaper'.in \in {reaper.in, None}
           \/ reaper'.in \in Records => Gone(reaper.in)',
           \/ main'.in \in {main.in, None}
           \/ main'.in \in Records => Gone(main.in)'
    PROVE  Stopped'
<1>1. \A s \in Records : rec[s].pid # None => rec[s].pid \in Procs
  BY DEF PoolShape, RecordsOK, RecordSet
<1>2. \A s \in Records : Gone(s) => Gone(s)'
  BY <1>1 DEF Gone
<1>3. ASSUME NEW t \in Threads
      PROVE  /\ th'[t].pc = "start" => rec'[th'[t].in].pid = None
             /\ th'[t].pc \in {"recycled", "start failed"} => Gone(th[t].in)'
             /\ th'[t].pc = "retired" => Gone(th[t].victim)'
  <2>1. CASE th'[t] = th[t]
    <3>1. /\ th[t].pc \in {"start", "recycled", "start failed"} => th[t].in \in Records
          /\ th[t].pc = "retired" => th[t].victim \in Records
      BY ThreadFacts
    <3> QED BY <1>2, <2>1, <3>1 DEF Stopped, Gone
  <2>2. CASE th'[t] # th[t]
    BY <2>2
  <2> QED BY <2>1, <2>2
<1>4. reaper'.in \in Records => Gone(reaper.in)'
  BY <1>2, PoolNumbers DEF Stopped, Gone
<1>5. main'.in \in Records => Gone(main.in)'
  BY <1>2, PoolNumbers DEF Stopped, Gone
<1> QED BY <1>3, <1>4, <1>5 DEF Stopped, Gone

\* No process comes to life and a record only loses one that does not run.
LEMMA NothingLost ==
    ASSUME PoolShape, Recorded,
           \A p \in Procs : proc'[p].state \in {"booting", "up"} => proc[p].state \in {"booting", "up"},
           \A s \in Records : \/ rec'[s].pid = rec[s].pid
                              \/ rec[s].pid = None
                              \/ proc'[rec[s].pid].state \notin {"booting", "up"}
    PROVE  Recorded'
BY PoolNumbers DEF Recorded, Runs

\* The backend of record r is killed.
LEMMA KilledIsGone ==
    ASSUME PoolShape, NEW r \in Records, proc' = Killed(rec[r].pid),
           rec'[r].pid = rec[r].pid
    PROVE  /\ Gone(r)'
           /\ \A p \in Procs : proc[p].state = "dead" => proc'[p].state = "dead"
           /\ \A p \in Procs : proc'[p].state \in {"booting", "up"} =>
                               proc[p].state \in {"booting", "up"}
<1>1. PICK p \in Procs \cup {None} : p = rec[r].pid
  BY DEF PoolShape, RecordsOK, RecordSet
<1>2. p # None => proc[p].state # "none"
  BY <1>1 DEF PoolShape, ProcsOK
<1>3. /\ p # None => proc'[p].state = "dead"
      /\ \A x \in Procs : x # p => proc'[x] = proc[x]
  BY <1>1, <1>2, KilledProcs
<1> QED BY <1>1, <1>3, PoolNumbers DEF Gone

\* Steps that touch no mutex, no process and no holder.
LEMMA CustodyQuiet ==
    ASSUME PoolShape, Custody, UNCHANGED proc,
           \A s \in Records : /\ rec'[s].pid = rec[s].pid
                              /\ s <= made => rec'[s].mu = rec[s].mu,
           \A t \in Threads :
             \/ th'[t] = th[t]
             \/ th'[t].pc \in {"idle", "lookup", "evict", "retire", "lock", "serving", "unref"},
           reaper'.in = reaper.in, main'.in = main.in
    PROVE  Custody'
<1>1. \A t \in Threads, s \in Records : Holds(t, s)' => Holds(t, s) /\ s # None
  BY PoolNumbers DEF Holds
<1>2. Locked' /\ Alone'
  BY <1>1, NobodyLocks, PoolNumbers DEF Custody
<1>3. Stopped'
  BY StoppedStays DEF Custody
<1>4. Recorded'
  BY NothingLost DEF Custody
<1> QED BY <1>2, <1>3, <1>4 DEF Custody

\* Request threads that touch no mutex.
LEMMA CustodyLooks ==
    ASSUME PoolShape, Custody, NEW t \in Threads,
           \/ Find(t) \/ NoVictim(t) \/ DetachVictim(t) \/ SpareVictim(t)
           \/ Answered(t) \/ Unref(t) \/ \E a \in Accounts : Request(t, a)
    PROVE  Custody'
<1>1. CASE Find(t)
  <2>1. PICK r \in Records :
          /\ th'[t].pc \in {"evict", "lock"} /\ \A u \in Threads \ {t} : th'[u] = th[u]
          /\ Only(r)
          /\ \/ rec' = rec
             \/ /\ r = made + 1 /\ rec[r].pid = None /\ rec'[r] = NewRecord(th[t].name)
    BY <1>1, FindFacts
  <2>2. ASSUME NEW s \in Records
        PROVE  rec'[s].pid = rec[s].pid /\ (s <= made => rec'[s].mu = rec[s].mu)
    <3>1. CASE s # r \/ rec' = rec
      BY <2>1, <3>1 DEF Only
    <3>2. CASE s = r /\ rec' # rec
      <4>1. rec'[s].pid = rec[s].pid
        BY <2>1, <3>2 DEF NewRecord
      <4>2. ~(s <= made)
        BY <2>1, <3>2, AfterTheMade DEF PoolShape, RecordsOK
      <4> QED BY <4>1, <4>2
    <3> QED BY <3>1, <3>2
  <2>3. UNCHANGED <<proc, reaper, main>>
    BY <1>1, FindFacts
  <2> QED BY <2>1, <2>2, <2>3, CustodyQuiet
<1>2. CASE NoVictim(t)
  BY <1>2, NoVictimFacts, CustodyQuiet DEF Goes
<1>3. CASE DetachVictim(t)
  BY <1>3, DetachFacts, CustodyQuiet
<1>4. CASE SpareVictim(t)
  BY <1>4, SpareFacts, CustodyQuiet DEF Goes
<1>5. CASE Answered(t)
  BY <1>5, AnsweredFacts, CustodyQuiet
<1>6. CASE Unref(t)
  BY <1>6, UnrefFacts, CustodyQuiet DEF Goes, Only
<1>7. CASE \E a \in Accounts : Request(t, a)
  BY <1>7, RequestFacts, CustodyQuiet
<1> QED BY <1>1, <1>2, <1>3, <1>4, <1>5, <1>6, <1>7

\* Request threads that lock a record.
LEMMA CustodyLocks ==
    ASSUME PoolShape, Custody, NEW t \in Threads, Lock(t) \/ RetireVictim(t)
    PROVE  Custody'
<1>1. CASE Lock(t)
  <2>1. PICK r \in Records :
          /\ r = th[t].in /\ ~rec[r].mu
          /\ \/ rec[r].detached /\ UNCHANGED rec /\ Goes(t, "lookup")
             \/ /\ ~rec[r].detached /\ Only(r) /\ rec'[r].mu /\ rec'[r].pid = rec[r].pid
                /\ rec'[r].detached = rec[r].detached
                /\ \/ Goes(t, "check")
                   \/ Goes(t, "start") /\ rec[r].pid = None
    BY <1>1, LockFacts
  <2>2. UNCHANGED <<map, made, proc, reaper, main>> /\ th[t].pc = "lock"
    BY <1>1, LockFacts
  <2>3. CASE UNCHANGED rec /\ Goes(t, "lookup")
    BY <2>2, <2>3, CustodyQuiet DEF Goes
  <2>4. CASE /\ Only(r) /\ rec'[r].mu /\ rec'[r].pid = rec[r].pid
             /\ \/ Goes(t, "check")
                \/ Goes(t, "start") /\ rec[r].pid = None
    <3>1. /\ \A u \in Threads, s \in Records \ {r} : Holds(u, s)' => Holds(u, s)
          /\ \A u \in Threads : Holds(u, r)' => u = t
      BY <2>1, <2>2, <2>4 DEF Holds, Goes, Custody, Locked
    <3>2. Locked' /\ Alone'
      BY <2>1, <2>2, <2>4, <3>1, OneLocks DEF Custody
    <3>3. /\ \A s \in Records : rec'[s].pid = rec[s].pid
          /\ \A u \in Threads : \/ th'[u] = th[u]
                                \/ th'[u].pc = "check"
                                \/ th'[u].pc = "start" /\ rec'[th'[u].in].pid = None
      BY <2>1, <2>4 DEF Goes, Only
    <3>4. Stopped'
      BY <2>2, <3>3, StoppedStays DEF Custody
    <3>5. Recorded'
      BY <2>2, <3>3, NothingLost DEF Custody
    <3> QED BY <3>2, <3>4, <3>5 DEF Custody
  <2> QED BY <2>1, <2>3, <2>4
<1>2. CASE RetireVictim(t)
  <2>1. PICK v \in Records :
          /\ v = th[t].victim /\ ~rec[v].mu /\ rec'[v].mu /\ rec'[v].pid = rec[v].pid
          /\ Only(v) /\ proc' = Killed(rec[v].pid)
    BY <1>2, RetireFacts
  <2>2. UNCHANGED <<map, made, reaper, main>> /\ th[t].pc = "retire" /\ Goes(t, "retired")
    BY <1>2, RetireFacts
  <2>3. /\ \A u \in Threads, s \in Records \ {v} : Holds(u, s)' => Holds(u, s)
        /\ \A u \in Threads : Holds(u, v)' => u = t
    BY <2>1, <2>2 DEF Holds, Goes, Custody, Locked
  <2>4. Locked' /\ Alone'
    BY <2>1, <2>2, <2>3, OneLocks DEF Custody
  <2>5. /\ Gone(v)'
        /\ \A p \in Procs : proc[p].state = "dead" => proc'[p].state = "dead"
        /\ \A p \in Procs : proc'[p].state \in {"booting", "up"} =>
                            proc[p].state \in {"booting", "up"}
    BY <2>1, KilledIsGone
  <2>6. /\ \A s \in Records : rec'[s].pid = rec[s].pid
        /\ \A u \in Threads : \/ th'[u] = th[u]
                              \/ th'[u].pc = "retired" /\ Gone(th[u].victim)'
    BY <2>1, <2>2, <2>5 DEF Goes, Only, Gone
  <2>7. Stopped'
    BY <2>2, <2>5, <2>6, StoppedStays DEF Custody
  <2>8. Recorded'
    BY <2>2, <2>5, <2>6, NothingLost DEF Custody
  <2> QED BY <2>4, <2>7, <2>8 DEF Custody
<1> QED BY <1>1, <1>2

\* Request threads that unlock a record: the backend is handed out, or was stopped.
LEMMA CustodyUnlocks ==
    ASSUME PoolShape, Custody, NEW t \in Threads,
           Reuse(t) \/ Started(t) \/ VictimGone(t) \/ Recycled(t) \/ Refused(t)
    PROVE  Custody'
<1>1. PICK r \in Records :
        /\ Holds(t, r) /\ Only(r)
        /\ \/ rec'[r].pid = rec[r].pid
           \/ rec'[r].pid = None /\ Gone(r)
  <2>1. CASE Reuse(t) \/ Started(t)
    BY <2>1, ServeFacts DEF Holds
  <2>2. CASE VictimGone(t) \/ Recycled(t) \/ Refused(t)
    BY <2>2, StopFacts DEF Holds, Custody, Stopped
  <2> QED BY <2>1, <2>2
<1>2. /\ UNCHANGED <<map, made, proc, reaper, main>>
      /\ th'[t].pc \in {"serving", "lock", "lookup", "idle"}
      /\ \A u \in Threads \ {t} : th'[u] = th[u]
  BY ServeFacts, StopFacts DEF Goes
<1>3. /\ \A u \in Threads, s \in Records : Holds(u, s)' => Holds(u, s) /\ s # r
      /\ reaper.in # r /\ main.in # r
  BY <1>1, <1>2 DEF Holds, Custody, Alone
<1>4. Locked' /\ Alone'
  BY <1>1, <1>2, <1>3, NobodyLocks DEF Custody, Only
<1>5. \A s \in Records : rec'[s].pid \in {rec[s].pid, None}
  BY <1>1 DEF Only
<1>6. Stopped'
  BY <1>2, <1>5, StoppedStays DEF Custody
<1>7. Recorded'
  BY <1>1, <1>2, NothingLost DEF Custody, Only, Gone
<1> QED BY <1>4, <1>6, <1>7 DEF Custody

\* Request threads that hold a record and keep it: the kill, the fork, the port.
LEMMA CustodyKeeps ==
    ASSUME PoolShape, Custody, NEW t \in Threads,
           Recycle(t) \/ StartFails(t) \/ Fork(t) \/ ReadPort(t)
    PROVE  Custody'
<1>1. CASE Recycle(t) \/ StartFails(t)
  <2>1. PICK r \in Records : r = th[t].in /\ proc' = Killed(rec[r].pid)
    BY <1>1, KillFacts
  <2>2. /\ UNCHANGED <<map, rec, made, reaper, main>>
        /\ \/ th[t].pc = "check" /\ Goes(t, "recycled")
           \/ th[t].pc \in {"wait port", "wait ping"} /\ Goes(t, "start failed")
    BY <1>1, KillFacts
  <2>3. \A u \in Threads, s \in Records : Holds(u, s)' => Holds(u, s) /\ s # None
    BY <2>2, PoolNumbers DEF Holds, Goes
  <2>4. Locked' /\ Alone'
    BY <2>2, <2>3, NobodyLocks, PoolNumbers DEF Custody
  <2>5. /\ Gone(r)'
        /\ \A p \in Procs : proc[p].state = "dead" => proc'[p].state = "dead"
        /\ \A p \in Procs : proc'[p].state \in {"booting", "up"} =>
                            proc[p].state \in {"booting", "up"}
    BY <2>1, <2>2, KilledIsGone
  <2>6. \A u \in Threads : \/ th'[u] = th[u]
                           \/ /\ th'[u].pc \in {"recycled", "start failed"}
                              /\ Gone(th[u].in)'
    BY <2>1, <2>2, <2>5 DEF Goes, Gone
  <2>7. Stopped'
    BY <2>2, <2>5, <2>6, StoppedStays DEF Custody
  <2>8. Recorded'
    BY <2>2, <2>5, NothingLost DEF Custody
  <2> QED BY <2>4, <2>7, <2>8 DEF Custody
<1>2. CASE Fork(t)
  <2>1. PICK r \in Records, p \in Procs :
          /\ r = th[t].in /\ Only(r) /\ rec'[r].pid = p /\ rec'[r].mu = rec[r].mu
          /\ proc[p].state = "none" /\ proc'[p].state = "booting"
          /\ \A x \in Procs \ {p} : proc'[x] = proc[x]
    BY <1>2, ForkFacts
  <2>2. UNCHANGED <<map, made, reaper, main>> /\ th[t].pc = "start" /\ Goes(t, "wait port")
    BY <1>2, ForkFacts
  <2>3. \A u \in Threads, s \in Records : Holds(u, s)' => Holds(u, s) /\ s # None
    BY <2>2, PoolNumbers DEF Holds, Goes
  <2>4. \A s \in Records : rec'[s].mu = rec[s].mu
    BY <2>1 DEF Only
  <2>5. Locked' /\ Alone'
    BY <2>2, <2>3, <2>4, NobodyLocks, PoolNumbers DEF Custody
  <2>6. rec[r].pid = None /\ Holds(t, r) /\ reaper.in # r /\ main.in # r
        /\ \A u \in Threads \ {t} : ~Holds(u, r)
    BY <2>1, <2>2 DEF Custody, Stopped, Alone, Holds
  <2>7. \A s \in Records \ {r} : rec'[s] = rec[s] /\ (rec[s].pid # None => rec[s].pid \in Procs)
    BY <2>1 DEF Only, PoolShape, RecordsOK, RecordSet
  <2>8. \A s \in Records \ {r} : Gone(s) => Gone(s)'
    BY <2>1, <2>7 DEF Gone
  <2>9. Stopped'
    <3>1. ASSUME NEW u \in Threads
          PROVE  /\ th'[u].pc = "start" => rec'[th'[u].in].pid = None
                 /\ th'[u].pc \in {"recycled", "start failed"} => Gone(th[u].in)'
                 /\ th'[u].pc = "retired" => Gone(th[u].victim)'
      <4>1. CASE u = t
        BY <2>2, <4>1 DEF Goes
      <4>2. CASE u # t
        <5>1. /\ th[u].pc \in {"start", "recycled", "start failed"} => th[u].in \in Records
              /\ th[u].pc = "retired" => th[u].victim \in Records
          BY ThreadFacts
        <5>2. /\ th[u].pc \in {"start", "recycled", "start failed"} => th[u].in \in Records \ {r}
              /\ th[u].pc = "retired" => th[u].victim \in Records \ {r}
          BY <2>6, <4>2, <5>1 DEF Holds
        <5>3. th'[u] = th[u]
          BY <2>2, <4>2 DEF Goes
        <5> QED BY <2>7, <2>8, <5>2, <5>3 DEF Custody, Stopped, Gone
      <4> QED BY <4>1, <4>2
    <3>2. /\ reaper'.in \in Records => Gone(reaper.in)'
          /\ main'.in \in Records => Gone(main.in)'
      BY <2>2, <2>6, <2>8 DEF Custody, Stopped, Gone
    <3> QED BY <3>1, <3>2 DEF Stopped
  <2>10. Recorded'
    <3>1. ASSUME NEW x \in Procs, Runs(x)' PROVE \E s \in Records : rec'[s].pid = x
      <4>1. CASE x = p
        BY <2>1, <4>1
      <4>2. CASE x # p
        <5>1. Runs(x)
          BY <2>1, <3>1, <4>2 DEF Runs
        <5>2. PICK s \in Records : rec[s].pid = x
          BY <5>1 DEF Custody, Recorded
        <5>3. s # r
          BY <2>6, <5>2, PoolNumbers
        <5> QED BY <2>7, <5>2, <5>3
      <4> QED BY <4>1, <4>2
    <3> QED BY <3>1 DEF Recorded
  <2> QED BY <2>5, <2>9, <2>10 DEF Custody
<1>3. CASE ReadPort(t)
  <2>1. /\ UNCHANGED <<map, made, proc, reaper, main>>
        /\ th[t].pc = "wait port" /\ Goes(t, "wait ping")
        /\ \A s \in Records : rec'[s].pid = rec[s].pid /\ rec'[s].mu = rec[s].mu
    BY <1>3, ReadPortFacts DEF Only
  <2>2. \A u \in Threads, s \in Records : Holds(u, s)' => Holds(u, s) /\ s # None
    BY <2>1, PoolNumbers DEF Holds, Goes
  <2>3. Locked' /\ Alone'
    BY <2>1, <2>2, NobodyLocks, PoolNumbers DEF Custody
  <2>4. \A u \in Threads : th'[u] = th[u] \/ th'[u].pc = "wait ping"
    BY <2>1 DEF Goes
  <2>5. Stopped'
    BY <2>1, <2>4, StoppedStays DEF Custody
  <2>6. Recorded'
    BY <2>1, NothingLost DEF Custody
  <2> QED BY <2>3, <2>5, <2>6 DEF Custody
<1> QED BY <1>1, <1>2, <1>3

\* The reaper.
LEMMA CustodyReaps ==
    ASSUME PoolShape, Custody, Tick \/ Reap
    PROVE  Custody'
<1>1. CASE Tick
  BY <1>1, TickFacts, CustodyQuiet
<1>2. CASE ReapIdled
  <2>1. PICK r \in Records : r = reaper.in /\ Only(r) /\ rec'[r].pid = None /\ ~rec'[r].mu
    BY <1>2, ReapIdledFacts
  <2>2. UNCHANGED <<made, proc, th, main>> /\ reaper'.in = None
    BY <1>2, ReapIdledFacts
  <2>3. /\ \A u \in Threads, s \in Records : Holds(u, s)' => Holds(u, s) /\ s # r
        /\ main.in # r /\ Gone(r)
    BY <2>1, <2>2 DEF Holds, Custody, Alone, Stopped
  <2>4. Locked' /\ Alone'
    BY <2>1, <2>2, <2>3, NobodyLocks, PoolNumbers DEF Custody, Only
  <2>5. \A s \in Records : rec'[s].pid \in {rec[s].pid, None}
    BY <2>1 DEF Only
  <2>6. Stopped'
    BY <2>2, <2>5, StoppedStays DEF Custody
  <2>7. Recorded'
    BY <2>1, <2>2, <2>3, NothingLost DEF Custody, Only, Gone
  <2> QED BY <2>4, <2>6, <2>7 DEF Custody
<1>3. ASSUME NEW r \in Records, ReapDead(r) PROVE Custody'
  <2>1. /\ UNCHANGED <<made, proc, th, main>> /\ reaper.in = None /\ reaper'.in = None
        /\ ~Runs(rec[r].pid) /\ Only(r) /\ rec'[r].pid = None /\ rec'[r].mu = rec[r].mu
    BY <1>3, ReapDeadFacts
  <2>2. \A u \in Threads, s \in Records : Holds(u, s)' => Holds(u, s) /\ s # None
    BY <2>1, PoolNumbers DEF Holds
  <2>3. \A s \in Records : rec'[s].mu = rec[s].mu /\ rec'[s].pid \in {rec[s].pid, None}
    BY <2>1 DEF Only
  <2>4. Locked' /\ Alone'
    BY <2>1, <2>2, <2>3, NobodyLocks, PoolNumbers DEF Custody
  <2>5. Stopped'
    BY <2>1, <2>3, StoppedStays DEF Custody
  <2>6. Recorded'
    BY <2>1, NothingLost DEF Custody, Only, Runs
  <2> QED BY <2>4, <2>5, <2>6 DEF Custody
<1>4. ASSUME NEW r \in Records, ReapSpares(r) PROVE Custody'
  BY <1>4, ReapSparesFacts, CustodyQuiet
<1>5. ASSUME NEW r \in Records, ReapIdle(r) PROVE Custody'
  <2>1. /\ UNCHANGED <<map, made, th, main>>
        /\ reaper.in = None /\ reaper'.in = r
        /\ ~rec[r].mu /\ rec'[r].mu /\ Only(r) /\ rec'[r].pid = rec[r].pid
        /\ proc' = Killed(rec[r].pid)
    BY <1>5, ReapIdleFacts
  <2>2. /\ \A u \in Threads, s \in Records : Holds(u, s)' => Holds(u, s)
        /\ \A u \in Threads : ~Holds(u, r)'
    BY <2>1 DEF Holds, Custody, Locked
  <2>3. Locked' /\ Alone'
    BY <2>1, <2>2, OneLocks DEF Custody
  <2>4. /\ Gone(r)'
        /\ \A p \in Procs : proc[p].state = "dead" => proc'[p].state = "dead"
        /\ \A p \in Procs : proc'[p].state \in {"booting", "up"} =>
                            proc[p].state \in {"booting", "up"}
    BY <2>1, KilledIsGone
  <2>5. /\ \A s \in Records : rec'[s].pid = rec[s].pid
        /\ Gone(reaper.in)'
    BY <2>1, <2>4 DEF Only, Gone
  <2>6. Stopped'
    BY <2>1, <2>4, <2>5, StoppedStays DEF Custody
  <2>7. Recorded'
    BY <2>4, <2>5, NothingLost DEF Custody
  <2> QED BY <2>3, <2>6, <2>7 DEF Custody
<1> QED BY <1>1, <1>2, <1>3, <1>4, <1>5 DEF Reap

\* The shutdown.
LEMMA CustodyShuts ==
    ASSUME PoolShape, Custody, Quit \/ Shutdown
    PROVE  Custody'
<1>1. CASE Quit
  BY <1>1, QuitFacts, CustodyQuiet
<1>2. CASE ShutdownDetach
  BY <1>2, ShutdownDetachFacts, CustodyQuiet
<1>3. CASE ShutdownDone
  BY <1>3, ShutdownDoneFacts, CustodyQuiet
<1>4. CASE ShutdownStopped
  <2>1. PICK r \in Records : r = main.in /\ Only(r) /\ rec'[r].pid = None /\ ~rec'[r].mu
    BY <1>4, ShutdownStoppedFacts
  <2>2. UNCHANGED <<made, proc, th, reaper>> /\ main'.in = None
    BY <1>4, ShutdownStoppedFacts
  <2>3. /\ \A u \in Threads, s \in Records : Holds(u, s)' => Holds(u, s) /\ s # r
        /\ reaper.in # r /\ Gone(r)
    BY <2>1, <2>2 DEF Holds, Custody, Alone, Stopped
  <2>4. Locked' /\ Alone'
    BY <2>1, <2>2, <2>3, NobodyLocks, PoolNumbers DEF Custody, Only
  <2>5. \A s \in Records : rec'[s].pid \in {rec[s].pid, None}
    BY <2>1 DEF Only
  <2>6. Stopped'
    BY <2>2, <2>5, StoppedStays DEF Custody
  <2>7. Recorded'
    BY <2>1, <2>2, <2>3, NothingLost DEF Custody, Only, Gone
  <2> QED BY <2>4, <2>6, <2>7 DEF Custody
<1>5. ASSUME NEW r \in Records, ShutdownStop(r) PROVE Custody'
  <2>1. /\ UNCHANGED <<map, made, th, reaper>>
        /\ main.in = None /\ main'.in = r
        /\ ~rec[r].mu /\ rec'[r].mu /\ Only(r) /\ rec'[r].pid = rec[r].pid
        /\ proc' = Killed(rec[r].pid)
    BY <1>5, ShutdownStopFacts
  <2>2. /\ \A u \in Threads, s \in Records : Holds(u, s)' => Holds(u, s)
        /\ \A u \in Threads : ~Holds(u, r)'
    BY <2>1 DEF Holds, Custody, Locked
  <2>3. Locked' /\ Alone'
    BY <2>1, <2>2, OneLocks DEF Custody
  <2>4. /\ Gone(r)'
        /\ \A p \in Procs : proc[p].state = "dead" => proc'[p].state = "dead"
        /\ \A p \in Procs : proc'[p].state \in {"booting", "up"} =>
                            proc[p].state \in {"booting", "up"}
    BY <2>1, KilledIsGone
  <2>5. /\ \A s \in Records : rec'[s].pid = rec[s].pid
        /\ Gone(main.in)'
    BY <2>1, <2>4 DEF Only, Gone
  <2>6. Stopped'
    BY <2>1, <2>4, <2>5, StoppedStays DEF Custody
  <2>7. Recorded'
    BY <2>4, <2>5, NothingLost DEF Custody
  <2> QED BY <2>3, <2>6, <2>7 DEF Custody
<1> QED BY <1>1, <1>2, <1>3, <1>4, <1>5 DEF Shutdown

\* The backends themselves.
LEMMA CustodyBackends ==
    ASSUME PoolShape, Custody, NEW p \in Procs, Bind(p) \/ Die(p)
    PROVE  Custody'
<1>1. /\ UNCHANGED <<map, rec, made, th, reaper, main>>
      /\ proc[p].state \in {"booting", "up"} /\ proc'[p].state \in {"up", "dead"}
      /\ \A x \in Procs \ {p} : proc'[x] = proc[x]
  BY BackendFacts
<1>2. Locked' /\ Alone'
  BY <1>1 DEF Custody, Locked, Alone, Holds
<1>3. /\ \A x \in Procs : proc[x].state = "dead" => proc'[x].state = "dead"
      /\ \A x \in Procs : proc'[x].state \in {"booting", "up"} =>
                          proc[x].state \in {"booting", "up"}
  BY <1>1
<1>4. Stopped'
  BY <1>1, <1>3, StoppedStays DEF Custody
<1>5. Recorded'
  BY <1>1, <1>3, NothingLost DEF Custody
<1> QED BY <1>2, <1>4, <1>5 DEF Custody

\* At first no process runs.
LEMMA CustodyInit == Init => Custody
<1> SUFFICES ASSUME Init PROVE Custody
  OBVIOUS
<1>1. \A t \in Threads : th[t].pc = "idle"
  BY DEF Init, IdleThread
<1>2. reaper.in = None /\ main.in = None /\ None \notin Records
  BY PoolNumbers DEF Init
<1>3. Recorded
  BY DEF Init, Recorded, Runs, NoProc
<1> QED BY <1>1, <1>2, <1>3 DEF Custody, Locked, Alone, Stopped, Holds

\* Every running process stays in the custody of a record.
LEMMA CustodyNext == PoolShape /\ Custody /\ [Next]_vars => Custody'
<1> SUFFICES ASSUME PoolShape, Custody, [Next]_vars PROVE Custody'
  OBVIOUS
<1>1. ASSUME NEW t \in Threads, Acquire(t) PROVE Custody'
  BY <1>1, CustodyLooks, CustodyLocks, CustodyUnlocks, CustodyKeeps DEF Acquire
<1>2. ASSUME NEW t \in Threads, Release(t) PROVE Custody'
  BY <1>2, CustodyLooks DEF Release
<1>3. ASSUME NEW t \in Threads, NEW a \in Accounts, Request(t, a) PROVE Custody'
  BY <1>3, CustodyLooks
<1>4. CASE Tick \/ Reap
  BY <1>4, CustodyReaps
<1>5. CASE Quit \/ Shutdown
  BY <1>5, CustodyShuts
<1>6. ASSUME NEW p \in Procs, Bind(p) \/ Die(p) PROVE Custody'
  BY <1>6, CustodyBackends
<1>7. CASE UNCHANGED vars
  BY <1>7 DEF vars, Custody, Locked, Alone, Stopped, Holds, Gone, Recorded, Runs
<1> QED BY <1>1, <1>2, <1>3, <1>4, <1>5, <1>6, <1>7 DEF Next, Done

\* Shape and custody hold in every behaviour.
LEMMA SpecCustody == Spec => [](PoolShape /\ Custody)
<1>1. Init => PoolShape /\ Custody
  BY PoolShapeInit, CustodyInit
<1>2. (PoolShape /\ Custody) /\ [Next]_vars => (PoolShape /\ Custody)'
  BY PoolShapeNext, CustodyNext
<1> QED BY <1>1, <1>2, PTL DEF Spec

-----------------------------------------------------------------------------
(* While there is a place for every account and the reaper has not run      *)

\* Nothing is evicted and nothing is reaped.
Quiet ==
    /\ reaper.todo = {} /\ reaper.in = None
    /\ \A t \in Threads : th[t].pc \notin {"evict", "retire", "retired"}

\* A record that is not detached is the record of its account.
InTheMap ==
    /\ \A r \in Records : r <= made /\ ~rec[r].detached => map[rec[r].name] = r
    /\ \A a \in Accounts : map[a] # None => ~rec[map[a]].detached

\* A detached record waits for the shutdown to stop it, or is stopped for good.
Doomed ==
    \A r \in Records : rec[r].detached =>
        r \in main.todo \/ r = main.in \/ (rec[r].pid = None /\ ~rec[r].mu)

\* How far the shutdown is.
Phases ==
    /\ main.pc \in {"running", "shutdown", "drain", "exited"} => main.todo = {} /\ main.in = None
    /\ main.pc \in {"running", "shutdown"} => \A r \in Records : ~rec[r].detached
    /\ main.pc \in {"last stop", "exited"} =>
         /\ \A t \in Threads : th[t].pc = "idle"
         /\ \A a \in Accounts : map[a] = None

Steady == Quiet /\ InTheMap /\ Doomed /\ Phases

\* At first the map is empty.
LEMMA SteadyInit == Init => Steady
<1> SUFFICES ASSUME Init PROVE Steady
  OBVIOUS
<1>1. Quiet
  BY DEF Init, Quiet, IdleThread
<1>2. \A r \in Records : ~rec[r].detached /\ ~(r <= made)
  BY PoolNumbers DEF Init, NewRecord
<1>3. InTheMap
  BY <1>2 DEF Init, InTheMap
<1>4. Doomed
  BY <1>2 DEF Doomed
<1>5. Phases
  BY <1>2 DEF Init, Phases
<1> QED BY <1>1, <1>3, <1>4, <1>5 DEF Steady

\* A thread moves, and leaves the records where they are.
LEMMA SteadyMoves ==
    ASSUME PoolShape, Steady, NEW t \in Threads,
           UNCHANGED <<map, made, reaper, main>>,
           \A u \in Threads \ {t} : th'[u] = th[u],
           th'[t].pc \notin {"evict", "retire", "retired"},
           main.pc = "running" \/ th[t].pc # "idle",
           \A s \in Records : rec'[s].name = rec[s].name /\ rec'[s].detached = rec[s].detached,
           \A s \in Records : rec[s].detached /\ rec[s].pid = None /\ ~rec[s].mu =>
                              rec'[s].pid = None /\ ~rec'[s].mu
    PROVE  Steady'
<1>1. Quiet'
  BY DEF Steady, Quiet
<1>2. InTheMap'
  BY PoolNumbers DEF Steady, InTheMap, PoolShape, MapOK
<1>3. Doomed'
  BY DEF Steady, Doomed
<1>4. main.pc \notin {"last stop", "exited"}
  BY DEF Steady, Phases
<1>5. Phases'
  BY <1>4 DEF Steady, Phases
<1> QED BY <1>1, <1>2, <1>3, <1>5 DEF Steady

\* Records keep their names, and the ticks are counted.
LEMMA UsedGrows ==
    ASSUME PoolShape, [Next]_vars
    PROVE  Used \subseteq Used' /\ (reaper'.ticks = 0 => reaper.ticks = 0)
<1> DEFINE Kept == /\ made' \in Nat /\ made <= made'
                   /\ \A r \in Records : r <= made => rec'[r].name = rec[r].name
           Ticks == reaper'.ticks = 0 => reaper.ticks = 0
<1>0. /\ made \in Nat /\ made <= MaxRecords /\ MaxRecords \in Nat
      /\ rec \in [Records -> RecordSet]
      /\ reaper \in [todo : SUBSET Records, in : Records \cup {None}, ticks : 0..MaxTicks]
  BY PoolAssumption DEF PoolShape, RecordsOK, OthersOK
<1>t. reaper.ticks \in Nat /\ MaxTicks \in Nat
  BY <1>0, PoolAssumption
<1>1. ASSUME Kept PROVE Used \subseteq Used'
  <2>1. ASSUME NEW r \in 1..made PROVE r \in 1..made' /\ rec'[r].name = rec[r].name
    BY <1>0, <1>1, <2>1 DEF Records
  <2> QED BY <2>1 DEF Used
<1>2. ASSUME NEW t \in Threads, Find(t) PROVE Kept /\ Ticks
  BY <1>0, <1>2, FindFacts DEF Only
<1>3. ASSUME UNCHANGED made, \A r \in Records : rec'[r].name = rec[r].name PROVE Kept
  BY <1>0, <1>3
<1>4. ASSUME NEW t \in Threads, Acquire(t) \/ Release(t), ~Find(t) PROVE Kept /\ Ticks
  <2>1. CASE DetachVictim(t) \/ NoVictim(t) \/ SpareVictim(t) \/ RetireVictim(t)
    BY <1>0, <1>3, <2>1
       DEF DetachVictim, NoVictim, SpareVictim, RetireVictim, Move, RecordSet
  <2>2. CASE VictimGone(t) \/ Lock(t) \/ Reuse(t) \/ Recycle(t) \/ Recycled(t)
    BY <1>0, <1>3, <2>2
       DEF VictimGone, Lock, Reuse, Recycle, Recycled, HandOut, Forget, Move, RecordSet
  <2>3. CASE Fork(t) \/ ReadPort(t) \/ Started(t)
    BY <1>3, <2>3, ForkFacts, ReadPortFacts, ServeFacts DEF Only
  <2>4. CASE StartFails(t) \/ Refused(t) \/ Answered(t) \/ Unref(t)
    BY <1>3, <2>4, KillFacts, StopFacts, AnsweredFacts, UnrefFacts DEF Only
  <2> QED BY <1>4, <2>1, <2>2, <2>3, <2>4 DEF Acquire, Release
<1>5. ASSUME NEW t \in Threads, NEW a \in Accounts, Request(t, a) PROVE Kept /\ Ticks
  BY <1>0, <1>3, <1>5 DEF Request
<1>4a. ASSUME reaper'.ticks \in {reaper.ticks, reaper.ticks + 1} PROVE Ticks
  BY <1>t, <1>4a
<1>6. ASSUME Tick \/ Quit PROVE Kept /\ Ticks
  <2>1. UNCHANGED <<rec, made>>
    BY <1>6 DEF Tick, Quit
  <2>2. reaper'.ticks \in {reaper.ticks, reaper.ticks + 1}
    BY <1>0, <1>6 DEF Tick, Quit
  <2> QED BY <1>3, <1>4a, <2>1, <2>2
<1>7. ASSUME Reap PROVE Kept /\ Ticks
  <2>1. UNCHANGED made /\ reaper'.ticks = reaper.ticks
    BY <1>0, <1>7 DEF Reap, ReapIdled, ReapDead, ReapSpares, ReapIdle, Forget
  <2>2. ASSUME ReapIdled PROVE \A r \in Records : rec'[r].name = rec[r].name
    BY <1>0, <2>2 DEF ReapIdled, Forget, RecordSet
  <2>3. ASSUME NEW r \in Records, ReapDead(r) PROVE \A s \in Records : rec'[s].name = rec[s].name
    <3>1. PICK w : w = IF rec[r].pid # None THEN None ELSE rec[r].port
      OBVIOUS
    <3>2. rec' = [rec EXCEPT ![r].pid = None, ![r].port = w]
      BY <2>3, <3>1 DEF ReapDead
    <3> QED BY <1>0, <3>2 DEF RecordSet
  <2>4. ASSUME NEW r \in Records, ReapSpares(r) \/ ReapIdle(r)
        PROVE  \A s \in Records : rec'[s].name = rec[s].name
    BY <1>0, <2>4 DEF ReapSpares, ReapIdle, RecordSet
  <2> QED BY <1>3, <1>4a, <1>7, <2>1, <2>2, <2>3, <2>4 DEF Reap
<1>8. ASSUME Shutdown PROVE Kept /\ Ticks
  <2>1. UNCHANGED <<made, reaper>>
    BY <1>8 DEF Shutdown, ShutdownDetach, ShutdownStopped, ShutdownDone, ShutdownStop
  <2>2. \A r \in Records : rec'[r].name = rec[r].name
    BY <1>8, ShutdownDetachFacts, ShutdownStoppedFacts, ShutdownDoneFacts, ShutdownStopFacts
       DEF Shutdown, Only
  <2> QED BY <1>3, <1>4a, <2>1, <2>2
<1>9. ASSUME NEW p \in Procs, Bind(p) \/ Die(p) PROVE Kept /\ Ticks
  BY <1>0, <1>3, <1>9 DEF Bind, Die
<1>10. CASE UNCHANGED vars
  BY <1>0, <1>1, <1>3, <1>10 DEF vars
<1> QED BY <1>1, <1>2, <1>4, <1>5, <1>6, <1>7, <1>8, <1>9, <1>10 DEF Next, Done

\* The accounts that have had a record are finitely many.
LEMMA UsedIsFinite == PoolShape => IsFiniteSet(Used) /\ Used \subseteq Accounts
<1> SUFFICES ASSUME PoolShape PROVE IsFiniteSet(Used) /\ Used \subseteq Accounts
  OBVIOUS
<1>1. made \in Nat /\ \A r \in 1..made : r \in Records /\ rec[r].name \in Accounts
  BY PoolAssumption DEF PoolShape, RecordsOK, Records
<1>2. IsFiniteSet(1..made)
  BY <1>1, FS_Interval
<1>3. [r \in 1..made |-> rec[r].name] \in Surjection(1..made, Used)
  BY DEF Surjection, Used
<1> QED BY <1>1, <1>2, <1>3, FS_Surjection DEF Used

\* Room was there before, too.
LEMMA RoomyBefore == PoolShape /\ PoolShape' /\ [Next]_vars /\ Roomy' => Roomy
<1> SUFFICES ASSUME PoolShape, PoolShape', [Next]_vars, Roomy' PROVE Roomy
  OBVIOUS
<1>1. IsFiniteSet(Used')
  <2>1. (PoolShape => IsFiniteSet(Used) /\ Used \subseteq Accounts)'
    BY UsedIsFinite, PTL
  <2> QED BY <2>1
<1>2. Used \subseteq Used' /\ reaper.ticks = 0
  BY UsedGrows DEF Roomy
<1>3. IsFiniteSet(Used) /\ Cardinality(Used) <= Cardinality(Used')
  BY <1>1, <1>2, FS_Subset
<1> QED BY <1>1, <1>2, <1>3, FS_CardinalityType, PoolAssumption DEF Roomy

\* There is a place for every account used.
LEMMA RoomForAll ==
    ASSUME PoolShape, NEW U, IsFiniteSet(U), Used \subseteq U, U \subseteq Accounts,
           Cardinality(U) <= MaxInstances, NEW a \in U, map[a] \notin Live
    PROVE  ~(Cardinality(Live) >= MaxInstances)
<1> DEFINE S == U \ {a}
           T == {map[x] : x \in S}
           f == [x \in S |-> map[x]]
<1>1. IsFiniteSet(S) /\ Cardinality(S) = Cardinality(U) - 1
  BY FS_RemoveElement
<1>2. f \in Surjection(S, T)
  BY DEF Surjection
<1>3. IsFiniteSet(T) /\ Cardinality(T) <= Cardinality(S)
  BY <1>1, <1>2, FS_Surjection
<1>4. Live \subseteq T
  <2>1. ASSUME NEW r \in Live PROVE r \in T
    <3>1. PICK b \in Accounts : r = map[b] /\ r # None
      BY DEF Live, Mapped
    <3>2. r \in 1..made /\ rec[r].name = b
      BY <3>1, PoolNumbers DEF PoolShape, RecordsOK, MapOK, Records
    <3>3. b \in S
      BY <3>1, <3>2 DEF Used
    <3> QED BY <3>1, <3>3
  <2> QED BY <2>1
<1>5. Cardinality(Live) <= Cardinality(T) /\ IsFiniteSet(Live)
  BY <1>3, <1>4, FS_Subset
<1>6. /\ Cardinality(Live) \in Nat /\ Cardinality(T) \in Nat /\ Cardinality(S) \in Nat
      /\ Cardinality(U) \in Nat /\ MaxInstances \in Nat
  BY <1>1, <1>3, <1>5, FS_CardinalityType, PoolNumbers
<1> QED BY <1>1, <1>3, <1>5, <1>6

\* With a place for every account the pool is never full.
LEMMA SteadyFind ==
    ASSUME PoolShape, PoolShape', Steady, Used \subseteq Used', IsFiniteSet(Used'),
           Used' \subseteq Accounts, Cardinality(Used') <= MaxInstances,
           NEW t \in Threads, Find(t)
    PROVE  Steady'
<1>1. PICK r \in Records :
        /\ th[t].pc = "lookup" /\ th'[t].pc \in {"evict", "lock"} /\ th'[t].in = r
        /\ th'[t].pc = "evict" => /\ rec[r].pid = None
                                  /\ Cardinality(Live) >= MaxInstances
        /\ \A u \in Threads \ {t} : th'[u] = th[u]
        /\ Only(r) /\ map' = [map EXCEPT ![th[t].name] = r]
        /\ rec'[r].name = th[t].name
        /\ \/ r = map[th[t].name] /\ ~rec[r].detached /\ rec' = rec /\ made' = made
           \/ /\ r = made + 1 /\ rec[r].pid = None /\ made' = r
              /\ map[th[t].name] = None \/ rec[map[th[t].name]].detached
              /\ rec'[r] = NewRecord(th[t].name)
  BY FindFacts
<1>2. PICK a \in Accounts : a = th[t].name
  BY <1>1, ThreadFacts DEF ThreadOK
<1>3. UNCHANGED <<proc, reaper, main>>
  BY FindFacts
<1>4. /\ main.pc \notin {"last stop", "exited"}
      /\ map \in [Accounts -> Records \cup {None}]
  BY <1>1 DEF Steady, Phases, PoolShape, MapOK
<1>5. map[a] = r \/ map[a] = None
  BY <1>1, <1>2 DEF Steady, InTheMap
<1>6. th'[t].pc # "evict"
  <2>1. ASSUME th'[t].pc = "evict" PROVE FALSE
    <3>1. map[a] \notin Live
      BY <1>1, <1>5, <2>1 DEF Live, Mapped
    <3>2. a \in Used'
      <4>1. r \in 1..made' /\ rec'[r].name = a
        <5>1. CASE r = made + 1 /\ made' = r
          BY <1>1, <1>2, <5>1 DEF PoolShape, RecordsOK
        <5>2. CASE r = map[th[t].name] /\ made' = made
          BY <1>1, <1>2, <5>2, PoolNumbers DEF PoolShape, RecordsOK, MapOK, Records
        <5> QED BY <1>1, <5>1, <5>2
      <4> QED BY <4>1 DEF Used
    <3> QED BY <1>1, <2>1, <3>1, <3>2, RoomForAll
  <2> QED BY <2>1
<1>7. Quiet'
  BY <1>1, <1>3, <1>6 DEF Steady, Quiet
<1>8. ~rec'[r].detached /\ map'[a] = r /\ \A b \in Accounts \ {a} : map'[b] = map[b]
  <2>1. CASE rec' = rec /\ ~rec[r].detached
    BY <1>1, <1>2, <1>4, <2>1
  <2>2. CASE rec'[r] = NewRecord(th[t].name)
    <3>1. ~rec'[r].detached
      BY <2>2 DEF NewRecord
    <3> QED BY <1>1, <1>2, <1>4, <3>1
  <2> QED BY <1>1, <2>1, <2>2
<1>9. InTheMap'
  <2>1. ASSUME NEW s \in Records, s <= made', ~rec'[s].detached PROVE map'[rec'[s].name] = s
    <3>1. CASE s = r
      BY <1>1, <1>2, <1>8, <3>1
    <3>2. CASE s # r
      <4>1. s <= made /\ rec'[s] = rec[s] /\ rec[s].name \in Accounts
        BY <1>1, <2>1, <3>2, OneMoreMade DEF Only, PoolShape, RecordsOK
      <4>2. map[rec[s].name] = s
        BY <2>1, <4>1 DEF Steady, InTheMap
      <4>3. rec[s].name # a
        BY <1>5, <3>2, <4>2, PoolNumbers
      <4> QED BY <1>8, <4>1, <4>2, <4>3
    <3> QED BY <3>1, <3>2
  <2>2. ASSUME NEW b \in Accounts, map'[b] # None PROVE ~rec'[map'[b]].detached
    <3>1. CASE b = a
      BY <1>8, <3>1
    <3>2. CASE b # a
      <4>1. map'[b] = map[b] /\ map[b] \in Records /\ ~rec[map[b]].detached
        BY <1>4, <1>8, <2>2, <3>2 DEF Steady, InTheMap
      <4>2. CASE map[b] = r
        BY <1>8, <4>1, <4>2
      <4>3. CASE map[b] # r
        BY <1>1, <4>1, <4>3 DEF Only
      <4> QED BY <4>2, <4>3
    <3> QED BY <3>1, <3>2
  <2> QED BY <2>1, <2>2 DEF InTheMap
<1>10. Doomed'
  BY <1>1, <1>3, <1>8 DEF Steady, Doomed, Only
<1>11. Phases'
  BY <1>1, <1>3, <1>4, <1>8 DEF Steady, Phases, Only
<1> QED BY <1>7, <1>9, <1>10, <1>11 DEF Steady

\* The other steps of a request thread.
LEMMA SteadyThread ==
    ASSUME PoolShape, Custody, Steady, NEW t \in Threads,
           \/ Acquire(t) /\ ~Find(t)
           \/ Release(t)
           \/ \E a \in Accounts : Request(t, a)
    PROVE  Steady'
<1>0. th[t].pc \notin {"evict", "retire", "retired"}
  BY DEF Steady, Quiet
<1>1. CASE Lock(t)
  <2>1. PICK r \in Records :
          /\ r = th[t].in /\ ~rec[r].mu
          /\ \/ rec[r].detached /\ UNCHANGED rec /\ Goes(t, "lookup")
             \/ /\ ~rec[r].detached /\ Only(r) /\ rec'[r].mu /\ rec'[r].pid = rec[r].pid
                /\ rec'[r].detached = rec[r].detached /\ rec'[r].name = rec[r].name
                /\ \/ Goes(t, "check")
                   \/ Goes(t, "start") /\ rec[r].pid = None
    BY <1>1, LockFacts
  <2>2. UNCHANGED <<map, made, proc, reaper, main>> /\ th[t].pc = "lock"
    BY <1>1, LockFacts
  <2>3. \A s \in Records :
          /\ rec'[s].name = rec[s].name /\ rec'[s].detached = rec[s].detached
          /\ rec[s].detached => rec'[s] = rec[s]
    BY <2>1 DEF Only
  <2> QED BY <2>1, <2>2, <2>3, SteadyMoves DEF Goes
<1>2. CASE Reuse(t) \/ Started(t)
  <2>1. /\ UNCHANGED <<map, made, proc, reaper, main>> /\ th[t].pc # "idle" /\ Goes(t, "serving")
        /\ \A s \in Records :
             /\ rec'[s].name = rec[s].name /\ rec'[s].detached = rec[s].detached
             /\ rec'[s].pid = rec[s].pid /\ (~rec[s].mu => ~rec'[s].mu)
    BY <1>2, ServeFacts DEF Only
  <2> QED BY <2>1, SteadyMoves DEF Goes
<1>3. CASE Recycled(t) \/ Refused(t)
  <2>1. /\ UNCHANGED <<map, made, proc, reaper, main>> /\ th[t].pc # "idle"
        /\ th'[t].pc \in {"lookup", "idle"}
        /\ \A u \in Threads \ {t} : th'[u] = th[u]
        /\ \A s \in Records :
             /\ rec'[s].name = rec[s].name /\ rec'[s].detached = rec[s].detached
             /\ rec'[s].pid \in {rec[s].pid, None} /\ (~rec[s].mu => ~rec'[s].mu)
    BY <1>0, <1>3, StopFacts DEF Only, Goes
  <2> QED BY <2>1, SteadyMoves
<1>4. CASE Recycle(t) \/ StartFails(t)
  <2>1. /\ UNCHANGED <<map, rec, made, reaper, main>> /\ th[t].pc # "idle"
        /\ th'[t].pc \in {"recycled", "start failed"}
        /\ \A u \in Threads \ {t} : th'[u] = th[u]
    BY <1>4, KillFacts DEF Goes
  <2> QED BY <2>1, SteadyMoves
<1>5. CASE Fork(t)
  <2>1. PICK r \in Records :
          /\ r = th[t].in /\ Only(r)
          /\ rec'[r].detached = rec[r].detached /\ rec'[r].mu = rec[r].mu
          /\ rec'[r].name = rec[r].name
    BY <1>5, ForkFacts
  <2>2. UNCHANGED <<map, made, reaper, main>> /\ th[t].pc = "start" /\ Goes(t, "wait port")
    BY <1>5, ForkFacts
  <2>3. rec[r].mu
    BY <2>1, <2>2 DEF Custody, Locked, Holds
  <2>4. \A s \in Records :
          /\ rec'[s].name = rec[s].name /\ rec'[s].detached = rec[s].detached
          /\ ~rec[s].mu => rec'[s] = rec[s]
    BY <2>1, <2>3 DEF Only
  <2> QED BY <2>2, <2>4, SteadyMoves DEF Goes
<1>6. CASE ReadPort(t)
  <2>1. /\ UNCHANGED <<map, made, proc, reaper, main>> /\ th[t].pc # "idle"
        /\ Goes(t, "wait ping")
        /\ \A s \in Records :
             /\ rec'[s].name = rec[s].name /\ rec'[s].detached = rec[s].detached
             /\ rec'[s].pid = rec[s].pid /\ rec'[s].mu = rec[s].mu
    BY <1>6, ReadPortFacts DEF Only
  <2> QED BY <2>1, SteadyMoves DEF Goes
<1>7. CASE Unref(t)
  <2>1. /\ UNCHANGED <<map, made, proc, reaper, main>> /\ th[t].pc # "idle" /\ Goes(t, "idle")
        /\ \A s \in Records :
             /\ rec'[s].name = rec[s].name /\ rec'[s].detached = rec[s].detached
             /\ rec'[s].pid = rec[s].pid /\ rec'[s].mu = rec[s].mu
    BY <1>7, UnrefFacts DEF Only
  <2> QED BY <2>1, SteadyMoves DEF Goes
<1>8. CASE Answered(t)
  BY <1>8, AnsweredFacts, SteadyMoves
<1>9. CASE \E a \in Accounts : Request(t, a)
  BY <1>9, RequestFacts, SteadyMoves
<1>10. ~DetachVictim(t) /\ ~NoVictim(t) /\ ~SpareVictim(t) /\ ~RetireVictim(t) /\ ~VictimGone(t)
  BY <1>0 DEF DetachVictim, NoVictim, SpareVictim, RetireVictim, VictimGone, At
<1> QED BY <1>1, <1>2, <1>3, <1>4, <1>5, <1>6, <1>7, <1>8, <1>9, <1>10 DEF Acquire, Release

\* The shutdown.
LEMMA SteadyShuts ==
    ASSUME PoolShape, Custody, Steady, Quit \/ Shutdown
    PROVE  Steady'
<1>1. CASE Quit
  <2>1. /\ UNCHANGED <<map, rec, made, proc, th, reaper>>
        /\ main.pc = "running" /\ main'.pc = "shutdown"
        /\ main'.todo = main.todo /\ main'.in = main.in
    BY <1>1, QuitFacts
  <2> QED BY <2>1 DEF Steady, Quiet, InTheMap, Doomed, Phases
<1>2. CASE ShutdownDetach
  <2>1. /\ UNCHANGED <<made, proc, th, reaper>>
        /\ \/ main.pc = "shutdown" /\ main'.pc = "stop"
           \/ main.pc = "drain" /\ main'.pc = "last stop" /\ \A t \in Threads : At(t, "idle")
        /\ main'.todo = Mapped /\ main'.in = main.in
        /\ \A a \in Accounts : map'[a] = None
        /\ \A s \in Records : /\ rec'[s].pid = rec[s].pid /\ rec'[s].mu = rec[s].mu
                              /\ rec'[s].name = rec[s].name
                              /\ rec'[s].detached = (rec[s].detached \/ s \in Mapped)
    BY <1>2, ShutdownDetachFacts
  <2>2. main.todo = {} /\ main.in = None
    BY <2>1 DEF Steady, Phases
  <2>3. \A s \in Records : s <= made => rec'[s].detached
    <3>1. ASSUME NEW s \in Records, s <= made, ~rec[s].detached PROVE s \in Mapped
      <4>1. rec[s].name \in Accounts
        BY <3>1 DEF PoolShape, RecordsOK
      <4>2. map[rec[s].name] = s /\ s # None
        BY <3>1, PoolNumbers DEF Steady, InTheMap
      <4> QED BY <4>1, <4>2 DEF Mapped
    <3> QED BY <2>1, <3>1
  <2>4. InTheMap'
    BY <2>1, <2>3 DEF InTheMap
  <2>5. Doomed'
    BY <2>1, <2>2, PoolNumbers DEF Steady, Doomed
  <2>6. Quiet' /\ Phases'
    BY <2>1, <2>2 DEF Steady, Quiet, Phases, At
  <2> QED BY <2>4, <2>5, <2>6 DEF Steady
<1>3. ASSUME NEW r \in Records, ShutdownStop(r) PROVE Steady'
  <2>1. /\ UNCHANGED <<map, made, th, reaper>>
        /\ main.in = None /\ main'.in = r /\ r \in main.todo /\ main'.todo = main.todo \ {r}
        /\ main'.pc = main.pc /\ Only(r)
        /\ rec'[r].detached = rec[r].detached /\ rec'[r].name = rec[r].name
    BY <1>3, ShutdownStopFacts
  <2>2. \A s \in Records : rec'[s].detached = rec[s].detached /\ rec'[s].name = rec[s].name
    BY <2>1 DEF Only
  <2>3. InTheMap'
    BY <2>1, <2>2, PoolNumbers DEF Steady, InTheMap, PoolShape, MapOK
  <2>4. Doomed'
    BY <2>1, <2>2, PoolNumbers DEF Steady, Doomed, Only
  <2>5. Quiet' /\ Phases'
    BY <2>1, <2>2 DEF Steady, Quiet, Phases
  <2> QED BY <2>3, <2>4, <2>5 DEF Steady
<1>4. CASE ShutdownStopped
  <2>1. /\ UNCHANGED <<map, made, proc, th, reaper>>
        /\ main.in # None /\ main'.in = None /\ main'.todo = main.todo /\ main'.pc = main.pc
    BY <1>4, ShutdownStoppedFacts
  <2>2. PICK r \in Records : /\ r = main.in /\ Only(r) /\ rec'[r].pid = None /\ ~rec'[r].mu
                             /\ rec'[r].detached = rec[r].detached
                             /\ rec'[r].name = rec[r].name
    BY <1>4, ShutdownStoppedFacts
  <2>3. \A s \in Records : rec'[s].detached = rec[s].detached /\ rec'[s].name = rec[s].name
    BY <2>2 DEF Only
  <2>4. InTheMap'
    BY <2>1, <2>3, PoolNumbers DEF Steady, InTheMap, PoolShape, MapOK
  <2>5. Doomed'
    BY <2>1, <2>2, <2>3 DEF Steady, Doomed, Only
  <2>6. Quiet' /\ Phases'
    BY <2>1, <2>3 DEF Steady, Quiet, Phases
  <2> QED BY <2>4, <2>5, <2>6 DEF Steady
<1>5. CASE ShutdownDone
  <2>1. /\ UNCHANGED <<map, rec, made, proc, th, reaper>>
        /\ \/ main.pc = "stop" /\ main'.pc = "drain"
           \/ main.pc = "last stop" /\ main'.pc = "exited"
        /\ main.todo = {} /\ main.in = None /\ main'.todo = {} /\ main'.in = None
    BY <1>5, ShutdownDoneFacts
  <2>2. InTheMap' /\ Doomed'
    BY <2>1 DEF Steady, InTheMap, Doomed
  <2>3. Quiet' /\ Phases'
    BY <2>1 DEF Steady, Quiet, Phases
  <2> QED BY <2>2, <2>3 DEF Steady
<1> QED BY <1>1, <1>2, <1>3, <1>4, <1>5 DEF Shutdown

\* Without eviction and reaper only the shutdown takes records from the map.
LEMMA SteadyNext ==
    PoolShape /\ Custody /\ (Roomy => Steady) /\ [Next]_vars => (Roomy' => Steady')
<1> SUFFICES ASSUME PoolShape, Custody, Roomy => Steady, [Next]_vars, Roomy' PROVE Steady'
  OBVIOUS
<1>0. PoolShape'
  BY PoolShapeNext
<1>00. Steady
  BY <1>0, RoomyBefore
<1>1. ASSUME NEW t \in Threads, Acquire(t) \/ Release(t) PROVE Steady'
  <2>1. IsFiniteSet(Used') /\ Used' \subseteq Accounts
    <3>1. (PoolShape => IsFiniteSet(Used) /\ Used \subseteq Accounts)'
      BY UsedIsFinite, PTL
    <3> QED BY <1>0, <3>1
  <2>2. Used \subseteq Used' /\ Cardinality(Used') <= MaxInstances
    BY UsedGrows DEF Roomy
  <2> QED BY <1>0, <1>00, <1>1, <2>1, <2>2, SteadyFind, SteadyThread
<1>2. ASSUME NEW t \in Threads, NEW a \in Accounts, Request(t, a) PROVE Steady'
  BY <1>00, <1>2, SteadyThread
<1>3. ~Tick
  <2>1. ASSUME Tick PROVE FALSE
    <3>1. reaper \in [todo : SUBSET Records, in : Records \cup {None}, ticks : 0..MaxTicks]
      BY DEF PoolShape, OthersOK
    <3>2. reaper.ticks \in Nat /\ reaper'.ticks = reaper.ticks + 1
      BY <2>1, <3>1, PoolAssumption DEF Tick
    <3> QED BY <3>2 DEF Roomy
  <2> QED BY <2>1
<1>4. ~Reap
  BY <1>00 DEF Reap, ReapIdled, ReapDead, ReapSpares, ReapIdle, Steady, Quiet
<1>5. CASE Quit \/ Shutdown
  BY <1>00, <1>5, SteadyShuts
<1>6. ASSUME NEW p \in Procs, Bind(p) \/ Die(p) PROVE Steady'
  <2>1. UNCHANGED <<map, rec, made, th, reaper, main>>
    BY <1>6, BackendFacts
  <2> QED BY <1>00, <2>1 DEF Steady, Quiet, InTheMap, Doomed, Phases
<1>7. CASE UNCHANGED vars
  BY <1>00, <1>7 DEF vars, Steady, Quiet, InTheMap, Doomed, Phases
<1> QED BY <1>1, <1>2, <1>3, <1>4, <1>5, <1>6, <1>7 DEF Next, Done

\* So it is in every behaviour.
LEMMA SpecSteady == Spec => [](PoolShape /\ Custody /\ (Roomy => Steady))
<1>1. Init => (Roomy => Steady)
  BY SteadyInit
<1>2. PoolShape /\ Custody /\ (Roomy => Steady) /\ [Next]_vars => (Roomy => Steady)'
  BY SteadyNext
<1>3. Spec => [](PoolShape /\ Custody)
  BY SpecCustody
<1> QED BY <1>1, <1>2, <1>3, PTL DEF Spec

\* Until something is evicted or reaped, a backend that runs can be found: its record
\* is its account's, or the shutdown that has taken it out of the map will stop it.
LEMMA Findable ==
    ASSUME PoolShape, Custody, Steady, NEW p \in Procs, Runs(p)
    PROVE  \E r \in Mapped \cup main.todo : rec[r].pid = p
<1>1. PICK r \in Records : rec[r].pid = p
  BY DEF Custody, Recorded
<1>2. rec[r].pid # None
  BY <1>1, PoolNumbers
<1>3. r <= made /\ rec[r].name \in Accounts
  BY <1>2 DEF PoolShape, RecordsOK
<1>4. CASE ~rec[r].detached
  <2>1. map[rec[r].name] = r /\ r # None
    BY <1>3, <1>4, PoolNumbers DEF Steady, InTheMap
  <2> QED BY <1>1, <1>3, <2>1 DEF Mapped
<1>5. CASE rec[r].detached
  <2>1. r # main.in
    BY <1>1, <1>2, PoolNumbers DEF Custody, Stopped, Gone, Runs
  <2> QED BY <1>1, <1>2, <1>5, <2>1 DEF Steady, Doomed
<1> QED BY <1>4, <1>5

\* For any accounts, threads and limit, until something is evicted or reaped: a
\* backend that runs is the backend of its account's record, where the next acquire,
\* the reaper and the shutdown will find it, or one that the shutdown has listed.
THEOREM NoBackendIsLost == Spec => []NoLostBackend
<1>1. PoolShape /\ Custody /\ (Roomy => Steady) => NoLostBackend
  BY Findable DEF NoLostBackend
<1> QED BY <1>1, SpecSteady, PTL

\* Until something is evicted or reaped: the record a request was handed stays its
\* account's record until it is released, so that release, which goes by account
\* name, counts down the record acquire counted up.  (With an eviction or a reap it
\* may not: the runs inflight and orphan.)
THEOREM ServingIsProtected == Spec => []RoomyProtects
<1>1. PoolShape /\ Custody /\ (Roomy => Steady) => RoomyProtects
  <2> SUFFICES ASSUME PoolShape, Steady, NEW t \in Threads, At(t, "serving"),
                      main.pc = "running"
               PROVE  map[th[t].name] = th[t].in
    BY DEF RoomyProtects, InflightProtects
  <2>1. th[t].in \in Records /\ th[t].in <= made /\ rec[th[t].in].name = th[t].name
    BY ThreadFacts DEF At
  <2>2. ~rec[th[t].in].detached
    BY <2>1 DEF Steady, Phases
  <2> QED BY <2>1, <2>2 DEF Steady, InTheMap
<1> QED BY <1>1, SpecSteady, PTL

\* Under the same condition: once the gateway has exited no backend runs, because
\* shutdown_all is run a second time when the last connection thread is gone, and
\* what a thread started in between is in the map again.
THEOREM NoBackendOutlives == Spec => []RoomyLeavesNothing
<1>1. PoolShape /\ Custody /\ (Roomy => Steady) => RoomyLeavesNothing
  <2> SUFFICES ASSUME PoolShape, Custody, Steady, main.pc = "exited",
                      NEW p \in Procs, Runs(p)
               PROVE  FALSE
    BY DEF RoomyLeavesNothing, NothingOutlivesTheGateway
  <2>1. Mapped = {} /\ main.todo = {}
    BY DEF Steady, Phases, Mapped
  <2> QED BY <2>1, Findable
<1> QED BY <1>1, SpecSteady, PTL
=============================================================================
