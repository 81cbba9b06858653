--------------------------- MODULE HttpServerProofs ---------------------------
(***************************************************************************)
(* Proofs about the HTTP server: for any number of connections, handles,   *)
(* slots and requests, on both platforms.                                  *)
(***************************************************************************)
EXTENDS HttpServer, FiniteSetTheorems, TLAPS

HsPcs == {"away", "taken", "over"} \cup HsInside

HsTypeOK ==
    /\ hsPlatform \in {"posix", "windows"}
    /\ hsConn \in [HsConns -> [pc : HsPcs, handle : HsHandles \cup {0}, kind : HsKinds]]
    /\ hsAccept \in [pc : {"look", "poll", "admit", "end", "over"}, conn : HsConns \cup {HsNone}]
    /\ hsSlots \in Nat
    /\ hsLock \in HsConns \cup {HsNone}
    /\ hsPipe \in [HsConns -> {"quiet"} \cup HsKinds]
    /\ hsSocket \in [HsHandles -> HsConns \cup {HsNone}]
    /\ \A k \in HsConns : hsConn[k].pc \notin {"away", "over"} => hsConn[k].handle \in HsHandles

-----------------------------------------------------------------------------
(* Slots                                                                   *)

\* Threads that have a slot: ~Release gives it back before it lets go of conn_mu.
Slotted == {k \in HsConns : hsConn[k].pc \in HsInside \ {"unlock"}}

SlotsCount == IsFiniteSet(Slotted) /\ hsSlots = Cardinality(Slotted)

\* Only a thread that has given its slot back holds conn_mu between two steps.
LockKnown == \A k \in HsConns : HsAt(k, "unlock") <=> hsLock = k

\* The accept loop holds a connection that has no thread yet.
TakenKnown ==
    hsAccept.pc = "admit" => hsAccept.conn \in HsConns /\ HsAt(hsAccept.conn, "taken")

AcceptJoined == hsMain \in {"drain", "gone"} => hsAccept.pc = "over"

HsSlotInv ==
    HsTypeOK /\ SlotsCount /\ LockKnown /\ TakenKnown /\ AcceptJoined

\* At first no slot is taken.
LEMMA HsSlotInit == HsInit => HsSlotInv
<1> SUFFICES ASSUME HsInit PROVE HsSlotInv
  OBVIOUS
<1>1. HsTypeOK
  BY HsConstants DEF HsInit, HsTypeOK, HsAway, HsPcs, HsKinds
<1>2. \A k \in HsConns : hsConn[k].pc = "away"
  BY DEF HsInit, HsAway
<1>3. Slotted = {}
  BY <1>2 DEF Slotted, HsInside
<1>4. SlotsCount
  BY <1>3, FS_EmptySet DEF SlotsCount, HsInit
<1> QED BY <1>1, <1>2, <1>4, HsConstants DEF HsInit, HsSlotInv, LockKnown, HsAt, TakenKnown,
        AcceptJoined

\* A step of thread k between two places where it holds its slot and not the lock.
LEMMA HsMoves ==
    ASSUME HsSlotInv, NEW k \in HsConns, NEW pc \in HsInside \ {"unlock"},
           NEW kind \in HsKinds, hsConn[k].pc \in HsInside \ {"unlock"},
           hsConn' = [hsConn EXCEPT ![k].pc = pc, ![k].kind = kind],
           hsPipe' \in [HsConns -> {"quiet"} \cup HsKinds],
           hsSocket' \in [HsHandles -> HsConns \cup {HsNone}],
           UNCHANGED <<hsPlatform, hsAccept, hsSlots, hsLock>>,
           hsMain' = hsMain \/ hsMain' = "exited"
    PROVE  HsSlotInv'
<1>1. /\ \A j \in HsConns \ {k} : hsConn'[j] = hsConn[j]
      /\ hsConn'[k].pc = pc /\ hsConn'[k].handle = hsConn[k].handle
  BY DEF HsSlotInv, HsTypeOK
<1>2. HsTypeOK'
  <2>1. hsConn[k].handle \in HsHandles
    BY DEF HsSlotInv, HsTypeOK, HsInside
  <2>2. \A j \in HsConns : hsConn'[j].pc \notin {"away", "over"} => hsConn'[j].handle \in HsHandles
    BY <1>1, <2>1 DEF HsSlotInv, HsTypeOK
  <2>3. hsConn' \in [HsConns -> [pc : HsPcs, handle : HsHandles \cup {0}, kind : HsKinds]]
    <3>1. hsConn[k] \in [pc : HsPcs, handle : HsHandles \cup {0}, kind : HsKinds] /\ pc \in HsPcs
      BY DEF HsSlotInv, HsTypeOK, HsPcs
    <3>2. [hsConn[k] EXCEPT !.pc = pc, !.kind = kind]
            \in [pc : HsPcs, handle : HsHandles \cup {0}, kind : HsKinds]
      BY <3>1
    <3>3. hsConn' = [hsConn EXCEPT ![k] = [hsConn[k] EXCEPT !.pc = pc, !.kind = kind]]
      BY DEF HsSlotInv, HsTypeOK
    <3> QED BY <3>2, <3>3 DEF HsSlotInv, HsTypeOK
  <2> QED BY <2>2, <2>3 DEF HsSlotInv, HsTypeOK
<1>3. Slotted' = Slotted
  BY <1>1 DEF Slotted
<1>4. LockKnown'
  BY <1>1 DEF HsSlotInv, LockKnown, HsAt
<1>5. TakenKnown'
  BY <1>1 DEF HsSlotInv, TakenKnown, HsAt, HsInside
<1>6. AcceptJoined'
  BY DEF HsSlotInv, AcceptJoined
<1> QED BY <1>2, <1>3, <1>4, <1>5, <1>6 DEF HsSlotInv, SlotsCount

\* A step of nobody's thread, after which the accept loop takes no other place that
\* matters.
LEMMA HsElsewhere ==
    ASSUME HsSlotInv, UNCHANGED <<hsPlatform, hsConn, hsSlots, hsLock>>,
           hsPipe' \in [HsConns -> {"quiet"} \cup HsKinds],
           hsSocket' \in [HsHandles -> HsConns \cup {HsNone}],
           HsTypeOK', TakenKnown', AcceptJoined'
    PROVE  HsSlotInv'
<1>1. Slotted' = Slotted
  BY DEF Slotted
<1>2. LockKnown'
  BY DEF HsSlotInv, LockKnown, HsAt
<1> QED BY <1>1, <1>2 DEF HsSlotInv, SlotsCount

\* A thread that holds a slot has it counted.
LEMMA SlottedCounts ==
    ASSUME HsSlotInv, NEW k \in Slotted
    PROVE  hsSlots > 0
<1>1. Slotted # {}
  OBVIOUS
<1> QED BY <1>1, FS_EmptySet, FS_CardinalityType DEF HsSlotInv, SlotsCount

\* What a step of thread k does to its place.
LEMMA HsThreadMoves ==
    ASSUME HsSlotInv, NEW k \in HsConns,
           HsTop(k) \/ HsReceive(k) \/ HsIdle(k) \/ HsHandle(k) \/ HsAnswer(k) \/ HsLeave(k)
             \/ HsStopHere(k) \/ HsClose(k)
    PROVE  HsSlotInv'
<1> DEFINE Moved == \E pc \in HsInside \ {"unlock"}, kind \in HsKinds :
              hsConn' = [hsConn EXCEPT ![k].pc = pc, ![k].kind = kind]
<1>0. hsConn \in [HsConns -> [pc : HsPcs, handle : HsHandles \cup {0}, kind : HsKinds]]
  BY DEF HsSlotInv, HsTypeOK
<1>1. ASSUME NEW pc \in HsInside \ {"unlock"}, HsGo(k, pc)
      PROVE  Moved
  <2>1. hsConn' = [hsConn EXCEPT ![k].pc = pc, ![k].kind = hsConn[k].kind]
    BY <1>0, <1>1 DEF HsGo
  <2>2. hsConn[k].kind \in HsKinds
    BY <1>0
  <2> QED BY <2>1, <2>2
<1>2. /\ hsPipe \in [HsConns -> {"quiet"} \cup HsKinds]
      /\ hsSocket \in [HsHandles -> HsConns \cup {HsNone}]
  BY DEF HsSlotInv, HsTypeOK
<1> DEFINE Rest ==
       /\ Moved /\ hsConn[k].pc \in HsInside \ {"unlock"}
       /\ hsPipe' \in [HsConns -> {"quiet"} \cup HsKinds]
       /\ hsSocket' \in [HsHandles -> HsConns \cup {HsNone}]
       /\ UNCHANGED <<hsPlatform, hsAccept, hsSlots, hsLock, hsMain>>
<1>3. CASE HsTop(k)
  <2>1. Moved
    BY <1>1, <1>3 DEF HsTop, HsInside
  <2>2. Rest
    BY <1>2, <1>3, <2>1 DEF HsTop, HsThreadUnchanged, hsSetup, hsHost, hsPeers, HsAt, HsInside
  <2> QED BY <2>2, HsMoves
<1>4. CASE HsIdle(k)
  <2>1. Moved
    BY <1>1, <1>4 DEF HsIdle, HsInside
  <2>2. Rest
    BY <1>2, <1>4, <2>1 DEF HsIdle, HsThreadUnchanged, hsSetup, hsHost, hsPeers, HsAt, HsInside
  <2> QED BY <2>2, HsMoves
<1>5. CASE HsHandle(k)
  <2>1. Moved
    BY <1>1, <1>5 DEF HsHandle, HsInside
  <2>2. Rest
    BY <1>2, <1>5, <2>1 DEF HsHandle, HsThreadUnchanged, hsSetup, hsHost, hsPeers, HsAt, HsInside
  <2> QED BY <2>2, HsMoves
<1>6. CASE HsLeave(k)
  <2>1. Moved
    BY <1>1, <1>6 DEF HsLeave, HsInside
  <2>2. Rest
    BY <1>2, <1>6, <2>1 DEF HsLeave, HsThreadUnchanged, hsSetup, hsHost, hsPeers, HsAt, HsInside
  <2> QED BY <2>2, HsMoves
<1>7. CASE HsStopHere(k)
  <2>1. Moved
    BY <1>1, <1>7 DEF HsStopHere, HsInside
  <2>2. Rest
    BY <1>2, <1>7, <2>1 DEF HsStopHere, HsWake, hsSetup, hsPeers, HsAt, HsInside
  <2> QED BY <2>2, HsMoves
<1>8. CASE HsClose(k)
  <2>1. Moved
    BY <1>1, <1>8 DEF HsClose, HsInside
  <2>2. Rest
    BY <1>2, <1>8, <2>1 DEF HsClose, HsThreadUnchanged, hsSetup, hsHost, HsAt, HsInside
  <2> QED BY <2>2, HsMoves
<1>9. CASE HsAnswer(k)
  <2>1. Moved
    BY <1>9 DEF HsAnswer, HsInside, HsKinds
  <2>2. Rest
    BY <1>2, <1>9, <2>1 DEF HsAnswer, HsThreadUnchanged, hsSetup, hsHost, hsPeers, HsAt, HsInside
  <2> QED BY <2>2, HsMoves
<1>10. CASE HsReceive(k)
  <2>1. CASE HsGo(k, "leave") /\ UNCHANGED hsPipe
    <3>1. Moved
      BY <1>1, <2>1 DEF HsInside
    <3>2. Rest
      BY <1>2, <1>10, <2>1, <3>1 DEF HsReceive, HsThreadUnchanged, hsSetup, hsHost, HsAt, HsInside
    <3> QED BY <3>2, HsMoves
  <2>2. CASE HsPeer(k) # HsNone /\ hsPipe[HsPeer(k)] # "quiet"
             /\ hsConn' = [hsConn EXCEPT ![k].pc = "handle", ![k].kind = hsPipe[HsPeer(k)]]
             /\ hsPipe' = [hsPipe EXCEPT ![HsPeer(k)] = "quiet"]
    <3>0. HsPeer(k) \in HsConns
      BY <1>10, <2>2 DEF HsSlotInv, HsTypeOK, HsReceive, HsAt, HsPeer
    <3>1. Moved
      BY <1>2, <2>2, <3>0 DEF HsInside
    <3>2. Rest
      BY <1>2, <1>10, <2>2, <3>1 DEF HsReceive, HsThreadUnchanged, hsSetup, hsHost, HsAt, HsInside
    <3> QED BY <3>2, HsMoves
  <2> QED BY <1>10, <2>1, <2>2 DEF HsReceive
<1> QED BY <1>3, <1>4, <1>5, <1>6, <1>7, <1>8, <1>9, <1>10

\* What the accept loop does when it does not start a thread.
LEMMA HsLoopMoves ==
    ASSUME HsSlotInv, HsLook \/ HsNobody \/ HsAcceptFails \/ HsAcceptEnds
    PROVE  HsSlotInv'
<1>1. PICK pc \in {"look", "poll", "end", "over"} :
        /\ hsAccept' = [hsAccept EXCEPT !.pc = pc]
        /\ UNCHANGED <<hsPlatform, hsConn, hsSlots, hsLock, hsPipe, hsSocket, hsMain>>
        /\ hsAccept.pc # "over"
  BY DEF HsLook, HsNobody, HsAcceptFails, HsAcceptEnds, HsAcceptUnchanged, hsSetup, hsPeers
<1>2. HsTypeOK'
  BY <1>1 DEF HsSlotInv, HsTypeOK
<1>3. TakenKnown'
  BY <1>1 DEF HsSlotInv, HsTypeOK, TakenKnown
<1>4. AcceptJoined'
  BY <1>1 DEF HsSlotInv, AcceptJoined
<1> QED BY <1>1, <1>2, <1>3, <1>4, HsElsewhere DEF HsSlotInv, HsTypeOK

\* The loop takes a connection, whose thread is to come, or refuses it.
LEMMA HsTakeOrRefuse ==
    ASSUME HsSlotInv, (\E k \in HsConns : HsTake(k)) \/ HsRefuse
    PROVE  HsSlotInv'
<1>1. PICK k \in HsConns, pc \in {"taken", "over"}, h \in HsHandles :
        /\ hsConn[k].pc \in {"away", "taken"}
        /\ hsConn' = [hsConn EXCEPT ![k].pc = pc, ![k].handle = h]
        /\ hsSocket' \in [HsHandles -> HsConns \cup {HsNone}]
        /\ hsAccept' = IF pc = "taken" THEN [pc |-> "admit", conn |-> k]
                       ELSE [pc |-> "look", conn |-> HsNone]
        /\ hsAccept.pc # "over"
        /\ UNCHANGED <<hsPlatform, hsSlots, hsLock, hsPipe, hsMain>>
  <2>1. ASSUME NEW k \in HsConns, HsTake(k)
        PROVE  \E h \in HsHandles :
                 /\ hsConn[k].pc = "away"
                 /\ hsConn' = [hsConn EXCEPT ![k].pc = "taken", ![k].handle = h]
                 /\ hsSocket' \in [HsHandles -> HsConns \cup {HsNone}]
                 /\ hsAccept' = [pc |-> "admit", conn |-> k]
                 /\ hsAccept.pc = "poll"
                 /\ UNCHANGED <<hsPlatform, hsSlots, hsLock, hsPipe, hsMain>>
    <3>1. PICK h \in HsHandles :
            /\ hsSocket' = [hsSocket EXCEPT ![h] = k]
            /\ hsConn' = [hsConn EXCEPT ![k].pc = "taken", ![k].handle = h]
      BY <2>1 DEF HsTake, HsFree
    <3>2. hsSocket' \in [HsHandles -> HsConns \cup {HsNone}]
      BY <3>1 DEF HsSlotInv, HsTypeOK
    <3> QED BY <2>1, <3>1, <3>2 DEF HsTake, HsAt, HsAcceptUnchanged, hsSetup, hsPeers
  <2>2. ASSUME HsRefuse
        PROVE  \E k \in HsConns, h \in HsHandles :
                 /\ hsConn[k].pc = "taken"
                 /\ hsConn' = [hsConn EXCEPT ![k].pc = "over", ![k].handle = h]
                 /\ hsSocket' \in [HsHandles -> HsConns \cup {HsNone}]
                 /\ hsAccept' = [pc |-> "look", conn |-> HsNone]
                 /\ hsAccept.pc = "admit"
                 /\ UNCHANGED <<hsPlatform, hsSlots, hsLock, hsPipe, hsMain>>
    <3>1. PICK k \in HsConns : k = hsAccept.conn /\ hsConn[k].pc = "taken"
      BY <2>2 DEF HsRefuse, HsSlotInv, TakenKnown, HsAt
    <3>2. PICK h \in HsHandles : h = hsConn[k].handle
      BY <3>1 DEF HsSlotInv, HsTypeOK
    <3>3. hsConn' = [hsConn EXCEPT ![k].pc = "over", ![k].handle = h]
      BY <2>2, <3>1, <3>2 DEF HsRefuse, HsGo, HsSlotInv, HsTypeOK
    <3> QED BY <2>2, <3>1, <3>2, <3>3 DEF HsRefuse, HsAcceptUnchanged, hsSetup, hsPeers,
            HsSlotInv, HsTypeOK
  <2> QED BY <2>1, <2>2
<1>2. /\ \A j \in HsConns \ {k} : hsConn'[j] = hsConn[j]
      /\ hsConn'[k].pc = pc /\ hsConn'[k].handle = h
  BY <1>1 DEF HsSlotInv, HsTypeOK
<1>3. HsTypeOK'
  <2>1. hsConn' \in [HsConns -> [pc : HsPcs, handle : HsHandles \cup {0}, kind : HsKinds]]
    <3>1. hsConn[k] \in [pc : HsPcs, handle : HsHandles \cup {0}, kind : HsKinds] /\ pc \in HsPcs
      BY DEF HsSlotInv, HsTypeOK, HsPcs
    <3>2. [hsConn[k] EXCEPT !.pc = pc, !.handle = h]
            \in [pc : HsPcs, handle : HsHandles \cup {0}, kind : HsKinds]
      BY <3>1
    <3>3. hsConn' = [hsConn EXCEPT ![k] = [hsConn[k] EXCEPT !.pc = pc, !.handle = h]]
      BY <1>1 DEF HsSlotInv, HsTypeOK
    <3> QED BY <3>2, <3>3 DEF HsSlotInv, HsTypeOK
  <2>2. \A j \in HsConns : hsConn'[j].pc \notin {"away", "over"} => hsConn'[j].handle \in HsHandles
    BY <1>2 DEF HsSlotInv, HsTypeOK
  <2> QED BY <1>1, <2>1, <2>2 DEF HsSlotInv, HsTypeOK
<1>4. Slotted' = Slotted
  BY <1>1, <1>2 DEF Slotted, HsInside
<1>5. LockKnown'
  BY <1>1, <1>2 DEF HsSlotInv, LockKnown, HsAt
<1>6. TakenKnown'
  BY <1>1, <1>2 DEF TakenKnown, HsAt
<1>7. AcceptJoined'
  BY <1>1 DEF HsSlotInv, AcceptJoined
<1> QED BY <1>1, <1>3, <1>4, <1>5, <1>6, <1>7 DEF HsSlotInv, SlotsCount

\* A slot is taken.
LEMMA HsAdmits ==
    ASSUME HsSlotInv, HsAdmit
    PROVE  HsSlotInv'
<1>1. PICK k \in HsConns : k = hsAccept.conn /\ hsConn[k].pc = "taken"
  BY DEF HsAdmit, HsSlotInv, TakenKnown, HsAt
<1>2. /\ hsConn' = [hsConn EXCEPT ![k].pc = "top"] /\ hsSlots' = hsSlots + 1
      /\ hsAccept.pc = "admit" /\ hsAccept' = [pc |-> "look", conn |-> HsNone]
      /\ UNCHANGED <<hsPlatform, hsLock, hsPipe, hsSocket, hsMain>>
  BY <1>1 DEF HsAdmit, HsGo, HsAcceptUnchanged, hsSetup, hsPeers
<1>3. /\ \A j \in HsConns \ {k} : hsConn'[j] = hsConn[j]
      /\ hsConn'[k].pc = "top" /\ hsConn'[k].handle = hsConn[k].handle
  BY <1>2 DEF HsSlotInv, HsTypeOK
<1>4. HsTypeOK'
  <2>1. hsConn' \in [HsConns -> [pc : HsPcs, handle : HsHandles \cup {0}, kind : HsKinds]]
    BY <1>2 DEF HsSlotInv, HsTypeOK, HsPcs, HsInside
  <2>2. \A j \in HsConns : hsConn'[j].pc \notin {"away", "over"} => hsConn'[j].handle \in HsHandles
    BY <1>1, <1>3 DEF HsSlotInv, HsTypeOK
  <2> QED BY <1>2, <2>1, <2>2 DEF HsSlotInv, HsTypeOK
<1>5. Slotted' = Slotted \cup {k} /\ k \notin Slotted
  BY <1>1, <1>3 DEF Slotted, HsInside
<1>6. SlotsCount'
  <2>1. IsFiniteSet(Slotted') /\ Cardinality(Slotted') = Cardinality(Slotted) + 1
    BY <1>5, FS_AddElement DEF HsSlotInv, SlotsCount
  <2> QED BY <1>2, <2>1 DEF HsSlotInv, SlotsCount
<1>7. LockKnown'
  BY <1>1, <1>2, <1>3 DEF HsSlotInv, LockKnown, HsAt
<1>8. TakenKnown' /\ AcceptJoined'
  BY <1>2 DEF HsSlotInv, TakenKnown, AcceptJoined
<1> QED BY <1>4, <1>6, <1>7, <1>8 DEF HsSlotInv

\* A slot is given back, under conn_mu, and then conn_mu.
LEMMA HsCounts ==
    ASSUME HsSlotInv, NEW k \in HsConns, HsCount(k) \/ HsUnlock(k)
    PROVE  HsSlotInv'
<1>0. UNCHANGED <<hsPlatform, hsPipe, hsSocket, hsMain, hsAccept>>
  BY DEF HsCount, HsUnlock, HsThreadUnchanged, hsSetup, hsHost, hsPeers
<1>1. PICK pc \in {"unlock", "over"} :
        /\ hsConn' = [hsConn EXCEPT ![k].pc = pc]
        /\ pc = "unlock" => hsConn[k].pc = "count" /\ hsLock = HsNone /\ hsLock' = k
                              /\ hsSlots' = hsSlots - 1
        /\ pc = "over" => hsConn[k].pc = "unlock" /\ hsLock' = HsNone /\ UNCHANGED hsSlots
  BY DEF HsCount, HsUnlock, HsGo, HsAt
<1>2. /\ \A j \in HsConns \ {k} : hsConn'[j] = hsConn[j]
      /\ hsConn'[k].pc = pc /\ hsConn'[k].handle = hsConn[k].handle
  BY <1>1 DEF HsSlotInv, HsTypeOK
<1>3. SlotsCount' /\ hsSlots' \in Nat
  <2>1. CASE pc = "unlock"
    <3>1. Slotted' = Slotted \ {k} /\ k \in Slotted
      BY <1>1, <1>2, <2>1 DEF Slotted, HsInside
    <3>2. IsFiniteSet(Slotted') /\ Cardinality(Slotted') = Cardinality(Slotted) - 1
      BY <3>1, FS_RemoveElement DEF HsSlotInv, SlotsCount
    <3>3. hsSlots > 0
      BY <3>1, SlottedCounts
    <3> QED BY <1>1, <2>1, <3>2, <3>3 DEF HsSlotInv, SlotsCount, HsTypeOK
  <2>2. CASE pc = "over"
    <3>1. Slotted' = Slotted
      BY <1>1, <1>2, <2>2 DEF Slotted, HsInside
    <3> QED BY <1>1, <2>2, <3>1 DEF HsSlotInv, SlotsCount, HsTypeOK
  <2> QED BY <2>1, <2>2
<1>4. HsTypeOK'
  <2>1. hsConn' \in [HsConns -> [pc : HsPcs, handle : HsHandles \cup {0}, kind : HsKinds]]
    BY <1>1 DEF HsSlotInv, HsTypeOK, HsPcs, HsInside
  <2>2. \A j \in HsConns : hsConn'[j].pc \notin {"away", "over"} => hsConn'[j].handle \in HsHandles
    BY <1>1, <1>2 DEF HsSlotInv, HsTypeOK
  <2>3. hsLock' \in HsConns \cup {HsNone}
    BY <1>1
  <2> QED BY <1>0, <1>3, <2>1, <2>2, <2>3 DEF HsSlotInv, HsTypeOK
<1>5. LockKnown'
  BY <1>1, <1>2, HsConstants DEF HsSlotInv, LockKnown, HsAt
<1>6. TakenKnown'
  BY <1>0, <1>1, <1>2 DEF HsSlotInv, TakenKnown, HsAt
<1>7. AcceptJoined'
  BY <1>0, <1>1, <1>2 DEF HsSlotInv, AcceptJoined, HsInside
<1> QED BY <1>3, <1>4, <1>5, <1>6, <1>7 DEF HsSlotInv

\* What run.cpp's thread does, what ends the process, and what clients do.
LEMMA HsOwnerMoves ==
    ASSUME HsSlotInv,
           HsOwner \/ HsSignal
             \/ HsSpawnFails \/ (\E k \in HsConns : HsKill(k))
             \/ (\E k \in HsConns, kind \in HsKinds : HsAsk(k, kind)) \/ UNCHANGED hsVars
    PROVE  HsSlotInv'
<1>1. /\ UNCHANGED <<hsPlatform, hsAccept, hsSlots, hsLock, hsConn>>
      /\ hsMain' \in {"drain", "gone"} => hsMain \in {"drain", "gone"} \/ hsAccept.pc = "over"
  BY DEF HsOwner, HsQuits, HsWakes, HsUnlistens, HsDestroys, HsJoin, HsDrainRound, HsFreed, HsSignal,
     HsSpawnFails, HsKill, HsAsk, HsMainUnchanged, hsSetup, hsHost, hsVars
<1>2. hsSocket' \in [HsHandles -> HsConns \cup {HsNone}]
  <2>1. hsSocket \in [HsHandles -> HsConns \cup {HsNone}]
    BY DEF HsSlotInv, HsTypeOK
  <2>2. CASE UNCHANGED hsSocket
    BY <2>1, <2>2
  <2>3. CASE HsWake
    BY <2>1, <2>3 DEF HsWake
  <2> QED BY <2>2, <2>3 DEF HsOwner, HsQuits, HsWakes, HsUnlistens, HsDestroys, HsJoin, HsDrainRound,
          HsFreed, HsSignal, HsSpawnFails, HsKill, HsAsk, HsMainUnchanged, hsVars
<1>3. hsPipe' \in [HsConns -> {"quiet"} \cup HsKinds]
  BY DEF HsSlotInv, HsTypeOK, HsOwner, HsQuits, HsWakes, HsUnlistens, HsDestroys, HsJoin, HsDrainRound,
     HsFreed, HsSignal, HsSpawnFails, HsKill, HsAsk, HsMainUnchanged, hsPeers, hsVars
<1>4. HsTypeOK'
  BY <1>1, <1>2, <1>3 DEF HsSlotInv, HsTypeOK
<1>5. TakenKnown' /\ AcceptJoined'
  BY <1>1 DEF HsSlotInv, TakenKnown, AcceptJoined, HsAt
<1> QED BY <1>1, <1>2, <1>3, <1>4, <1>5, HsElsewhere

\* The slots count the threads between their start and the end of their guard.
LEMMA HsSlotNext == HsSlotInv /\ [HsNext]_hsVars => HsSlotInv'
BY HsThreadMoves, HsLoopMoves, HsTakeOrRefuse, HsAdmits, HsCounts, HsOwnerMoves
   DEF HsNext, HsAccepts, HsThread

\* They do in every behaviour.
LEMMA HsSpecSlots == HsSpec => []HsSlotInv
BY HsSlotInit, HsSlotNext, PTL DEF HsSpec

\* Once ~Httpd has returned no thread moves but the one that has to unlock: there
\* is no accept loop to start another.
LEMMA OnlyUnlocks ==
    ASSUME HsSlotInv, hsMain = "gone", FreedAfterTheLastSlot, [HsNext]_hsVars
    PROVE  /\ UNCHANGED hsAccept
           /\ UNCHANGED hsConn \/ \E k \in HsConns : HsUnlock(k)
<1>1. /\ hsAccept.pc = "over"
      /\ \A k \in HsConns : hsConn[k].pc \in HsInside => hsConn[k].pc = "unlock"
  BY DEF FreedAfterTheLastSlot, HsAt
<1>2. \A k \in HsConns : (HsThread(k) => HsUnlock(k)) /\ ~HsIdle(k)
  BY <1>1 DEF HsThread, HsTop, HsReceive, HsIdle, HsHandle, HsAnswer, HsLeave, HsStopHere,
     HsKill, HsClose, HsCount, HsAt, HsInside
<1>3. ~HsAccepts /\ ~HsAcceptFails /\ ~HsSpawnFails
  BY <1>1 DEF HsAccepts, HsLook, HsNobody, HsAdmit, HsRefuse, HsAcceptEnds, HsTake,
     HsAcceptFails, HsSpawnFails
<1>4. ~HsOwner /\ ~HsSignal
  BY DEF HsOwner, HsQuits, HsWakes, HsUnlistens, HsDestroys, HsJoin, HsDrainRound, HsFreed, HsSignal
<1>5. CASE \E k \in HsConns : HsUnlock(k)
  BY <1>5 DEF HsUnlock, HsThreadUnchanged
<1>6. CASE UNCHANGED hsVars \/ \E k \in HsConns : \E kind \in HsKinds : HsAsk(k, kind)
  BY <1>6 DEF HsAsk, hsVars
<1> QED BY <1>2, <1>3, <1>4, <1>5, <1>6 DEF HsNext

\* The drain sees no slot taken only when no thread is before its guard's count.
LEMMA FreedNext ==
    HsSlotInv /\ HsSlotInv' /\ FreedAfterTheLastSlot /\ [HsNext]_hsVars => FreedAfterTheLastSlot'
<1> SUFFICES ASSUME HsSlotInv, HsSlotInv', FreedAfterTheLastSlot, [HsNext]_hsVars,
                    hsMain' = "gone"
             PROVE  FreedAfterTheLastSlot'
  BY DEF FreedAfterTheLastSlot
<1>1. ASSUME /\ hsAccept'.pc = "over"
             /\ \A k \in HsConns : hsConn'[k].pc \in HsInside => hsConn'[k].pc = "unlock"
      PROVE  FreedAfterTheLastSlot'
  BY <1>1 DEF FreedAfterTheLastSlot, HsSlotInv, LockKnown, HsAt
<1>2. CASE hsMain = "gone"
  <2>1. /\ hsAccept.pc = "over"
        /\ \A k \in HsConns : hsConn[k].pc \in HsInside => hsConn[k].pc = "unlock"
    BY <1>2 DEF FreedAfterTheLastSlot, HsAt
  <2>2. CASE UNCHANGED hsConn
    BY <1>1, <1>2, <2>1, <2>2, OnlyUnlocks
  <2>3. ASSUME NEW k \in HsConns, HsUnlock(k)
        PROVE  FreedAfterTheLastSlot'
    <3>1. hsConn'[k].pc = "over" /\ \A j \in HsConns \ {k} : hsConn'[j] = hsConn[j]
      BY <2>3 DEF HsUnlock, HsGo, HsSlotInv, HsTypeOK
    <3> QED BY <1>1, <1>2, <2>1, <3>1, OnlyUnlocks DEF HsInside
  <2> QED BY <1>2, <2>2, <2>3, OnlyUnlocks
<1>3. CASE HsFreed
  <2>1. hsMain = "drain" /\ hsSlots = 0 /\ UNCHANGED <<hsAccept, hsConn>>
    BY <1>3 DEF HsFreed, HsDrained, HsMainUnchanged
  <2>2. \A k \in HsConns : hsConn[k].pc \in HsInside => hsConn[k].pc = "unlock"
    BY <2>1, SlottedCounts DEF Slotted
  <2> QED BY <1>1, <2>1, <2>2 DEF HsSlotInv, AcceptJoined
<1>4. hsMain = "gone" \/ HsFreed
  BY DEF HsNext, HsAccepts, HsLook, HsNobody, HsAdmit, HsRefuse, HsAcceptEnds, HsTake,
     HsAcceptFails, HsSpawnFails, HsAcceptUnchanged, HsOwner, HsQuits, HsWakes, HsUnlistens,
     HsDestroys, HsJoin, HsDrainRound, HsMainUnchanged, HsSignal, HsThread, HsTop, HsReceive,
     HsIdle, HsHandle, HsAnswer, HsLeave, HsStopHere, HsKill, HsClose, HsCount, HsUnlock,
     HsThreadUnchanged, hsHost, HsAsk, hsVars
<1> QED BY <1>2, <1>3, <1>4

\* The destructor returns, and what the threads use is freed, only after the accept
\* loop is over and every thread has given its slot back: no handler and no
\* close_conn runs in the freed, whatever was connected or being admitted, and of
\* the guards at most the one that holds conn_mu (drain_conns, ~Httpd, ~Release).
THEOREM FreedAfterTheLast == HsSpec => []FreedAfterTheLastSlot
<1>1. HsInit => FreedAfterTheLastSlot
  BY DEF HsInit, FreedAfterTheLastSlot
<1> QED BY <1>1, HsSpecSlots, FreedNext, PTL DEF HsSpec

-----------------------------------------------------------------------------
(* Handles                                                                 *)

\* Threads that use their handle, and the connection the loop holds.
Using == {k \in HsConns :
            hsConn[k].pc \in {"taken", "top", "recv", "handle", "answer", "leave", "stop", "kill",
                              "close"}}

\* Nobody closes a handle under its thread: wake_conns only shuts connections down,
\* or has not been called yet.
HsCalm == hsPlatform = "posix" \/ ~hsQuit

\* The handle a thread uses is its own connection's, open and nobody else's.
HandlesOwned == \A k \in Using : hsSocket[hsConn[k].handle] = k

\* The accept loop holds the connection that is being admitted, and no other.
OneTaken == \A k \in HsConns : HsAt(k, "taken") => hsAccept = [pc |-> "admit", conn |-> k]

\* The thread of run.cpp wakes connections after it has set quit.
QuitFirst == hsMain \notin {"serving", "stop", "exited"} => hsQuit

HomeInv ==
    /\ OneTaken /\ QuitFirst /\ AnswersStayHome
    /\ HsCalm => HandlesOwned
    /\ hsAnswered \in [HsConns -> SUBSET HsConns]

\* At first no handle is in use.
LEMMA HomeInit == HsInit => HomeInv
BY DEF HsInit, HomeInv, HandlesOwned, OneTaken, QuitFirst, AnswersStayHome, Using, HsAway, HsAt

\* A thread that goes on with its handle, or lets it go, while nothing is opened.
LEMMA HomeKept ==
    ASSUME HsSlotInv, HomeInv, UNCHANGED <<hsPlatform, hsAnswered>>, QuitFirst',
           HsCalm' => HsCalm,
           \A k \in HsConns : hsConn'[k].handle = hsConn[k].handle,
           Using' \subseteq Using,
           HsCalm' => \A k \in Using' : hsSocket'[hsConn[k].handle] = hsSocket[hsConn[k].handle],
           \A k \in HsConns : HsAt(k, "taken")' => HsAt(k, "taken") /\ UNCHANGED hsAccept
    PROVE  HomeInv'
<1>1. Using \subseteq HsConns /\ Using' \subseteq HsConns
  BY DEF Using
<1>2. HsCalm' => HandlesOwned'
  BY <1>1 DEF HomeInv, HandlesOwned
<1>3. AnswersStayHome'
  BY DEF HomeInv, AnswersStayHome, HsCalm
<1>4. OneTaken'
  BY DEF HomeInv, OneTaken
<1> QED BY <1>2, <1>3, <1>4 DEF HomeInv

\* Nobody is at "taken" but while the loop admits him.
LEMMA NobodyTaken ==
    ASSUME HomeInv, hsAccept.pc # "admit"
    PROVE  \A k \in HsConns : ~HsAt(k, "taken")
BY DEF HomeInv, OneTaken

\* accept() gives a handle out that, while all is calm, no thread uses.
LEMMA HomeTake ==
    ASSUME HsSlotInv, HomeInv, NEW k \in HsConns, HsTake(k)
    PROVE  HomeInv'
<1>1. PICK h \in HsFree :
        /\ hsSocket' = [hsSocket EXCEPT ![h] = k]
        /\ hsConn' = [hsConn EXCEPT ![k].pc = "taken", ![k].handle = h]
  BY DEF HsTake
<1>2. /\ hsConn[k].pc = "away" /\ hsAccept.pc = "poll"
      /\ hsAccept' = [pc |-> "admit", conn |-> k]
      /\ UNCHANGED <<hsPlatform, hsQuit, hsMain, hsAnswered>>
  BY DEF HsTake, HsAt, HsAcceptUnchanged, hsSetup
<1>3. /\ \A j \in HsConns \ {k} : hsConn'[j] = hsConn[j]
      /\ hsConn'[k].pc = "taken" /\ hsConn'[k].handle = h
  BY <1>1 DEF HsSlotInv, HsTypeOK
<1>4. Using' = Using \cup {k} /\ k \notin Using
  BY <1>2, <1>3 DEF Using
<1>5. \A j \in HsConns : ~HsAt(j, "taken")
  BY <1>2, NobodyTaken
<1>6. \A j \in Using : j \in HsConns /\ hsConn[j].handle \in HsHandles
  BY DEF Using, HsSlotInv, HsTypeOK
<1>7. HsCalm' => HandlesOwned'
  <2> SUFFICES ASSUME HsCalm', NEW j \in Using' PROVE hsSocket'[hsConn'[j].handle] = j
    BY DEF HandlesOwned
  <2>1. HandlesOwned /\ h \in HsHandles /\ hsSocket[h] = HsNone
    BY <1>2 DEF HomeInv, HsCalm, HsFree
  <2>2. CASE j = k
    BY <1>1, <1>3, <2>1, <2>2 DEF HsSlotInv, HsTypeOK
  <2>3. CASE j # k
    <3>1. j \in Using /\ hsConn'[j].handle = hsConn[j].handle /\ hsSocket[hsConn[j].handle] = j
      BY <1>3, <1>4, <1>6, <2>1, <2>3 DEF HandlesOwned
    <3>2. hsConn[j].handle \in HsHandles /\ hsConn[j].handle # h
      BY <1>6, <2>1, <3>1, HsConstants
    <3> QED BY <1>1, <3>1, <3>2 DEF HsSlotInv, HsTypeOK
  <2> QED BY <2>2, <2>3
<1>8. OneTaken'
  BY <1>2, <1>3, <1>5 DEF HsAt, OneTaken
<1> QED BY <1>2, <1>7, <1>8 DEF HomeInv, QuitFirst, AnswersStayHome

\* A thread closes its own handle, and the loop the one it refuses: while all is
\* calm, nobody else's.
LEMMA HomeClose ==
    ASSUME HsSlotInv, HomeInv, NEW k \in Using, NEW pc \in {"over", "count"},
           hsConn' = [hsConn EXCEPT ![k].pc = pc],
           hsSocket' \in {hsSocket, [hsSocket EXCEPT ![hsConn[k].handle] = HsNone]},
           UNCHANGED <<hsPlatform, hsQuit, hsMain, hsAnswered>>,
           \A j \in HsConns : HsAt(j, "taken")' => HsAt(j, "taken") /\ UNCHANGED hsAccept
    PROVE  HomeInv'
<1>1. /\ \A j \in HsConns \ {k} : hsConn'[j] = hsConn[j]
      /\ hsConn'[k].pc = pc /\ hsConn'[k].handle = hsConn[k].handle /\ k \in HsConns
  BY DEF HsSlotInv, HsTypeOK, Using
<1>2. Using' = Using \ {k}
  BY <1>1 DEF Using
<1>3. \A j \in Using : hsConn[j].handle \in HsHandles
  BY DEF Using, HsSlotInv, HsTypeOK
<1>4. HsCalm => \A j \in Using' : hsConn[j].handle # hsConn[k].handle
  BY <1>2 DEF HomeInv, HandlesOwned
<1>5. HsCalm => \A j \in Using' : hsSocket'[hsConn[j].handle] = hsSocket[hsConn[j].handle]
  BY <1>2, <1>3, <1>4 DEF HsSlotInv, HsTypeOK
<1>6. (HsCalm' => HsCalm) /\ QuitFirst'
  BY DEF HsCalm, HomeInv, QuitFirst
<1> QED BY <1>1, <1>2, <1>5, <1>6, HomeKept

\* wake_conns closes, on Windows and after quit is set, what it finds.
LEMMA HomeWake ==
    ASSUME HsSlotInv, HomeInv, UNCHANGED hsSocket \/ (HsWake /\ hsQuit'), hsQuit => hsQuit',
           UNCHANGED <<hsPlatform, hsAnswered, hsAccept>>, QuitFirst',
           \A k \in HsConns : hsConn'[k].handle = hsConn[k].handle,
           Using' \subseteq Using,
           \A k \in HsConns : HsAt(k, "taken")' => HsAt(k, "taken")
    PROVE  HomeInv'
<1>1. HsCalm' => HsCalm /\ UNCHANGED hsSocket
  BY DEF HsWake, HsWakeCloses, HsCalm, HsSlotInv, HsTypeOK
<1> QED BY <1>1, HomeKept

\* A thread writes to the handle it was given.
LEMMA HomeAnswer ==
    ASSUME HsSlotInv, HomeInv, NEW k \in HsConns, HsAnswer(k)
    PROVE  HomeInv'
<1>1. k \in Using /\ UNCHANGED <<hsPlatform, hsQuit, hsMain, hsSocket, hsAccept>>
  BY DEF HsAnswer, HsAt, Using, HsThreadUnchanged, hsSetup, hsHost
<1>2. PICK pc \in {"top", "leave"} :
        hsConn' = [hsConn EXCEPT ![k].pc = pc, ![k].kind = "any"]
  BY DEF HsAnswer
<1>3. /\ \A j \in HsConns \ {k} : hsConn'[j] = hsConn[j]
      /\ hsConn'[k].pc = pc /\ hsConn'[k].handle = hsConn[k].handle
  BY <1>2 DEF HsSlotInv, HsTypeOK
<1>4. Using' = Using
  BY <1>1, <1>3 DEF Using
<1>5. hsAnswered' \in [HsConns -> SUBSET HsConns]
  BY DEF HsAnswer, HomeInv, HsPeer
<1>6. HsCalm' => HsCalm
  BY <1>1 DEF HsCalm
<1>7. AnswersStayHome'
  <2> SUFFICES ASSUME HsCalm', NEW j \in HsConns PROVE hsAnswered'[j] \subseteq {j}
    BY DEF AnswersStayHome, HsCalm
  <2>1. HsPeer(k) = k /\ hsAnswered[j] \subseteq {j}
    BY <1>1, <1>6 DEF HomeInv, HandlesOwned, HsPeer, AnswersStayHome, HsCalm
  <2> QED BY <2>1 DEF HsAnswer, HomeInv
<1>8. HsCalm' => HandlesOwned'
  BY <1>1, <1>3, <1>4, <1>6 DEF HomeInv, HandlesOwned, Using
<1>9. OneTaken' /\ QuitFirst'
  BY <1>1, <1>3 DEF HomeInv, OneTaken, QuitFirst, HsAt
<1> QED BY <1>5, <1>7, <1>8, <1>9 DEF HomeInv

\* While all is calm no handle is given out again that a thread still uses.
LEMMA HomeNext == HsSlotInv /\ HomeInv /\ [HsNext]_hsVars => HomeInv'
<1> SUFFICES ASSUME HsSlotInv, HomeInv, [HsNext]_hsVars PROVE HomeInv'
  OBVIOUS
<1>1. ASSUME UNCHANGED <<hsPlatform, hsAnswered, hsConn, hsAccept>>, QuitFirst', hsQuit => hsQuit',
             UNCHANGED hsSocket \/ (HsWake /\ hsQuit')
      PROVE  HomeInv'
  BY <1>1, HomeWake DEF Using, HsAt
<1>2. CASE HsOwner \/ HsSignal \/ HsSpawnFails \/ UNCHANGED hsVars
  <2>1. QuitFirst' /\ (hsQuit => hsQuit') /\ UNCHANGED <<hsPlatform, hsAnswered, hsConn, hsAccept>>
    BY <1>2 DEF HsOwner, HsQuits, HsWakes, HsUnlistens, HsDestroys, HsJoin, HsDrainRound,
       HsFreed, HsMainUnchanged, HsSignal, HsSpawnFails, hsSetup, hsVars, HomeInv, QuitFirst
  <2>2. UNCHANGED hsSocket \/ (HsWake /\ hsQuit')
    BY <1>2 DEF HsOwner, HsQuits, HsWakes, HsUnlistens, HsDestroys, HsJoin, HsDrainRound,
       HsFreed, HsSignal, HsSpawnFails, hsVars, HomeInv, QuitFirst
  <2> QED BY <1>1, <2>1, <2>2
<1>3. ASSUME NEW k \in HsConns, HsKill(k) \/ \E kind \in HsKinds : HsAsk(k, kind)
      PROVE  HomeInv'
  BY <1>1, <1>3 DEF HsKill, HsAsk, hsSetup, hsHost, HomeInv, QuitFirst
<1>4. CASE HsLook \/ HsNobody \/ HsAcceptFails \/ HsAcceptEnds
  <2>1. /\ UNCHANGED <<hsPlatform, hsQuit, hsMain, hsAnswered, hsConn, hsSocket>>
        /\ hsAccept.pc # "admit"
    BY <1>4 DEF HsLook, HsNobody, HsAcceptFails, HsAcceptEnds, HsAcceptUnchanged, hsSetup
  <2>2. \A k \in HsConns : ~HsAt(k, "taken")
    BY <2>1, NobodyTaken
  <2>3. Using' = Using /\ \A k \in HsConns : ~HsAt(k, "taken")'
    BY <2>1, <2>2 DEF Using, HsAt
  <2>4. (HsCalm' => HsCalm) /\ QuitFirst'
    BY <2>1 DEF HsCalm, HomeInv, QuitFirst
  <2> QED BY <2>1, <2>3, <2>4, HomeKept
<1>5. CASE HsAdmit \/ HsRefuse
  <2>1. PICK k \in HsConns : k = hsAccept.conn /\ hsConn[k].pc = "taken"
    BY <1>5 DEF HsAdmit, HsRefuse, HsSlotInv, TakenKnown, HsAt
  <2>2. \A j \in HsConns \ {k} : ~HsAt(j, "taken")
    BY <2>1 DEF HomeInv, OneTaken
  <2>3. k \in Using /\ UNCHANGED <<hsPlatform, hsQuit, hsMain, hsAnswered>>
    BY <1>5, <2>1 DEF Using, HsAdmit, HsRefuse, HsAcceptUnchanged, hsSetup
  <2>4. CASE HsAdmit
    <3>1. hsConn' = [hsConn EXCEPT ![k].pc = "top"] /\ UNCHANGED hsSocket
      BY <2>1, <2>4 DEF HsAdmit, HsGo
    <3>2. /\ \A j \in HsConns \ {k} : hsConn'[j] = hsConn[j]
          /\ hsConn'[k].pc = "top" /\ hsConn'[k].handle = hsConn[k].handle
      BY <3>1 DEF HsSlotInv, HsTypeOK
    <3>3. Using' = Using /\ \A j \in HsConns : ~HsAt(j, "taken")'
      BY <2>2, <2>3, <3>2 DEF Using, HsAt
    <3>4. (HsCalm' => HsCalm) /\ QuitFirst'
      BY <2>3 DEF HsCalm, HomeInv, QuitFirst
    <3> QED BY <2>3, <3>1, <3>2, <3>3, <3>4, HomeKept
  <2>5. CASE HsRefuse
    <3>1. /\ hsConn' = [hsConn EXCEPT ![k].pc = "over"]
          /\ hsSocket' = [hsSocket EXCEPT ![hsConn[k].handle] = HsNone]
      BY <2>1, <2>5 DEF HsRefuse, HsGo
    <3>2. \A j \in HsConns : ~HsAt(j, "taken")'
      BY <2>2, <3>1 DEF HsAt, HsSlotInv, HsTypeOK
    <3> QED BY <2>3, <3>1, <3>2, HomeClose
  <2> QED BY <1>5, <2>4, <2>5
<1>6. ASSUME NEW k \in HsConns, NEW pc \in HsPcs \ {"away", "taken"}, NEW kind,
             hsConn' = [hsConn EXCEPT ![k].pc = pc, ![k].kind = kind],
             hsConn[k].pc # "taken",
             k \in Using \/ pc \in {"unlock", "over"},
             UNCHANGED <<hsPlatform, hsMain, hsAnswered, hsAccept>>, hsQuit => hsQuit',
             UNCHANGED hsSocket \/ (HsWake /\ hsQuit')
      PROVE  HomeInv'
  <2>1. /\ \A j \in HsConns \ {k} : hsConn'[j] = hsConn[j]
        /\ hsConn'[k].pc = pc /\ hsConn'[k].handle = hsConn[k].handle
    BY <1>6 DEF HsSlotInv, HsTypeOK
  <2>2. Using' \subseteq Using
    BY <1>6, <2>1 DEF Using
  <2>3. \A j \in HsConns : HsAt(j, "taken")' => HsAt(j, "taken")
    BY <1>6, <2>1 DEF HsAt
  <2>4. QuitFirst'
    BY <1>6 DEF HomeInv, QuitFirst
  <2> QED BY <1>6, <2>1, <2>2, <2>3, <2>4, HomeWake
<1>7. ASSUME NEW k \in HsConns, NEW pc \in HsPcs \ {"away", "taken"}, HsGo(k, pc)
      PROVE  hsConn' = [hsConn EXCEPT ![k].pc = pc, ![k].kind = hsConn[k].kind]
  BY <1>7 DEF HsGo, HsSlotInv, HsTypeOK
<1>8. ASSUME NEW k \in HsConns,
             HsTop(k) \/ HsReceive(k) \/ HsIdle(k) \/ HsHandle(k) \/ HsLeave(k) \/ HsStopHere(k)
      PROVE  HomeInv'
  <2>1. /\ k \in Using /\ hsConn[k].pc # "taken"
        /\ UNCHANGED <<hsPlatform, hsMain, hsAnswered, hsAccept>> /\ (hsQuit => hsQuit')
        /\ UNCHANGED hsSocket \/ (HsWake /\ hsQuit')
    BY <1>8 DEF HsTop, HsReceive, HsIdle, HsHandle, HsLeave, HsStopHere, HsThreadUnchanged,
       hsSetup, hsHost, HsAt, Using
  <2>2. \/ \E pc \in {"leave", "recv", "answer", "stop", "close", "kill"} : HsGo(k, pc)
        \/ \E kind : hsConn' = [hsConn EXCEPT ![k].pc = "handle", ![k].kind = kind]
    BY <1>8 DEF HsTop, HsReceive, HsIdle, HsHandle, HsLeave, HsStopHere
  <2>3. PICK pc \in HsPcs \ {"away", "taken"} :
          \E kind : hsConn' = [hsConn EXCEPT ![k].pc = pc, ![k].kind = kind]
    BY <1>7, <2>2 DEF HsPcs, HsInside
  <2>4. PICK kind : hsConn' = [hsConn EXCEPT ![k].pc = pc, ![k].kind = kind]
    BY <2>3
  <2> QED BY <1>6, <2>1, <2>4
<1>9. ASSUME NEW k \in HsConns, HsCount(k) \/ HsUnlock(k)
      PROVE  HomeInv'
  <2>1. PICK pc \in {"unlock", "over"} :
          /\ HsGo(k, pc) /\ hsConn[k].pc # "taken"
          /\ UNCHANGED <<hsPlatform, hsQuit, hsMain, hsAnswered, hsAccept, hsSocket>>
    BY <1>9 DEF HsCount, HsUnlock, HsThreadUnchanged, hsSetup, hsHost, HsAt
  <2>2. pc \in HsPcs \ {"away", "taken"}
    BY DEF HsPcs, HsInside
  <2> QED BY <1>6, <1>7, <2>1, <2>2
<1>10. ASSUME NEW k \in HsConns, HsClose(k)
       PROVE  HomeInv'
  <2>1. /\ k \in Using /\ hsConn' = [hsConn EXCEPT ![k].pc = "count"]
        /\ hsSocket' \in {hsSocket, [hsSocket EXCEPT ![hsConn[k].handle] = HsNone]}
        /\ UNCHANGED <<hsPlatform, hsQuit, hsMain, hsAnswered, hsAccept>>
    BY <1>10 DEF HsClose, HsGo, HsAt, Using, HsThreadUnchanged, hsSetup, hsHost
  <2>2. \A j \in HsConns : HsAt(j, "taken")' => HsAt(j, "taken")
    BY <2>1 DEF HsAt, HsSlotInv, HsTypeOK
  <2> QED BY <2>1, <2>2, HomeClose
<1> QED BY <1>2, <1>3, <1>4, <1>5, <1>8, <1>9, <1>10, HomeTake, HomeAnswer
        DEF HsNext, HsAccepts, HsThread

\* A client gets answers of the thread that serves it and of no other: to the end
\* on POSIX builds, where only the thread closes its handle, on Windows until the
\* server is told to stop (wake_conns, close_conn, register_conn).
THEOREM EveryAnswerStaysHome == HsSpec => []AnswersStayHome
<1>1. HomeInv => AnswersStayHome
  BY DEF HomeInv
<1> QED BY <1>1, HomeInit, HomeNext, HsSpecSlots, PTL DEF HsSpec

=============================================================================
