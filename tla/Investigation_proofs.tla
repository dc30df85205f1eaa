------------------------ MODULE Investigation_proofs ------------------------
(***************************************************************************)
(* Theorems about Investigation for any finite set of cases and any number *)
(* of slots.  The inductive invariant IInv is split by what it talks       *)
(* about: types, one case at a time, the queue, the slots, ownership.      *)
(***************************************************************************)
EXTENDS Investigation, FiniteSetTheorems, TLAPS

(* Announcing lifecycle events keeps the announcements typed. *)
LEMMA EmitType ==
  ASSUME TypeOK, NEW c \in Case, NEW es \in SUBSET Lifecycle, Emit(c, es)
  PROVE  announced' \in [Case -> SUBSET Lifecycle]
BY DEF Emit, TypeOK

(* Losing the process keeps everything it held typed. *)
LEMMA ProcessLostType ==
  ASSUME TypeOK, ProcessLost
  PROVE  /\ pc' \in [Case -> Places] /\ waiting' \in Seq(Case)
         /\ stream' \in [Case -> {"none", "open", "closed"}]
         /\ deleting' \subseteq Case /\ up' \in BOOLEAN
         /\ UNCHANGED <<aged, runs, starts, swept>>
<1>1. <<>> \in Seq(Case)
  OBVIOUS
<1>2. pc' \in [Case -> Places]
  BY DEF ProcessLost, Places
<1>3. stream' \in [Case -> {"none", "open", "closed"}]
  BY DEF ProcessLost, TypeOK
<1> QED
  BY <1>1, <1>2, <1>3 DEF ProcessLost

(* Types are preserved by every step. *)
LEMMA TypeStep == TypeOK /\ [Next]_vars => TypeOK'
<1> SUFFICES ASSUME TypeOK, [Next]_vars PROVE TypeOK'
  OBVIOUS
<1> USE DEF TypeOK, Statuses, Places, Lifecycle, TERMINAL_STATUSES
<1>1. ASSUME NEW c \in Case, CreateInvestigation(c) PROVE TypeOK'
  BY <1>1 DEF CreateInvestigation, loopVars, procVars
<1>2. ASSUME NEW c \in Case, NEW src \in Case, RerunInvestigation(c, src) PROVE TypeOK'
  BY <1>2 DEF RerunInvestigation, loopVars, procVars
<1>3. ASSUME NEW c \in Case, GrowOld(c) PROVE TypeOK'
  BY <1>3 DEF GrowOld, loopVars, procVars
<1>4. ASSUME NEW c \in Case, ClaimInvestigation(c) PROVE TypeOK'
  BY <1>4 DEF ClaimInvestigation, Goto, procVars
<1>5. ASSUME NEW c \in Case, EventGenStarts(c) PROVE TypeOK'
  BY <1>5 DEF EventGenStarts, Goto, dbVars, procVars
<1>6. ASSUME NEW c \in Case, Disconnect(c) PROVE TypeOK'
  BY <1>6 DEF Disconnect, dbVars, procVars
<1>7. ASSUME NEW c \in Case, JoinQueue(c) PROVE TypeOK'
  BY <1>7 DEF JoinQueue, Emit, Goto, dbVars, procVars
<1>8. ASSUME NEW c \in Case, StartAtOnce(c) PROVE TypeOK'
  BY <1>8 DEF StartAtOnce, StartScan, Goto, dbVars, procVars
<1>20. ASSUME NEW c \in Case, AcquireSlot(c) PROVE TypeOK'
  BY <1>20 DEF AcquireSlot, StartScan, Goto, dbVars, procVars
<1>9. ASSUME NEW c \in Case, PipelineReturns(c) PROVE TypeOK'
  BY <1>9 DEF PipelineReturns, Goto, dbVars, procVars
<1>10. ASSUME NEW c \in Case, Fail(c) PROVE TypeOK'
  BY <1>10 DEF Fail, SetInvestigation, Emit, Goto, procVars
<1>11. ASSUME NEW c \in Case, RecordDone(c) PROVE TypeOK'
  BY <1>11 DEF RecordDone, SetInvestigation, Emit, Goto, procVars
<1>12. ASSUME NEW c \in Case, SaveRun(c) PROVE TypeOK'
  <2>1. announced' \in [Case -> SUBSET Lifecycle]
    BY <1>12, EmitType DEF SaveRun
  <2>2. runs' \in [Case -> Nat] /\ pc' \in [Case -> Places]
    BY <1>12 DEF SaveRun, Goto
  <2> QED
    BY <1>12, <2>1, <2>2 DEF SaveRun, procVars
<1>13. ASSUME NEW c \in Case, DeleteReads(c) PROVE TypeOK'
  BY <1>13 DEF DeleteReads, dbVars, loopVars, procVars
<1>14. ASSUME NEW c \in Case, DeleteCommits(c) PROVE TypeOK'
  BY <1>14 DEF DeleteCommits, loopVars, procVars
<1>15. ASSUME NEW c \in Case, DeleteHistoryRun(c) PROVE TypeOK'
  BY <1>15 DEF DeleteHistoryRun, loopVars, procVars
<1>16. ASSUME Crash PROVE TypeOK'
  BY <1>16, ProcessLostType DEF Crash
<1>17. ASSUME Shutdown PROVE TypeOK'
  <2>1. announced' \in [Case -> SUBSET Lifecycle]
    BY <1>17 DEF Shutdown
  <2>2. row' \in [Case -> Statuses]
    BY <1>17 DEF Shutdown
  <2> QED
    BY <1>17, <2>1, <2>2, ProcessLostType DEF Shutdown
<1>18. ASSUME Restart PROVE TypeOK'
  BY <1>18 DEF Restart, SweepStuckInvestigations, loopVars
<1>19. CASE UNCHANGED vars
  BY <1>19 DEF vars, dbVars, loopVars, procVars
<1> QED
  BY <1>1, <1>2, <1>3, <1>4, <1>5, <1>6, <1>7, <1>8, <1>9, <1>10, <1>11, <1>12,
     <1>13, <1>14, <1>15, <1>16, <1>17, <1>18, <1>19, <1>20
     DEF Next, Coordinator, Requests, Environment, PipelineRaises, RecordDoneRaises

(* Every behaviour keeps the types of its variables. *)
THEOREM TypeCorrect == Spec => []TypeOK
<1>1. Init => TypeOK
  BY DEF Init, TypeOK, Statuses, Places
<1> QED
  BY <1>1, TypeStep, PTL DEF Spec

CaseInv(c) == RowInv(c) /\ StartsInv(c) /\ AnnouncedInv(c)

(* What IInv says of one case is preserved by every step, of that case or  *)
(* of another.                                                             *)
LEMMA CaseStep ==
  ASSUME IInv, [Next]_vars, NEW d \in Case
  PROVE  CaseInv(d)'
<1> USE DEF CaseInv, RowInv, StartsInv, AnnouncedInv, Untouched, Active
<1>0. TypeOK /\ RowInv(d) /\ StartsInv(d) /\ AnnouncedInv(d)
  BY DEF IInv
<1> USE DEF TypeOK
<1>1. ASSUME NEW c \in Case, CreateInvestigation(c) PROVE CaseInv(d)'
  BY <1>0, <1>1 DEF CreateInvestigation, loopVars, procVars
<1>2. ASSUME NEW c \in Case, NEW src \in Case, RerunInvestigation(c, src) PROVE CaseInv(d)'
  BY <1>0, <1>2 DEF RerunInvestigation, loopVars, procVars
<1>3. ASSUME NEW c \in Case, GrowOld(c) PROVE CaseInv(d)'
  BY <1>0, <1>3 DEF GrowOld, loopVars, procVars
<1>4. ASSUME NEW c \in Case, ClaimInvestigation(c) PROVE CaseInv(d)'
  BY <1>0, <1>4 DEF ClaimInvestigation, Claimable, Goto, procVars
<1>5. ASSUME NEW c \in Case, EventGenStarts(c) PROVE CaseInv(d)'
  BY <1>0, <1>5 DEF EventGenStarts, Goto, dbVars, procVars
<1>6. ASSUME NEW c \in Case, Disconnect(c) PROVE CaseInv(d)'
  BY <1>0, <1>6 DEF Disconnect, dbVars, procVars
<1>7. ASSUME NEW c \in Case, JoinQueue(c) PROVE CaseInv(d)'
  BY <1>0, <1>7 DEF JoinQueue, Emit, Goto, dbVars, procVars
<1>8. ASSUME NEW c \in Case, StartAtOnce(c) PROVE CaseInv(d)'
  BY <1>0, <1>8 DEF StartAtOnce, StartScan, Goto, dbVars, procVars
<1>9. ASSUME NEW c \in Case, AcquireSlot(c) PROVE CaseInv(d)'
  <2>1. pc[c] = "waiting"
    BY <1>9 DEF AcquireSlot, IInv, QueueInv
  <2> QED
    BY <1>0, <1>9, <2>1 DEF AcquireSlot, StartScan, Goto, dbVars, procVars
<1>10. ASSUME NEW c \in Case, PipelineReturns(c) PROVE CaseInv(d)'
  BY <1>0, <1>10 DEF PipelineReturns, Goto, dbVars, procVars
<1>11. ASSUME NEW c \in Case, PipelineRaises(c) PROVE CaseInv(d)'
  BY <1>0, <1>11 DEF PipelineRaises, Fail, SetInvestigation, Exists, Emit, Goto, procVars
<1>12. ASSUME NEW c \in Case, RecordDone(c) PROVE CaseInv(d)'
  BY <1>0, <1>12 DEF RecordDone, SetInvestigation, Exists, Emit, Goto, procVars
<1>13. ASSUME NEW c \in Case, RecordDoneRaises(c) PROVE CaseInv(d)'
  BY <1>0, <1>13 DEF RecordDoneRaises, Fail, SetInvestigation, Exists, Emit, Goto, procVars
<1>14. ASSUME NEW c \in Case, SaveRun(c) PROVE CaseInv(d)'
  <2>1. CASE d # c
    <3>1. /\ pc'[d] = pc[d] /\ announced'[d] = announced[d] /\ runs'[d] = runs[d]
          /\ UNCHANGED <<row, starts, deleting>>
      BY <1>0, <1>14, <2>1 DEF SaveRun, Emit, Goto
    <3>2. RowInv(d)'
      BY <1>0, <3>1
    <3>3. StartsInv(d)'
      BY <1>0, <3>1
    <3>4. AnnouncedInv(d)'
      BY <1>0, <3>1
    <3> QED
      BY <3>2, <3>3, <3>4
  <2>2. CASE d = c
    <3>1. /\ pc[d] = "saving" /\ pc'[d] = "ended"
          /\ UNCHANGED <<row, starts, deleting>>
      BY <1>0, <1>14, <2>2 DEF SaveRun, Goto
    <3>2. \/ /\ runs'[d] = runs[d] + 1
             /\ announced'[d] = announced[d] \union {"saved", "end"}
          \/ /\ runs'[d] = runs[d]
             /\ announced'[d] = announced[d] \union {"end"}
      BY <1>0, <1>14, <2>2 DEF SaveRun, Emit
    <3>3. "done" \in announced[d] /\ runs[d] = 0 /\ starts[d] = 1 /\ row[d] \in {"done", "gone"}
      BY <1>0, <3>1
    <3>4. "done" \in announced'[d] /\ "fatal" \notin announced'[d]
      BY <1>0, <3>2, <3>3
    <3>5. runs'[d] <= 1 /\ (runs'[d] = 1 => "saved" \in announced'[d])
      BY <3>2, <3>3
    <3> QED
      BY <3>1, <3>3, <3>4, <3>5
  <2> QED
    BY <2>1, <2>2
<1>15. ASSUME NEW c \in Case, DeleteReads(c) PROVE CaseInv(d)'
  BY <1>0, <1>15 DEF DeleteReads, Exists, dbVars, loopVars, procVars
<1>16. ASSUME NEW c \in Case, DeleteCommits(c) PROVE CaseInv(d)'
  BY <1>0, <1>16 DEF DeleteCommits, loopVars, procVars
<1>17. ASSUME NEW c \in Case, DeleteHistoryRun(c) PROVE CaseInv(d)'
  BY <1>0, <1>17 DEF DeleteHistoryRun, loopVars, procVars
<1>18. ASSUME Crash PROVE CaseInv(d)'
  BY <1>0, <1>18 DEF Crash, ProcessLost
<1>19. ASSUME Shutdown PROVE CaseInv(d)'
  <2>1. pc'[d] = "none" /\ deleting' = {} /\ UNCHANGED <<runs, starts>>
    BY <1>19 DEF Shutdown, ProcessLost
  <2>2. \/ row'[d] = row[d]
        \/ pc[d] \in {"waiting", "scanning"} /\ Exists(d) /\ row'[d] = "cancelled"
    BY <1>19 DEF Shutdown
  <2>3. \/ announced'[d] = announced[d]
        \/ pc[d] \in {"waiting", "scanning"} /\ announced'[d] = announced[d] \union {"end"}
    BY <1>19 DEF Shutdown
  <2>4. CASE pc[d] \in {"waiting", "scanning"}
    <3>1. /\ announced[d] \subseteq {"queued"} /\ row[d] \in {"running", "gone"}
          /\ runs[d] # 1
      BY <1>0, <2>4
    <3>2. announced'[d] \subseteq {"queued", "end"}
      BY <2>3, <3>1
    <3>3. row'[d] \in {"running", "gone", "cancelled"}
      BY <2>2, <3>1
    <3> QED
      BY <1>0, <2>1, <3>1, <3>2, <3>3
  <2>5. CASE pc[d] \notin {"waiting", "scanning"}
    BY <1>0, <2>1, <2>2, <2>3, <2>5
  <2> QED
    BY <2>4, <2>5
<1>20. ASSUME Restart PROVE CaseInv(d)'
  <2>1. UNCHANGED <<runs, loopVars, deleting>>
    BY <1>20 DEF Restart
  <2>2. \/ row'[d] = row[d]
        \/ row[d] \in {"running", "pending"} /\ row'[d] = "interrupted"
    BY <1>0, <1>20 DEF Restart, SweepStuckInvestigations
  <2>3. pc[d] = "none"
    BY <1>20 DEF Restart, IInv
  <2> QED
    BY <1>0, <2>1, <2>2, <2>3 DEF loopVars
<1>21. CASE UNCHANGED vars
  BY <1>0, <1>21 DEF vars, dbVars, loopVars, procVars
<1> QED
  BY <1>1, <1>2, <1>3, <1>4, <1>5, <1>6, <1>7, <1>8, <1>9, <1>10, <1>11, <1>12,
     <1>13, <1>14, <1>15, <1>16, <1>17, <1>18, <1>19, <1>20, <1>21
     DEF Next, Coordinator, Requests, Environment

-----------------------------------------------------------------------------
(* A step of a coordinator that neither joins nor leaves the queue keeps   *)
(* the queue in order.                                                     *)
LEMMA QueueUnmoved ==
  ASSUME IInv, UNCHANGED waiting, NEW c \in Case,
         \A d \in Case \ {c} : pc'[d] = pc[d],
         \A d \in Case : announced[d] \subseteq announced'[d],
         pc'[c] # pc[c] => pc[c] # "waiting" /\ pc'[c] # "waiting"
  PROVE  QueueInv'
BY DEF IInv, QueueInv

(* The semaphore queue holds exactly the waiting coordinators, once each.  *)
LEMMA QueueStep ==
  ASSUME IInv, [Next]_vars
  PROVE  QueueInv'
<1>0. TypeOK /\ QueueInv
  BY DEF IInv
<1>1. CASE UNCHANGED <<pc, waiting, announced>>
  BY <1>0, <1>1 DEF QueueInv
<1>2. ASSUME NEW c \in Case,
             \/ ClaimInvestigation(c) \/ EventGenStarts(c) \/ StartAtOnce(c) \/ PipelineReturns(c)
             \/ PipelineRaises(c) \/ RecordDone(c) \/ RecordDoneRaises(c) \/ SaveRun(c)
      PROVE  QueueInv'
  <2>1. pc[c] # "waiting"
    BY <1>0, <1>2 DEF IInv, RowInv, Untouched, Claimable, ClaimInvestigation, EventGenStarts,
       StartAtOnce, PipelineReturns, PipelineRaises, RecordDone, RecordDoneRaises, SaveRun
  <2>2. /\ UNCHANGED waiting
        /\ \E p \in Places \ {"waiting"} : pc' = [pc EXCEPT ![c] = p]
    BY <1>2 DEF ClaimInvestigation, EventGenStarts, StartAtOnce, StartScan, PipelineReturns,
       PipelineRaises, RecordDone, RecordDoneRaises, SaveRun, Fail, Goto, Places
  <2>3. UNCHANGED announced \/ \E es : announced' = [announced EXCEPT ![c] = @ \union es]
    BY <1>2 DEF ClaimInvestigation, EventGenStarts, StartAtOnce, StartScan, PipelineReturns,
       PipelineRaises, RecordDone, RecordDoneRaises, SaveRun, Fail, Emit
  <2>4. \A d \in Case : announced[d] \subseteq announced'[d]
    BY <1>0, <2>3 DEF TypeOK
  <2> QED
    BY <1>0, <2>1, <2>2, <2>4, QueueUnmoved DEF TypeOK
<1>3. ASSUME NEW c \in Case, JoinQueue(c) PROVE QueueInv'
  <2>1. /\ pc[c] = "created" /\ pc' = [pc EXCEPT ![c] = "waiting"]
        /\ waiting' = Append(waiting, c)
        /\ announced' = [announced EXCEPT ![c] = @ \union {"queued"}]
    BY <1>3 DEF JoinQueue, Goto, Emit
  <2>2. \A i \in DOMAIN waiting : waiting[i] # c
    BY <1>0, <2>1 DEF QueueInv
  <2>3. /\ DOMAIN waiting' = 1 .. (Len(waiting) + 1) /\ DOMAIN waiting = 1 .. Len(waiting)
        /\ Len(waiting) \in Nat
        /\ \A i \in DOMAIN waiting : waiting'[i] = waiting[i]
        /\ waiting'[Len(waiting) + 1] = c
    BY <1>0, <2>1 DEF TypeOK
  <2>4. \A d \in Case : pc'[d] = "waiting" <=> \E i \in DOMAIN waiting' : waiting'[i] = d
    BY SMTT(30), <1>0, <2>1, <2>3 DEF TypeOK, QueueInv
  <2>5. \A i, j \in DOMAIN waiting' : waiting'[i] = waiting'[j] => i = j
    BY <1>0, <2>2, <2>3 DEF QueueInv
  <2>6. \A d \in Case : pc'[d] = "waiting" => "queued" \in announced'[d]
    BY <1>0, <2>1 DEF TypeOK, QueueInv
  <2> QED
    BY <2>4, <2>5, <2>6 DEF QueueInv
<1>4. ASSUME NEW c \in Case, AcquireSlot(c) PROVE QueueInv'
  <2>1. /\ pc' = [pc EXCEPT ![c] = "scanning"] /\ UNCHANGED announced
        /\ waiting # <<>> /\ c = Head(waiting) /\ waiting' = Tail(waiting)
    BY <1>4 DEF AcquireSlot, StartScan, Goto
  <2>2. /\ Len(waiting) \in Nat \ {0} /\ c = waiting[1]
        /\ DOMAIN waiting = 1 .. Len(waiting)
        /\ DOMAIN waiting' = 1 .. (Len(waiting) - 1)
        /\ \A i \in DOMAIN waiting' : waiting'[i] = waiting[i + 1]
    BY <1>0, <2>1 DEF TypeOK
  <2>3. \A i, j \in DOMAIN waiting' : waiting'[i] = waiting'[j] => i = j
    BY <1>0, <2>2 DEF QueueInv
  <2>4. \A d \in Case : (\E i \in DOMAIN waiting' : waiting'[i] = d)
                         <=> d # c /\ \E i \in DOMAIN waiting : waiting[i] = d
    <3> SUFFICES ASSUME NEW d \in Case
                 PROVE  (\E i \in DOMAIN waiting' : waiting'[i] = d)
                        <=> d # c /\ \E i \in DOMAIN waiting : waiting[i] = d
      OBVIOUS
    <3>1. ASSUME NEW i \in DOMAIN waiting', waiting'[i] = d
          PROVE  d # c /\ \E j \in DOMAIN waiting : waiting[j] = d
      BY <1>0, <2>2, <3>1 DEF QueueInv
    <3>2. ASSUME d # c, NEW i \in DOMAIN waiting, waiting[i] = d
          PROVE  \E j \in DOMAIN waiting' : waiting'[j] = d
      <4>1. i - 1 \in DOMAIN waiting' /\ waiting'[i - 1] = d
        BY <2>2, <3>2
      <4> QED
        BY <4>1
    <3> QED
      BY <3>1, <3>2
  <2>5. \A d \in Case : pc'[d] = "waiting" <=> d # c /\ pc[d] = "waiting"
    BY <1>0, <2>1 DEF TypeOK
  <2>6. \A d \in Case : pc'[d] = "waiting" <=> \E i \in DOMAIN waiting' : waiting'[i] = d
    BY <1>0, <2>4, <2>5 DEF QueueInv
  <2>7. \A d \in Case : pc'[d] = "waiting" => "queued" \in announced'[d]
    BY <1>0, <2>1, <2>5 DEF QueueInv
  <2> QED
    BY <2>3, <2>6, <2>7 DEF QueueInv
<1>5. CASE Crash \/ Shutdown
  BY <1>5 DEF Crash, Shutdown, ProcessLost, QueueInv
<1>6. ASSUME NEW c \in Case, NEW src \in Case,
             \/ CreateInvestigation(c) \/ RerunInvestigation(c, src) \/ GrowOld(c) \/ Disconnect(c)
             \/ DeleteReads(c) \/ DeleteCommits(c) \/ DeleteHistoryRun(c) \/ Restart \/ UNCHANGED vars
      PROVE  QueueInv'
  BY <1>1, <1>6 DEF CreateInvestigation, RerunInvestigation, GrowOld, Disconnect, DeleteReads,
     DeleteCommits, DeleteHistoryRun, Restart, vars, loopVars
<1>7. CASE UNCHANGED vars
  BY <1>1, <1>7 DEF vars, loopVars
<1>8. CASE Restart
  BY <1>1, <1>8 DEF Restart, loopVars
<1> QED
  BY <1>2, <1>3, <1>4, <1>5, <1>6, <1>7, <1>8 DEF Next, Coordinator, Requests, Environment

-----------------------------------------------------------------------------
(* Never more pipelines than slots: a coordinator starts scanning only     *)
(* while a slot is free.                                                   *)
LEMMA SlotStep ==
  ASSUME IInv, [Next]_vars
  PROVE  Cardinality(Scanning)' <= MaxConcurrent
<1>0. /\ TypeOK /\ IsFiniteSet(Case) /\ MaxConcurrent \in Nat \ {0}
      /\ Cardinality(Scanning) <= MaxConcurrent
  BY InvestigationAssumption DEF IInv
<1>1. IsFiniteSet(Scanning) /\ Cardinality(Scanning) \in Nat
  BY <1>0, FS_Subset, FS_CardinalityType DEF Scanning
<1>2. ASSUME NEW c \in Case, StartScan(c), Cardinality(Scanning) < MaxConcurrent
      PROVE  Cardinality(Scanning)' <= MaxConcurrent
  <2>1. Scanning' = Scanning \union {c}
    BY <1>0, <1>2 DEF StartScan, Goto, Scanning, TypeOK
  <2>2. Cardinality(Scanning \union {c}) \in {Cardinality(Scanning), Cardinality(Scanning) + 1}
    BY <1>1, FS_AddElement, Zenon
  <2>3. Cardinality(Scanning') \in {Cardinality(Scanning), Cardinality(Scanning) + 1}
    BY <2>1, <2>2, Zenon
  <2> QED
    BY <1>0, <1>1, <1>2, <2>3
<1>3. ASSUME Scanning' \subseteq Scanning
      PROVE  Cardinality(Scanning)' <= MaxConcurrent
  BY <1>0, <1>1, <1>3, FS_Subset, FS_CardinalityType
<1>4. ASSUME NEW c \in Case, StartAtOnce(c) \/ AcquireSlot(c)
      PROVE  Cardinality(Scanning)' <= MaxConcurrent
  <2>1. Cardinality(Scanning) < MaxConcurrent /\ StartScan(c)
    BY <1>0, <1>1, <1>4 DEF StartAtOnce, AcquireSlot, Locked
  <2> QED
    BY <1>2, <2>1
<1>5. ASSUME NEW c \in Case, NEW p \in Places \ {"scanning"}, Goto(c, p)
      PROVE  Scanning' \subseteq Scanning
  BY <1>0, <1>5 DEF Goto, Scanning, TypeOK
<1>6. ASSUME UNCHANGED pc \/ pc' = [c \in Case |-> "none"]
      PROVE  Scanning' \subseteq Scanning
  BY <1>6 DEF Scanning
<1>7. ASSUME NEW c \in Case,
             \/ ClaimInvestigation(c) \/ EventGenStarts(c) \/ JoinQueue(c) \/ PipelineReturns(c)
             \/ PipelineRaises(c) \/ RecordDone(c) \/ RecordDoneRaises(c) \/ SaveRun(c)
      PROVE  Scanning' \subseteq Scanning
  <2>1. \E p \in Places \ {"scanning"} : Goto(c, p)
    BY <1>7 DEF ClaimInvestigation, EventGenStarts, JoinQueue, PipelineReturns, PipelineRaises,
       RecordDone, RecordDoneRaises, SaveRun, Fail, Places
  <2> QED
    BY <1>5, <2>1
<1>8. ASSUME NEW c \in Case, NEW src \in Case,
             \/ CreateInvestigation(c) \/ RerunInvestigation(c, src) \/ GrowOld(c) \/ Disconnect(c)
             \/ DeleteReads(c) \/ DeleteCommits(c) \/ DeleteHistoryRun(c)
      PROVE  UNCHANGED pc
  BY <1>8 DEF CreateInvestigation, RerunInvestigation, GrowOld, Disconnect, DeleteReads,
     DeleteCommits, DeleteHistoryRun, loopVars
<1>9. ASSUME Crash \/ Shutdown \/ Restart \/ UNCHANGED vars
      PROVE  UNCHANGED pc \/ pc' = [c \in Case |-> "none"]
  BY <1>9 DEF Crash, Shutdown, Restart, ProcessLost, vars, loopVars
<1> QED
  BY <1>3, <1>4, <1>6, <1>7, <1>8, <1>9 DEF Next, Coordinator, Requests, Environment

(* A dead process has no coordinators, and a swept one owns what runs.     *)
LEMMA OwnedStep ==
  ASSUME IInv, [Next]_vars
  PROVE  (~up => \A c \in Case : pc[c] = "none")' /\ RunningIsOwned'
<1>0. /\ TypeOK /\ RunningIsOwned
      /\ \A c \in Case : RowInv(c) /\ CaseInv(c)'
      /\ ~up => \A c \in Case : pc[c] = "none"
  BY CaseStep DEF IInv
<1>1. ASSUME NEW c \in Case, Coordinator(c) \/ Requests(c) \/ Environment(c), up
      PROVE  up' = up /\ swept' = swept
  BY <1>1 DEF Coordinator, Requests, Environment, CreateInvestigation, RerunInvestigation,
     ClaimInvestigation, EventGenStarts, Disconnect, JoinQueue, StartAtOnce, StartScan, AcquireSlot,
     PipelineReturns, PipelineRaises, RecordDone, RecordDoneRaises, Fail, SaveRun, DeleteReads,
     DeleteCommits, DeleteHistoryRun, GrowOld, procVars
<1>2. ASSUME NEW c \in Case, Coordinator(c) \/ Requests(c) \/ Environment(c), up
      PROVE  (\A d \in Case : row[d] = "running" => pc[d] \notin {"none", "ended"})
             => (\A d \in Case : row[d] = "running" => pc[d] \notin {"none", "ended"})'
  <2> SUFFICES ASSUME NEW d \in Case, row[d] = "running" => pc[d] \notin {"none", "ended"},
                      row'[d] = "running"
               PROVE  pc'[d] \notin {"none", "ended"}
    OBVIOUS
  <2>1. pc'[d] # "ended"
    BY <1>0 DEF CaseInv, RowInv
  <2>2. pc'[d] # "none"
    BY <1>0, <1>2 DEF Coordinator, Requests, Environment, CreateInvestigation, RerunInvestigation,
       ClaimInvestigation, Claimable, EventGenStarts, Disconnect, JoinQueue, StartAtOnce, StartScan,
       AcquireSlot, PipelineReturns, PipelineRaises, RecordDone, RecordDoneRaises, Fail, SaveRun,
       SetInvestigation, DeleteReads, DeleteCommits, DeleteHistoryRun, GrowOld, Goto, TypeOK,
       dbVars, loopVars
  <2> QED
    BY <2>1, <2>2
<1>3. ASSUME NEW c \in Case, ~up, Coordinator(c) \/ Requests(c) \/ Environment(c)
      PROVE  UNCHANGED <<up, swept, pc>>
  BY <1>0, <1>3 DEF Coordinator, Requests, Environment, CreateInvestigation, RerunInvestigation,
     ClaimInvestigation, EventGenStarts, Disconnect, JoinQueue, StartAtOnce, StartScan, AcquireSlot,
     PipelineReturns, PipelineRaises, RecordDone, RecordDoneRaises, Fail, SaveRun, DeleteReads,
     DeleteCommits, DeleteHistoryRun, GrowOld, LoopFree, procVars, loopVars
<1>4. CASE \E c \in Case : Coordinator(c) \/ Requests(c) \/ Environment(c)
  BY <1>0, <1>1, <1>2, <1>3, <1>4 DEF RunningIsOwned, TypeOK
<1>5. CASE Crash \/ Shutdown
  BY <1>5 DEF Crash, Shutdown, ProcessLost, RunningIsOwned
<1>6. CASE Restart
  BY <1>6 DEF Restart, SweepStuckInvestigations, RunningIsOwned
<1>7. CASE UNCHANGED vars
  BY <1>0, <1>7 DEF vars, loopVars, dbVars, procVars, RunningIsOwned
<1> QED
  BY <1>4, <1>5, <1>6, <1>7 DEF Next

(* The invariant is inductive. *)
LEMMA InvariantStep == IInv /\ [Next]_vars => IInv'
<1> SUFFICES ASSUME IInv, [Next]_vars PROVE IInv'
  OBVIOUS
<1>1. TypeOK'
  BY TypeStep DEF IInv
<1>2. \A c \in Case : RowInv(c)' /\ StartsInv(c)' /\ AnnouncedInv(c)'
  BY CaseStep DEF CaseInv
<1> QED
  BY <1>1, <1>2, QueueStep, SlotStep, OwnedStep DEF IInv

THEOREM InductiveInvariant == Spec => []IInv
<1>1. Init => IInv
  <2> SUFFICES ASSUME Init PROVE IInv
    OBVIOUS
  <2>1. TypeOK
    BY DEF Init, TypeOK, Statuses, Places
  <2>2. Scanning = {}
    BY DEF Init, Scanning
  <2>3. Cardinality(Scanning) <= MaxConcurrent
    BY <2>2, FS_EmptySet, InvestigationAssumption
  <2>4. QueueInv
    BY DEF Init, QueueInv
  <2>5. \A c \in Case : RowInv(c) /\ StartsInv(c) /\ AnnouncedInv(c)
    BY DEF Init, RowInv, StartsInv, AnnouncedInv, Untouched, Active
  <2> QED
    BY <2>1, <2>3, <2>4, <2>5 DEF Init, IInv, RunningIsOwned
<1> QED
  BY <1>1, InvariantStep, PTL DEF Spec

(* A case is scanned at most once in its life. *)
THEOREM RunsAtMostOnce == Spec => []AtMostOneRun
<1>1. IInv => AtMostOneRun
  BY DEF IInv, StartsInv, AtMostOneRun
<1> QED
  BY <1>1, InductiveInvariant, PTL

(* Pipelines never outnumber the slots, and the queue is exactly the set   *)
(* of coordinators that announced `queued` and wait.                       *)
THEOREM SlotsAreRespected == Spec => []SlotsRespected
<1>1. IInv => SlotsRespected
  BY DEF IInv, QueueInv, SlotsRespected
<1> QED
  BY <1>1, InductiveInvariant, PTL

(* A viewer told `done` can rely on the stored summary; `done` and `fatal` *)
(* exclude each other.                                                     *)
THEOREM VerdictStored == Spec => []VerdictIsStored
<1>1. IInv => VerdictIsStored
  BY DEF IInv, AnnouncedInv, VerdictIsStored
<1> QED
  BY <1>1, InductiveInvariant, PTL

(* The history row of a case exists at most once, after its run. *)
THEOREM HistoryFollows == Spec => []HistoryFollowsTheRun
<1>1. IInv => HistoryFollowsTheRun
  BY DEF IInv, AnnouncedInv, HistoryFollowsTheRun
<1> QED
  BY <1>1, InductiveInvariant, PTL

-----------------------------------------------------------------------------
(* Refinement of CaseLifecycle.  Told is the refinement mapping's second   *)
(* component: the verdict among the announcements.                         *)
Told == [c \in Case |-> Verdict(c)]
lifecycle == <<row, Told>>

(* Announcing a verdict changes exactly that viewer's verdict. *)
LEMMA VerdictAnnounced ==
  ASSUME TypeOK, NEW c \in Case, NEW es \in SUBSET Lifecycle, Emit(c, es),
         Verdict(c) = "none" \/ es \cap {"done", "fatal"} = {}
  PROVE  Told' = [Told EXCEPT ![c] = IF "done" \in es THEN "done"
                                     ELSE IF "fatal" \in es THEN "fatal" ELSE Verdict(c)]
BY DEF Told, Verdict, Emit, TypeOK

(* Failing a run settles the case, or reports a failure nobody stored.     *)
LEMMA FailRefines ==
  ASSUME IInv, NEW c \in Case, pc[c] \in {"scanning", "settling"}, Fail(c)
  PROVE  Lifecycles!Settle(c) \/ Lifecycles!Tell(c)
<1>1. TypeOK /\ row[c] \in {"running", "gone"} /\ announced[c] \subseteq {"queued"}
  BY DEF IInv, RowInv, AnnouncedInv, Active
<1>2. Verdict(c) = "none" /\ Told[c] = "none"
  BY <1>1 DEF Verdict, Told
<1>3. Told' = [Told EXCEPT ![c] = "fatal"]
  BY <1>1, <1>2, VerdictAnnounced DEF Fail, Lifecycle
<1>4. CASE row' = SetInvestigation(c, "failed") /\ row[c] = "running"
  BY <1>1, <1>2, <1>3, <1>4 DEF SetInvestigation, Exists, Told, Lifecycles!Settle, Lifecycles!Move
<1>5. CASE row' = row
  BY <1>1, <1>2, <1>3, <1>5 DEF Told, Lifecycles!Tell
<1>6. CASE row' = SetInvestigation(c, "failed") /\ row[c] = "gone"
  BY <1>5, <1>6 DEF SetInvestigation, Exists
<1> QED
  BY <1>1, <1>4, <1>5, <1>6 DEF Fail

(* Every step of the program is a step of the promised lifecycle, or none. *)
LEMMA LifecycleStep ==
  ASSUME IInv, [Next]_vars
  PROVE  [Lifecycles!LifecycleNext]_lifecycle
<1> USE DEF lifecycle
<1>0. TypeOK /\ \A c \in Case : RowInv(c) /\ AnnouncedInv(c)
  BY DEF IInv
<1>1. ASSUME UNCHANGED announced PROVE UNCHANGED Told
  BY <1>1 DEF Told, Verdict
<1>2. ASSUME NEW c \in Case, NEW src \in Case, CreateInvestigation(c) \/ RerunInvestigation(c, src)
      PROVE  Lifecycles!Open(c)
  BY <1>1, <1>2 DEF CreateInvestigation, RerunInvestigation, loopVars, Told, Lifecycles!Open, Lifecycles!Move
<1>3. ASSUME NEW c \in Case, ClaimInvestigation(c) PROVE Lifecycles!Claim(c)
  BY <1>1, <1>3 DEF ClaimInvestigation, Claimable, Told, Lifecycles!Claim, Lifecycles!Move
<1>4. ASSUME NEW c \in Case,
             \/ GrowOld(c) \/ EventGenStarts(c) \/ Disconnect(c) \/ StartAtOnce(c) \/ AcquireSlot(c)
             \/ PipelineReturns(c) \/ DeleteReads(c) \/ DeleteHistoryRun(c)
      PROVE  UNCHANGED <<row, announced>>
  BY <1>4 DEF GrowOld, EventGenStarts, Disconnect, StartAtOnce, StartScan, AcquireSlot,
     PipelineReturns, DeleteReads, DeleteHistoryRun, dbVars, loopVars
<1>5. ASSUME NEW c \in Case, JoinQueue(c) \/ SaveRun(c) PROVE UNCHANGED lifecycle
  <2>1. UNCHANGED row /\ \E es \in SUBSET {"queued", "saved", "end"} : Emit(c, es)
    BY <1>5 DEF JoinQueue, SaveRun, dbVars
  <2>2. Told' = [Told EXCEPT ![c] = Verdict(c)]
    BY <1>0, <2>1, VerdictAnnounced DEF Lifecycle
  <2> QED
    BY <2>1, <2>2 DEF Told
<1>6. ASSUME NEW c \in Case, PipelineRaises(c) \/ RecordDoneRaises(c)
      PROVE  Lifecycles!Settle(c) \/ Lifecycles!Tell(c)
  BY <1>6, FailRefines DEF PipelineRaises, RecordDoneRaises
<1>7. ASSUME NEW c \in Case, RecordDone(c) PROVE Lifecycles!Settle(c) \/ Lifecycles!Tell(c)
  <2>1. row[c] \in {"running", "gone"} /\ announced[c] \subseteq {"queued"}
    BY <1>0, <1>7 DEF RecordDone, RowInv, AnnouncedInv, Active
  <2>2. Verdict(c) = "none" /\ Told[c] = "none"
    BY <2>1 DEF Verdict, Told
  <2>3. Told' = [Told EXCEPT ![c] = "done"]
    BY <1>0, <1>7, <2>2, VerdictAnnounced DEF RecordDone, Lifecycle
  <2>4. CASE row[c] = "running"
    BY <1>7, <2>2, <2>3, <2>4 DEF RecordDone, SetInvestigation, Exists, Told, Lifecycles!Settle, Lifecycles!Move
  <2>5. CASE row[c] = "gone"
    BY <1>7, <2>2, <2>3, <2>5 DEF RecordDone, SetInvestigation, Exists, Told, Lifecycles!Tell
  <2> QED
    BY <2>1, <2>4, <2>5
<1>8. ASSUME NEW c \in Case, DeleteCommits(c) PROVE Lifecycles!Delete(c) \/ UNCHANGED lifecycle
  <2>1. UNCHANGED Told /\ row' = [row EXCEPT ![c] = "gone"] /\ row[c] # "absent"
    BY <1>0, <1>1, <1>8 DEF DeleteCommits, loopVars, RowInv
  <2> QED
    BY <1>0, <2>1 DEF Lifecycles!Delete, Lifecycles!Move, Lifecycles!Settled, Told, TypeOK,
       Statuses, TERMINAL_STATUSES
<1>9. ASSUME Crash PROVE UNCHANGED lifecycle
  BY <1>1, <1>9 DEF Crash
<1>10. ASSUME Shutdown PROVE Lifecycles!CloseUnfinished
  <2>1. PICK cancelled \in SUBSET {c \in Case : pc[c] \in {"waiting", "scanning"}} :
          row' = [c \in Case |-> IF c \in cancelled /\ Exists(c) THEN "cancelled" ELSE row[c]]
    BY <1>10 DEF Shutdown
  <2>2. \A c \in cancelled : row[c] \in {"running", "gone"}
    BY <1>0 DEF RowInv, Active
  <2>3. UNCHANGED Told
    BY <1>0, <1>10 DEF Shutdown, Told, Verdict, TypeOK
  <2> DEFINE S == {c \in cancelled : row[c] = "running"}
  <2>4. row' = [c \in Case |-> IF c \in S THEN "cancelled" ELSE row[c]]
    BY <2>1, <2>2 DEF Exists
  <2>5. S \in SUBSET Case /\ \A c \in S : row[c] = "running"
    OBVIOUS
  <2>6. UNCHANGED [c \in Case |-> Verdict(c)]
    BY <2>3 DEF Told
  <2> HIDE DEF S
  <2> QED
    BY <2>4, <2>5, <2>6 DEF Lifecycles!CloseUnfinished
<1>11. ASSUME Restart PROVE Lifecycles!CloseUnfinished \/ UNCHANGED lifecycle
  <2>1. UNCHANGED Told
    BY <1>1, <1>11 DEF Restart, loopVars
  <2> DEFINE S == {c \in Case : row[c] = "running" \/ (row[c] = "pending" /\ c \in aged)}
  <2>2. CASE row' = [c \in Case |-> IF c \in S THEN "interrupted" ELSE row[c]]
    <3>1. S \in SUBSET Case /\ \A c \in S : row[c] \in {"running", "pending"}
      OBVIOUS
    <3>2. UNCHANGED [c \in Case |-> Verdict(c)]
      BY <2>1 DEF Told
    <3> HIDE DEF S
    <3> QED
      BY <2>2, <3>1, <3>2 DEF Lifecycles!CloseUnfinished
  <2>3. CASE UNCHANGED row
    BY <2>1, <2>3
  <2> QED
    BY <1>11, <2>2, <2>3 DEF Restart, SweepStuckInvestigations
<1>12. CASE UNCHANGED vars
  BY <1>1, <1>12 DEF vars, dbVars, loopVars
<1> QED
  BY <1>1, <1>2, <1>3, <1>4, <1>5, <1>6, <1>7, <1>8, <1>9, <1>10, <1>11, <1>12
     DEF Next, Coordinator, Requests, Environment, Lifecycles!LifecycleNext

(* The program implements the lifecycle its users are promised. *)
THEOREM Refinement == Spec => ImplementsLifecycle
<1>1. Init => Lifecycles!LifecycleInit
  BY DEF Init, Lifecycles!LifecycleInit, Verdict
<1>2. IInv /\ [Next]_vars => [Lifecycles!LifecycleNext]_(Lifecycles!lifecycleVars)
  BY LifecycleStep DEF lifecycle, Told, Lifecycles!lifecycleVars
<1> QED
  BY <1>1, <1>2, InductiveInvariant, PTL DEF Spec, ImplementsLifecycle, Lifecycles!LifecycleSpec

(* A settled status changes only by deletion, and a deleted case stays     *)
(* deleted.                                                                *)
THEOREM TerminalFinal == Spec => TerminalIsFinal
<1>1. IInv /\ [Next]_vars =>
        [\A c \in Case :
           /\ row[c] \in TERMINAL_STATUSES => row'[c] \in {row[c], "gone"}
           /\ row[c] = "gone" => row'[c] = "gone"]_vars
  <2> SUFFICES ASSUME IInv, [Next]_vars, NEW c \in Case
               PROVE  /\ row[c] \in TERMINAL_STATUSES => row'[c] \in {row[c], "gone"}
                      /\ row[c] = "gone" => row'[c] = "gone"
    OBVIOUS
  <2>1. TypeOK
    BY DEF IInv
  <2>2. [Lifecycles!LifecycleNext]_lifecycle
    BY LifecycleStep
  <2> QED
    BY <2>1, <2>2 DEF lifecycle, TERMINAL_STATUSES, TypeOK, Lifecycles!LifecycleNext, Lifecycles!Open,
       Lifecycles!Claim, Lifecycles!Delete, Lifecycles!Settle, Lifecycles!Tell, Lifecycles!Move,
       Lifecycles!CloseUnfinished, Lifecycles!Settled
<1> QED
  BY <1>1, InductiveInvariant, PTL DEF Spec, TerminalIsFinal

-----------------------------------------------------------------------------
(* The semaphore never comes to stand: its slots are held by coordinators  *)
(* that work (`async with sem`), so that with nobody at work all are free, *)
(* and the queue is of coordinators that wait, so that its head is one.    *)
THEOREM SlotsComeBack == Spec => []NobodyStarves
<1>1. IInv => NobodyStarves
  <2> SUFFICES ASSUME IInv, up, NEW c \in Case, pc[c] \in Working,
                      \A d \in Case : ~CanGoOn(d)
               PROVE  FALSE
    BY DEF NobodyStarves
  <2>1. LoopFree
    BY DEF CanGoOn, LoopFree
  <2>2. \A d \in Case : pc[d] \notin {"created", "scanning"}
    BY <2>1 DEF CanGoOn
  <2>3. pc[c] = "waiting"
    BY <2>1, <2>2 DEF Working, LoopFree
  <2>4. PICK i \in DOMAIN waiting : waiting[i] = c
    BY <2>3 DEF IInv, QueueInv
  <2>5. waiting # <<>> /\ Head(waiting) \in Case
    BY <2>4 DEF IInv, TypeOK
  <2>6. Scanning = {}
    BY <2>2 DEF Scanning
  <2>7. Cardinality(Scanning) < MaxConcurrent
    BY <2>6, FS_EmptySet, InvestigationAssumption
  <2> QED
    BY <2>1, <2>5, <2>7 DEF CanGoOn
<1> QED
  BY <1>1, InductiveInvariant, PTL

(* The head of the queue is a coordinator that waits.                      *)
LEMMA HeadWaits ==
  ASSUME IInv, waiting # <<>>
  PROVE  Head(waiting) \in Case /\ pc[Head(waiting)] = "waiting"
<1>1. waiting \in Seq(Case) /\ 1 \in DOMAIN waiting /\ Head(waiting) = waiting[1]
  BY DEF IInv, TypeOK
<1> QED
  BY <1>1 DEF IInv, QueueInv

(* asyncio.Semaphore.locked() counts those that queue: a coordinator that  *)
(* arrives between the release of a slot and the start of the first in the *)
(* queue queues behind the others.                                         *)
THEOREM FirstComeFirstServed == Spec => NobodyOvertakes
<1>1. ASSUME IInv, [Next]_vars, NEW c \in Case
      PROVE  /\ pc[c] # "scanning" /\ pc'[c] = "scanning" => waiting = <<>> \/ c = Head(waiting)
             /\ pc[c] \in Working => pc'[c] = pc[c] \/ ~up' \/ Rank(pc[c]) < Rank(pc'[c])
  <2>0. pc \in [Case -> Places] /\ (~up => \A d \in Case : pc[d] = "none")
        /\ \A d \in Case : RowInv(d)
    BY <1>1 DEF IInv, TypeOK
  <2>1. ASSUME NEW d \in Case, Coordinator(d), c # d
        PROVE  pc'[c] = pc[c]
    BY <2>0, <2>1 DEF Coordinator, JoinQueue, StartAtOnce, StartScan, AcquireSlot, PipelineReturns,
       PipelineRaises, RecordDone, RecordDoneRaises, Fail, SaveRun, Goto
  <2>2. CASE JoinQueue(c)
    BY <2>0, <2>2 DEF JoinQueue, Goto, Rank, Working
  <2>3. CASE StartAtOnce(c)
    BY <2>0, <2>3 DEF StartAtOnce, StartScan, Goto, Rank, Working, Locked
  <2>4. CASE AcquireSlot(c)
    <3>1. pc[c] = "waiting"
      BY <1>1, <2>4, HeadWaits DEF AcquireSlot
    <3> QED
      BY <2>0, <2>4, <3>1 DEF AcquireSlot, StartScan, Goto, Rank, Working
  <2>5. CASE PipelineReturns(c)
    BY <2>0, <2>5 DEF PipelineReturns, Goto, Rank, Working
  <2>6. CASE PipelineRaises(c) \/ RecordDoneRaises(c)
    BY <2>0, <2>6 DEF PipelineRaises, RecordDoneRaises, Fail, Goto, Rank, Working
  <2>7. CASE RecordDone(c)
    BY <2>0, <2>7 DEF RecordDone, Goto, Rank, Working
  <2>8. CASE SaveRun(c)
    BY <2>0, <2>8 DEF SaveRun, Goto, Rank, Working
  <2>9. ASSUME NEW d \in Case, Requests(d) \/ Environment(d)
        PROVE  pc'[c] = pc[c] \/ (pc[c] \notin Working /\ pc'[c] # "scanning")
    BY <2>0, <2>9 DEF Requests, Environment, CreateInvestigation, RerunInvestigation,
       ClaimInvestigation, Claimable, EventGenStarts, Disconnect, GrowOld, DeleteReads, DeleteCommits,
       DeleteHistoryRun, Goto, loopVars, Working, RowInv, Untouched
  <2>10. CASE Crash \/ Shutdown
    BY <2>10 DEF Crash, Shutdown, ProcessLost
  <2>11. CASE Restart \/ UNCHANGED vars
    BY <2>11 DEF Restart, vars, loopVars
  <2> QED
    BY <1>1, <2>1, <2>2, <2>3, <2>4, <2>5, <2>6, <2>7, <2>8, <2>9, <2>10, <2>11 DEF Next, Coordinator
<1>2. IInv /\ [Next]_vars =>
        [\A c \in Case :
           /\ pc[c] # "scanning" /\ pc'[c] = "scanning" => waiting = <<>> \/ c = Head(waiting)
           /\ pc[c] \in Working => pc'[c] = pc[c] \/ ~up' \/ Rank(pc[c]) < Rank(pc'[c])]_vars
  BY <1>1
<1> QED
  BY <1>2, InductiveInvariant, PTL DEF Spec, NobodyOvertakes

-----------------------------------------------------------------------------
(* The sentinel.  What a step does to a case: nothing, or it begins with   *)
(* nothing said of an end, works on, ends and says so, or is lost.         *)
Begins(c) == /\ pc[c] \in {"none", "claimed"} /\ pc'[c] \in {"claimed", "created"}
             /\ announced'[c] = announced[c] /\ "end" \notin announced[c]
WorksOn(c) == /\ {pc[c], pc'[c]} \subseteq Working
              /\ announced'[c] \subseteq announced[c] \union {"queued", "done"}
EndsItself(c) == pc[c] \in Working /\ pc'[c] \in {"ended", "unrecorded"} /\ "end" \in announced'[c]
IsLost(c) == pc'[c] = "none" /\ (announced'[c] = announced[c] \/ pc[c] \in Working)
StreamStep(c) == \/ UNCHANGED <<pc[c], announced[c]>>
                 \/ Begins(c) \/ WorksOn(c) \/ EndsItself(c) \/ IsLost(c)

LEMMA StreamsStep ==
  ASSUME IInv, [Next]_vars, NEW c \in Case
  PROVE  StreamStep(c)
<1>0. /\ pc \in [Case -> Places] /\ announced \in [Case -> SUBSET Lifecycle]
      /\ RowInv(c) /\ AnnouncedInv(c)
  BY DEF IInv, TypeOK
<1>1. ASSUME NEW d \in Case, Coordinator(d), c # d
      PROVE  UNCHANGED <<pc[c], announced[c]>>
  BY <1>0, <1>1 DEF Coordinator, JoinQueue, StartAtOnce, StartScan, AcquireSlot, PipelineReturns,
     PipelineRaises, RecordDone, RecordDoneRaises, Fail, SaveRun, Goto, Emit
<1>2. CASE JoinQueue(c)
  BY <1>0, <1>2 DEF JoinQueue, Goto, Emit, WorksOn, Working, StreamStep
<1>3. CASE StartAtOnce(c)
  BY <1>0, <1>3 DEF StartAtOnce, StartScan, Goto, WorksOn, Working, StreamStep
<1>4. CASE AcquireSlot(c)
  <2>1. pc[c] = "waiting"
    BY <1>4, HeadWaits DEF AcquireSlot
  <2> QED
    BY <1>0, <1>4, <2>1 DEF AcquireSlot, StartScan, Goto, WorksOn, Working, StreamStep
<1>5. CASE PipelineReturns(c)
  BY <1>0, <1>5 DEF PipelineReturns, Goto, WorksOn, Working, StreamStep
<1>6. CASE PipelineRaises(c) \/ RecordDoneRaises(c)
  BY <1>0, <1>6 DEF PipelineRaises, RecordDoneRaises, Fail, Goto, Emit, EndsItself, Working,
     StreamStep
<1>7. CASE RecordDone(c)
  BY <1>0, <1>7 DEF RecordDone, Goto, Emit, WorksOn, Working, StreamStep
<1>8. CASE SaveRun(c)
  BY <1>0, <1>8 DEF SaveRun, Goto, Emit, EndsItself, Working, StreamStep
<1>9. ASSUME NEW d \in Case, Requests(d) \/ Environment(d)
      PROVE  UNCHANGED <<pc[c], announced[c]>> \/ Begins(c)
  <2>1. CASE ClaimInvestigation(d) \/ EventGenStarts(d)
    BY <1>0, <2>1 DEF ClaimInvestigation, Claimable, EventGenStarts, Goto, Begins, RowInv, Untouched,
       AnnouncedInv, Active
  <2>2. CASE ~(ClaimInvestigation(d) \/ EventGenStarts(d))
    BY <1>9, <2>2 DEF Requests, Environment, CreateInvestigation, RerunInvestigation, Disconnect,
       GrowOld, DeleteReads, DeleteCommits, DeleteHistoryRun, loopVars
  <2> QED
    BY <2>1, <2>2
<1>10. CASE Crash \/ Shutdown
  BY <1>0, <1>10 DEF Crash, Shutdown, ProcessLost, IsLost, Working, StreamStep
<1>11. CASE Restart \/ UNCHANGED vars
  BY <1>11 DEF Restart, vars, loopVars, StreamStep
<1> QED
  BY <1>1, <1>2, <1>3, <1>4, <1>5, <1>6, <1>7, <1>8, <1>9, <1>10, <1>11 DEF Next, Coordinator, StreamStep

(* run_investigation's finally: every coordinator that ends by itself puts *)
(* the sentinel on its viewer's queue, however its run went and whether or *)
(* not its status could be stored.                                         *)
THEOREM EndsAreTold == Spec => []EndedIsTold
<1>1. Init => EndedIsTold
  BY DEF Init, EndedIsTold, Working
<1>2. IInv /\ EndedIsTold /\ [Next]_vars => EndedIsTold'
  BY StreamsStep DEF EndedIsTold, StreamStep, Begins, WorksOn, EndsItself, IsLost, Working
<1> QED
  BY <1>1, <1>2, InductiveInvariant, PTL DEF Spec

(* event_gen stops at the sentinel: nothing is put on the queue behind it, *)
(* so no event is lost for having come after the end.                      *)
THEOREM NothingAfterTheEnd == Spec => SentinelIsLast
<1>1. IInv /\ EndedIsTold /\ [Next]_vars =>
        [\A c \in Case : "end" \in announced[c] => announced'[c] = announced[c]]_vars
  BY StreamsStep DEF EndedIsTold, StreamStep, Begins, WorksOn, EndsItself, IsLost
<1> QED
  BY <1>1, InductiveInvariant, EndsAreTold, PTL DEF Spec, SentinelIsLast
=============================================================================
