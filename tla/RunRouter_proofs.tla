--------------------------- MODULE RunRouter_proofs ---------------------------
(***************************************************************************)
(* Theorems about RunRouter for any passes, plans, site sets and cap: the  *)
(* retries a run reports add up, a check is never re-scanned twice, and a  *)
(* run that returned flushed all it observed.                              *)
(***************************************************************************)
EXTENDS RunRouter, FiniteSetTheorems, TLAPS

(* What is drained for a retry is a finite set of the worker's own sites,  *)
(* and each registered re-scan has been charged.                           *)
Counted ==
  /\ picked \in [Worker -> SUBSET Site]
  /\ \A w \in Worker : IsFiniteSet(picked[w])
  /\ retriesDone \in Nat /\ recovered \in Nat /\ IsFiniteSet(retrying)
  /\ RetriesAddUp

(* The keys of a batch of sites are as many as the sites, at most. *)
LEMMA KeysOfSites ==
  ASSUME NEW sites, IsFiniteSet(sites), NEW h
  PROVE  /\ IsFiniteSet({<<h, site>> : site \in sites})
         /\ Cardinality({<<h, site>> : site \in sites}) <= Cardinality(sites)
<1> DEFINE keys == {<<h, site>> : site \in sites}
           f == [site \in sites |-> <<h, site>>]
<1>1. f \in Surjection(sites, keys)
  BY DEF Surjection
<1> QED
  BY <1>1, FS_Surjection

(* Registering a batch adds no more to the awaited re-scans than it        *)
(* charges.                                                                *)
LEMMA Registered ==
  ASSUME NEW waiting, IsFiniteSet(waiting), NEW sites, IsFiniteSet(sites), NEW h
  PROVE  LET keys == {<<h, site>> : site \in sites}
         IN  /\ IsFiniteSet(waiting \union keys)
             /\ Cardinality(waiting \union keys) <= Cardinality(waiting) + Cardinality(sites)
<1> DEFINE keys == {<<h, site>> : site \in sites}
<1>1. IsFiniteSet(keys) /\ Cardinality(keys) <= Cardinality(sites)
  BY KeysOfSites
<1>2. /\ IsFiniteSet(waiting \union keys)
      /\ Cardinality(waiting \union keys)
           = Cardinality(waiting) + Cardinality(keys) - Cardinality(waiting \intersect keys)
  BY <1>1, FS_Union
<1>3. IsFiniteSet(waiting \intersect keys)
  BY <1>1, FS_Intersection
<1>4. /\ Cardinality(waiting) \in Nat /\ Cardinality(keys) \in Nat
      /\ Cardinality(sites) \in Nat /\ Cardinality(waiting \intersect keys) \in Nat
  BY <1>1, <1>3, FS_CardinalityType
<1> HIDE DEF keys
<1>5. Cardinality(waiting \union keys) <= Cardinality(waiting) + Cardinality(sites)
  BY <1>1, <1>2, <1>4
<1> QED
  BY <1>2, <1>5 DEF keys

LEMMA CountedInit == Init => Counted
BY FS_EmptySet DEF Init, Counted, RetriesAddUp

(* Draining hands a pass a finite set of its own sites. *)
LEMMA RetryCounted ==
  ASSUME RunRouterAssumption, Counted, NEW w \in Worker, NEW sites \in SUBSET SiteData[w],
         Retry(w, sites)
  PROVE  /\ picked' \in [Worker -> SUBSET Site]
         /\ \A v \in Worker : IsFiniteSet(picked'[v])
<1>1. SiteData[w] \subseteq Site /\ IsFiniteSet(SiteData[w])
  BY DEF RunRouterAssumption
<1>2. IsFiniteSet(sites) /\ sites \in SUBSET Site
  BY <1>1, FS_Subset
<1>3. picked' \in {picked, [picked EXCEPT ![w] = sites]}
  BY DEF Retry
<1> QED
  BY <1>2, <1>3 DEF Counted

LEMMA CountedStep ==
  ASSUME RunRouterAssumption, Counted, [Next]_vars
  PROVE  Counted'
<1>0. Cardinality(retrying) \in Nat
  BY FS_CardinalityType DEF Counted
<1>1. ASSUME NEW w \in Worker, WorkerStep(w)
      PROVE  Counted'
  <2>1. CASE Scan(w) \/ Stop(w) \/ EndPass(w)
    BY <2>1 DEF Scan, Stop, EndPass, NextTurn, retryVars, Counted, RetriesAddUp
  <2>2. CASE DrainTransient(w)
    <3>1. PICK sites \in SUBSET SiteData[w] : Retry(w, sites)
      BY <2>2 DEF DrainTransient, TakePicked
    <3>2. /\ picked' \in [Worker -> SUBSET Site]
          /\ \A v \in Worker : IsFiniteSet(picked'[v])
      BY <3>1, RetryCounted
    <3> QED
      BY <2>2, <3>2 DEF DrainTransient, Counted, RetriesAddUp
  <2>3. CASE BeginRetries(w)
    <3> DEFINE keys == {<<Current(w), site>> : site \in picked[w]}
    <3>1. IsFiniteSet(picked[w]) /\ Cardinality(picked[w]) \in Nat
      BY FS_CardinalityType DEF Counted
    <3>2. /\ IsFiniteSet(retrying \union keys)
          /\ Cardinality(retrying \union keys) <= Cardinality(retrying) + Cardinality(picked[w])
      BY <3>1, Registered DEF Counted
    <3>3. Cardinality(retrying \union keys) \in Nat
      BY <3>2, FS_CardinalityType
    <3>4. /\ retriesDone' = retriesDone + Cardinality(picked[w])
          /\ retrying' = retrying \union keys
          /\ UNCHANGED <<picked, recovered>>
      BY <2>3 DEF BeginRetries
    <3> HIDE DEF keys
    <3>5. RetriesAddUp'
      BY <1>0, <3>1, <3>2, <3>3, <3>4 DEF Counted, RetriesAddUp
    <3> QED
      BY <3>1, <3>2, <3>4, <3>5 DEF Counted
  <2>4. CASE Rescan(w)
    <3>1. picked' = [picked EXCEPT ![w] = {}] /\ UNCHANGED retryVars
      BY <2>4 DEF Rescan
    <3> QED
      BY <3>1, FS_EmptySet DEF retryVars, Counted, RetriesAddUp
  <2>5. ASSUME NEW site \in Site, NEW outcome \in {"ok", "transient", "hard"},
               Observe(w, site, outcome)
        PROVE  Counted'
    <3> DEFINE key == <<Current(w), site>>
    <3>1. /\ retrying' = retrying \ {key}
          /\ recovered' = IF key \in retrying /\ outcome = "ok" THEN recovered + 1 ELSE recovered
          /\ UNCHANGED <<picked, retriesDone>>
      BY <2>5 DEF Observe, Tally
    <3>2. /\ IsFiniteSet(retrying \ {key})
          /\ Cardinality(retrying \ {key}) =
               IF key \in retrying THEN Cardinality(retrying) - 1 ELSE Cardinality(retrying)
      BY FS_RemoveElement DEF Counted
    <3>3. Cardinality(retrying \ {key}) \in Nat
      BY <3>2, FS_CardinalityType
    <3> HIDE DEF key
    <3>4. RetriesAddUp'
      BY <1>0, <3>1, <3>2, <3>3 DEF Counted, RetriesAddUp
    <3> QED
      BY <3>1, <3>2, <3>4 DEF Counted
  <2> QED
    BY <1>1, <2>1, <2>2, <2>3, <2>4, <2>5 DEF WorkerStep
<1>2. CASE Return \/ Cancel
  BY <1>2 DEF Return, Cancel, EndRun, workerVars, retryVars, Counted, RetriesAddUp
<1>3. CASE UNCHANGED vars
  BY <1>3 DEF vars, workerVars, retryVars, Counted, RetriesAddUp
<1> QED
  BY <1>1, <1>2, <1>3 DEF Next

(* RunRouter.begin_retries and observe: however the passes overlap, the    *)
(* retries reported as recovered and those still awaited never exceed the  *)
(* ones attempted.                                                         *)
THEOREM RetriesAdd == Spec => []RetriesAddUp
<1>1. Counted => RetriesAddUp
  BY DEF Counted
<1> QED
  BY <1>1, CountedInit, CountedStep, RunRouterAssumption, PTL DEF Spec
-----------------------------------------------------------------------------
(* A run that returned has no pass left, and its observations are flushed. *)
Flushed == run = "returned" => (\A w \in Worker : Over(w)) /\ flushed = observations

LEMMA FlushedStep ==
  ASSUME Flushed, [Next]_vars
  PROVE  Flushed'
<1>1. ASSUME NEW w \in Worker, WorkerStep(w)
      PROVE  Flushed'
  <2>1. Working(w)
    BY <1>1 DEF WorkerStep, Scan, Stop, DrainTransient, BeginRetries, Rescan, EndPass,
                Observe, Tally
  <2>2. run # "returned"
    BY <2>1 DEF Flushed, Over
  <2>3. run' = run
    BY <1>1 DEF WorkerStep, Scan, Stop, DrainTransient, BeginRetries, Rescan, EndPass,
                Observe, Tally, NextTurn
  <2> QED
    BY <2>2, <2>3 DEF Flushed
<1>2. CASE Return
  BY <1>2 DEF Return, EndRun, Flushed, Over, Working, workerVars
<1>3. CASE Cancel
  BY <1>3 DEF Cancel, EndRun, Flushed
<1>4. CASE UNCHANGED vars
  BY <1>4 DEF vars, workerVars, Flushed, Over, Working
<1> QED
  BY <1>1, <1>2, <1>3, <1>4 DEF Next

(* RunRouter.finish, called when run_pipeline has awaited its passes: what *)
(* a returned run observed has reached the store.                          *)
THEOREM ReturnFlushes == Spec => []ReturnedRunFlushesAll
<1>1. Init => Flushed
  BY DEF Init, Flushed
<1>2. Flushed => ReturnedRunFlushesAll
  BY DEF Flushed, ReturnedRunFlushesAll
<1> QED
  BY <1>1, <1>2, FlushedStep, PTL DEF Spec
-----------------------------------------------------------------------------
(* How often a check may have been registered: once, from the moment its   *)
(* pass has registered its retries.                                        *)
Allowed(w, i) ==
  IF turn[w] > i \/ (turn[w] = i /\ stage[w] \in {"rescan", "rereport"}) THEN 1 ELSE 0

Spent ==
  /\ stage \in [Worker -> Stages] /\ turn \in [Worker -> Nat]
  /\ \A w \in Worker : turn[w] >= 1
  /\ rescans \in [Key -> Nat]
  /\ \A w \in Worker : \A i \in DOMAIN Plan[w] : \A site \in Site :
       Sole(Plan[w][i]) => rescans[<<Plan[w][i], site>>] <= Allowed(w, i)

LEMMA PlanTypes ==
  ASSUME RunRouterAssumption, NEW w \in Worker
  PROVE  /\ Len(Plan[w]) \in Nat /\ DOMAIN Plan[w] = 1..Len(Plan[w])
         /\ \A i \in DOMAIN Plan[w] : i \in Nat /\ Plan[w][i] \in Handle
BY DEF RunRouterAssumption

(* The pass of a handle with one pass is known by the handle. *)
LEMMA SolePass ==
  ASSUME NEW v \in Worker, NEW i \in DOMAIN Plan[v], NEW w \in Worker, NEW j \in DOMAIN Plan[w],
         Plan[v][i] = Plan[w][j], Sole(Plan[v][i])
  PROVE  v = w /\ i = j
<1>1. <<v, i>> \in Passes(Plan[v][i]) /\ <<w, j>> \in Passes(Plan[v][i])
  BY DEF Passes
<1> QED
  BY <1>1 DEF Sole

LEMMA SpentInit == RunRouterAssumption /\ Init => Spent
<1> SUFFICES ASSUME RunRouterAssumption, Init PROVE Spent
  OBVIOUS
<1>1. \A w \in Worker : \A i \in DOMAIN Plan[w] : Plan[w][i] \in Handle
  BY PlanTypes
<1>2. \A w \in Worker, i \in Nat : Allowed(w, i) \in {0, 1}
  BY DEF Allowed
<1> QED
  BY <1>1, <1>2, PlanTypes DEF Init, Spent, Stages, Key, Allowed

(* A step that moves its worker forward and registers nothing. *)
LEMMA MovesOn ==
  ASSUME RunRouterAssumption, Spent, NEW w \in Worker, Working(w), rescans' = rescans,
         NEW to \in Stages,
         \/ /\ stage' = [stage EXCEPT ![w] = to] /\ turn' = turn
            /\ stage[w] \in {"rescan", "rereport"} => to = "rereport"
         \/ stage' = [stage EXCEPT ![w] = "scan"] /\ turn' = [turn EXCEPT ![w] = @ + 1]
  PROVE  Spent'
<1>1. /\ stage' \in [Worker -> Stages] /\ turn' \in [Worker -> Nat] /\ (\A v \in Worker : turn'[v] >= 1)
      /\ rescans' \in [Key -> Nat]
  <2>1. stage' \in [Worker -> Stages]
    BY DEF Spent, Stages
  <2>2. turn' \in [Worker -> Nat]
    BY DEF Spent
  <2>3. ASSUME NEW v \in Worker
        PROVE  turn'[v] >= 1
    <3>1. turn[v] \in Nat /\ turn[v] >= 1
      BY DEF Spent
    <3>2. turn'[v] = turn[v] \/ turn'[v] = turn[v] + 1
      BY DEF Spent
    <3> QED
      BY <3>1, <3>2
  <2> QED
    BY <2>1, <2>2, <2>3 DEF Spent
<1>2. ASSUME NEW v \in Worker, NEW i \in DOMAIN Plan[v], NEW site \in Site, Sole(Plan[v][i])
      PROVE  rescans'[<<Plan[v][i], site>>] <= Allowed(v, i)'
  <2>1. i \in Nat /\ <<Plan[v][i], site>> \in Key
    BY PlanTypes DEF Key
  <2>2. rescans[<<Plan[v][i], site>>] \in Nat /\ rescans[<<Plan[v][i], site>>] <= Allowed(v, i)
    BY <1>2, <2>1 DEF Spent
  <2>3. turn[v] \in Nat /\ (turn'[v] = turn[v] \/ turn'[v] = turn[v] + 1)
    BY DEF Spent
  <2>4. turn'[v] = turn[v] /\ stage[v] \in {"rescan", "rereport"}
        => stage'[v] \in {"rescan", "rereport"}
    BY <2>3 DEF Spent
  <2>5. Allowed(v, i) = 1 => Allowed(v, i)' = 1
    BY <2>1, <2>3, <2>4 DEF Allowed
  <2>6. Allowed(v, i) \in {0, 1} /\ Allowed(v, i)' \in {0, 1}
    BY DEF Allowed
  <2> QED
    BY <2>2, <2>5, <2>6
<1> QED
  BY <1>1, <1>2 DEF Spent

LEMMA SpentStep ==
  ASSUME RunRouterAssumption, Spent, [Next]_vars
  PROVE  Spent'
<1>1. ASSUME NEW w \in Worker, WorkerStep(w)
      PROVE  Spent'
  <2>0. Working(w)
    BY <1>1 DEF WorkerStep, Scan, Stop, DrainTransient, BeginRetries, Rescan, EndPass,
                Observe, Tally
  <2>1. CASE Scan(w)
    <3>1. PICK to \in {"report", "raised"} : stage' = [stage EXCEPT ![w] = to]
      BY <2>1 DEF Scan, Goto
    <3> QED
      BY <2>0, <2>1, <3>1, MovesOn DEF Scan, Stages, historyVars
  <2>2. CASE Stop(w)
    BY <2>0, <2>2, MovesOn DEF Stop, Goto, Stages, historyVars
  <2>3. CASE EndPass(w)
    BY <2>0, <2>3, MovesOn DEF EndPass, NextTurn, Goto, Stages, historyVars
  <2>4. CASE DrainTransient(w)
    <3>1. PICK sites : Retry(w, sites)
      BY <2>4 DEF DrainTransient, TakePicked
    <3>2. stage[w] = "report" /\ rescans' = rescans
      BY <2>4 DEF DrainTransient
    <3>3. CASE NextTurn(w)
      BY <2>0, <3>2, <3>3, MovesOn DEF NextTurn, Goto, Stages
    <3>4. CASE Goto(w, "begin") /\ UNCHANGED turn
      BY <2>0, <3>2, <3>4, MovesOn DEF Goto, Stages
    <3> QED
      BY <3>1, <3>3, <3>4 DEF Retry
  <2>5. CASE Rescan(w)
    BY <2>0, <2>5, MovesOn DEF Rescan, Goto, Stages, historyVars
  <2>6. CASE BeginRetries(w)
    <3>1. /\ stage[w] = "begin" /\ stage' = [stage EXCEPT ![w] = "rescan"] /\ turn' = turn
          /\ \A k \in Key : rescans'[k] = IF k \in {<<Current(w), site>> : site \in picked[w]}
                                          THEN rescans[k] + 1 ELSE rescans[k]
      BY <2>6 DEF BeginRetries, Goto
    <3>2. /\ stage' \in [Worker -> Stages] /\ turn' \in [Worker -> Nat] /\ (\A v \in Worker : turn'[v] >= 1)
          /\ rescans' \in [Key -> Nat]
      BY <2>6, <3>1 DEF BeginRetries, Spent, Stages
    <3>3. turn[w] \in DOMAIN Plan[w] /\ Current(w) = Plan[w][turn[w]]
      <4>1. turn[w] \in Nat /\ turn[w] >= 1 /\ turn[w] <= Len(Plan[w])
        BY <2>0 DEF Working, Spent
      <4> QED
        BY <4>1, PlanTypes DEF Current
    <3>4. ASSUME NEW v \in Worker, NEW i \in DOMAIN Plan[v], NEW site \in Site, Sole(Plan[v][i])
          PROVE  rescans'[<<Plan[v][i], site>>] <= Allowed(v, i)'
      <4> DEFINE k == <<Plan[v][i], site>>
      <4>1. i \in Nat /\ k \in Key
        BY PlanTypes DEF Key
      <4>2. rescans[k] \in Nat /\ rescans[k] <= Allowed(v, i)
        BY <3>4, <4>1 DEF Spent
      <4>3. CASE Plan[v][i] = Current(w)
        <5>1. v = w /\ i = turn[w]
          BY <3>3, <3>4, <4>3, SolePass
        <5>2. Allowed(v, i) = 0 /\ Allowed(v, i)' = 1
          BY <3>1, <4>1, <5>1 DEF Allowed, Spent
        <5>3. rescans'[k] \in {rescans[k], rescans[k] + 1}
          BY <3>1, <4>1
        <5> QED
          BY <4>2, <5>2, <5>3
      <4>4. CASE Plan[v][i] # Current(w)
        <5>1. rescans'[k] = rescans[k]
          BY <3>1, <4>1, <4>4
        <5>2. Allowed(v, i) = 1 => Allowed(v, i)' = 1
          BY <3>1, <4>1 DEF Allowed, Spent
        <5>3. Allowed(v, i) \in {0, 1} /\ Allowed(v, i)' \in {0, 1}
          BY DEF Allowed
        <5> QED
          BY <4>2, <5>1, <5>2, <5>3
      <4> QED
        BY <4>3, <4>4
    <3> QED
      BY <3>2, <3>4 DEF Spent
  <2>7. ASSUME NEW site \in Site, NEW outcome \in {"ok", "transient", "hard"},
               Observe(w, site, outcome)
        PROVE  Spent'
    BY <2>7 DEF Observe, Tally, Spent, Allowed
  <2> QED
    BY <1>1, <2>1, <2>2, <2>3, <2>4, <2>5, <2>6, <2>7 DEF WorkerStep
<1>2. CASE Return \/ Cancel \/ UNCHANGED vars
  BY <1>2 DEF Return, Cancel, EndRun, workerVars, historyVars, vars, Spent, Allowed
<1> QED
  BY <1>1, <1>2 DEF Next

(* RunRouter.drain_transient and begin_retries: a check whose handle has   *)
(* one pass is re-scanned once at most, whatever other passes leave in the *)
(* queue they share.                                                       *)
THEOREM RetriedOnlyOnce == Spec => []NeverTwice
<1>1. RunRouterAssumption /\ Spent => NeverTwice
  <2> SUFFICES ASSUME RunRouterAssumption, Spent, NEW k \in Key, Sole(k[1])
               PROVE  rescans[k] <= 1
    BY DEF NeverTwice
  <2>1. PICK w \in Worker : \E i \in DOMAIN Plan[w] : Plan[w][i] = k[1]
    BY DEF Sole, Passes
  <2>2. PICK i \in DOMAIN Plan[w] : Plan[w][i] = k[1]
    BY <2>1
  <2>3. k = <<Plan[w][i], k[2]>> /\ k[2] \in Site
    BY <2>2 DEF Key
  <2>4. rescans[k] <= Allowed(w, i) /\ rescans[k] \in Nat
    BY <2>2, <2>3 DEF Spent
  <2> QED
    BY <2>4 DEF Allowed
<1> QED
  BY <1>1, SpentInit, SpentStep, RunRouterAssumption, PTL DEF Spec
-----------------------------------------------------------------------------
(* Where a pass stands with the sites it reports and the retries it took.  *)
InPlan ==
  /\ \A w \in Worker : turn[w] \in 1..(Len(Plan[w]) + 1)
  /\ pending \in [Worker -> SUBSET Site]
  /\ \A w \in Worker : pending[w] \subseteq SiteData[w] /\ picked[w] \subseteq SiteData[w]
  /\ owed \subseteq Key

LEMMA InPlanInit == RunRouterAssumption /\ Init => InPlan
<1> SUFFICES ASSUME RunRouterAssumption, Init PROVE InPlan
  OBVIOUS
<1>1. \A w \in Worker : turn[w] \in 1..(Len(Plan[w]) + 1)
  BY PlanTypes DEF Init
<1> QED
  BY <1>1 DEF Init, InPlan

LEMMA TurnTypes ==
  ASSUME RunRouterAssumption, Spent, NEW w \in Worker, Working(w)
  PROVE  turn[w] \in DOMAIN Plan[w] /\ Current(w) = Plan[w][turn[w]] /\ Current(w) \in Handle
<1>1. turn[w] \in Nat /\ turn[w] >= 1 /\ turn[w] <= Len(Plan[w])
  BY DEF Working, Spent
<1> QED
  BY <1>1, PlanTypes DEF Current

(* What a worker's step leaves alone, and how it may move that worker.     *)
Advance(w) ==
  \/ turn'[w] = turn[w] /\ (stage[w] = "rereport" => stage'[w] = "rereport")
  \/ turn'[w] = turn[w] + 1

LEMMA OneWorkerMoves ==
  ASSUME Spent, picked \in [Worker -> SUBSET Site], NEW v \in Worker, WorkerStep(v)
  PROVE  /\ Working(v) /\ Advance(v)
         /\ \A w \in Worker : w # v =>
              turn'[w] = turn[w] /\ stage'[w] = stage[w] /\ picked'[w] = picked[w]
<1> USE DEF Spent, Goto, Advance
<1>1. CASE Scan(v) \/ Stop(v)
  BY <1>1 DEF Scan, Stop
<1>2. CASE EndPass(v)
  BY <1>2 DEF EndPass, NextTurn
<1>3. CASE DrainTransient(v)
  BY <1>3 DEF DrainTransient, TakePicked, Retry, NextTurn
<1>4. CASE BeginRetries(v)
  BY <1>4 DEF BeginRetries
<1>5. CASE Rescan(v)
  BY <1>5 DEF Rescan
<1>6. CASE \E site \in Site, outcome \in {"ok", "transient", "hard"} : Observe(v, site, outcome)
  BY <1>6 DEF Observe, Tally
<1> QED
  BY <1>1, <1>2, <1>3, <1>4, <1>5, <1>6 DEF WorkerStep

LEMMA InPlanStep ==
  ASSUME RunRouterAssumption, Counted, Spent, InPlan, [Next]_vars
  PROVE  InPlan'
<1>1. ASSUME NEW v \in Worker, WorkerStep(v)
      PROVE  InPlan'
  <2>0. /\ Working(v) /\ Advance(v)
        /\ \A w \in Worker : w # v =>
             turn'[w] = turn[w] /\ stage'[w] = stage[w] /\ picked'[w] = picked[w]
    BY <1>1, OneWorkerMoves DEF Counted
  <2>1. ASSUME NEW w \in Worker
        PROVE  turn'[w] \in 1..(Len(Plan[w]) + 1)
    <3>1. turn[w] \in 1..(Len(Plan[w]) + 1) /\ Len(Plan[w]) \in Nat
      BY PlanTypes DEF InPlan
    <3>2. turn'[w] = turn[w] \/ (turn[w] <= Len(Plan[w]) /\ turn'[w] = turn[w] + 1)
      BY <2>0 DEF Advance, Working
    <3> QED
      BY <3>1, <3>2
  <2>2. pending' = pending \/ \E some \in SUBSET SiteData[v] : pending' = [pending EXCEPT ![v] = some]
    <3>1. CASE Scan(v)
      BY <3>1 DEF Scan
    <3>2. CASE Stop(v) \/ EndPass(v) \/ DrainTransient(v) \/ BeginRetries(v)
      BY <3>2 DEF Stop, EndPass, DrainTransient, BeginRetries
    <3>3. CASE Rescan(v)
      <4>1. picked[v] \subseteq SiteData[v]
        BY DEF InPlan
      <4> QED
        BY <3>3, <4>1 DEF Rescan
    <3>4. ASSUME NEW site \in Site, NEW outcome \in {"ok", "transient", "hard"},
                 Observe(v, site, outcome)
          PROVE  \E some \in SUBSET SiteData[v] : pending' = [pending EXCEPT ![v] = some]
      <4>1. pending' = [pending EXCEPT ![v] = pending[v] \ {site}]
        BY <3>4 DEF Observe, Tally
      <4>2. pending[v] \ {site} \in SUBSET SiteData[v]
        BY DEF InPlan
      <4> QED
        BY <4>1, <4>2
    <3> QED
      BY <1>1, <3>1, <3>2, <3>3, <3>4 DEF WorkerStep
  <2>3. picked' = picked \/ \E some \in SUBSET SiteData[v] : picked' = [picked EXCEPT ![v] = some]
    <3>1. CASE Scan(v) \/ Stop(v) \/ EndPass(v) \/ BeginRetries(v)
      BY <3>1 DEF Scan, Stop, EndPass, BeginRetries
    <3>2. CASE DrainTransient(v)
      BY <3>2 DEF DrainTransient, TakePicked, Retry
    <3>3. CASE Rescan(v)
      BY <3>3 DEF Rescan
    <3>4. CASE \E site \in Site, outcome \in {"ok", "transient", "hard"} : Observe(v, site, outcome)
      BY <3>4 DEF Observe, Tally
    <3> QED
      BY <1>1, <3>1, <3>2, <3>3, <3>4 DEF WorkerStep
  <2>4. /\ pending' \in [Worker -> SUBSET Site]
        /\ \A w \in Worker : pending'[w] \subseteq SiteData[w] /\ picked'[w] \subseteq SiteData[w]
    BY ZenonT(30), <2>2, <2>3 DEF InPlan, Counted, RunRouterAssumption
  <2>5. owed' \subseteq Key
    <3>1. Current(v) \in Handle
      BY <2>0, TurnTypes
    <3>2. owed' = owed \/ \E site \in Site : owed' = owed \union {<<Current(v), site>>}
      BY <1>1 DEF WorkerStep, Scan, Stop, EndPass, DrainTransient, BeginRetries, Rescan, Observe,
                  Tally, historyVars
    <3> QED
      BY <3>1, <3>2 DEF InPlan, Key
  <2> QED
    BY <2>1, <2>4, <2>5 DEF InPlan
<1>2. CASE Return \/ Cancel \/ UNCHANGED vars
  BY <1>2 DEF Return, Cancel, EndRun, workerVars, historyVars, vars, InPlan
<1> QED
  BY <1>1, <1>2 DEF Next
-----------------------------------------------------------------------------
(* What waits in the queue: failures of checks, of a re-scan only once the *)
(* turn has come to its re-scan.                                           *)
Rescanned(w, i) == turn[w] > i \/ (turn[w] = i /\ stage[w] = "rereport")

IsFailure(f) ==
  /\ f = <<f[1], f[2], f[3], f[4]>> /\ f[1] \in Worker
  /\ f[2] \in DOMAIN Plan[f[1]] /\ f[3] \in SiteData[f[1]] /\ f[4] \in {"scan", "rescan"}

Waiting ==
  /\ IsFiniteSet(transient)
  /\ \A f \in transient : IsFailure(f) /\ (f[4] = "rescan" => Rescanned(f[1], f[2]))

LEMMA WaitingInit == Init => Waiting
BY FS_EmptySet DEF Init, Waiting

LEMMA RescannedStays ==
  ASSUME RunRouterAssumption, Counted, Spent, NEW v \in Worker, WorkerStep(v),
         NEW w \in Worker, NEW i \in DOMAIN Plan[w], Rescanned(w, i)
  PROVE  Rescanned(w, i)'
<1>1. /\ Advance(v)
      /\ \A u \in Worker : u # v => turn'[u] = turn[u] /\ stage'[u] = stage[u]
  BY OneWorkerMoves DEF Counted
<1>2. turn[w] \in Nat /\ i \in Nat
  BY PlanTypes DEF Spent
<1> QED
  BY <1>1, <1>2 DEF Advance, Rescanned

LEMMA WaitingStep ==
  ASSUME RunRouterAssumption, Counted, Spent, InPlan, Waiting, [Next]_vars
  PROVE  Waiting'
<1>1. ASSUME NEW v \in Worker, WorkerStep(v)
      PROVE  Waiting'
  <2>1. \A w \in Worker : \A i \in DOMAIN Plan[w] : Rescanned(w, i) => Rescanned(w, i)'
    BY <1>1, RescannedStays
  <2>2. ASSUME transient' \subseteq transient
        PROVE  Waiting'
    <3>1. IsFiniteSet(transient')
      BY <2>2, FS_Subset DEF Waiting
    <3>2. ASSUME NEW f \in transient'
          PROVE  IsFailure(f) /\ (f[4] = "rescan" => Rescanned(f[1], f[2])')
      BY <2>1, <2>2 DEF Waiting, IsFailure
    <3> QED
      BY <3>1, <3>2 DEF Waiting, Rescanned
  <2>3. CASE Scan(v) \/ Stop(v) \/ EndPass(v) \/ BeginRetries(v) \/ Rescan(v)
    BY <2>2, <2>3 DEF Scan, Stop, EndPass, BeginRetries, Rescan, retryVars
  <2>4. CASE DrainTransient(v)
    BY <2>2, <2>4 DEF DrainTransient
  <2>5. ASSUME NEW site \in Site, NEW outcome \in {"ok", "transient", "hard"},
               Observe(v, site, outcome)
        PROVE  Waiting'
    <3> DEFINE e == <<v, turn[v], site, IF stage[v] = "rereport" THEN "rescan" ELSE "scan">>
    <3>1. transient' = transient \/ transient' = transient \union {e}
      BY <2>5 DEF Observe, Tally, Queue
    <3>2. /\ Working(v) /\ site \in pending[v]
          /\ UNCHANGED <<stage, turn>>
      BY <2>5 DEF Observe, Tally
    <3>3. turn[v] \in DOMAIN Plan[v] /\ site \in SiteData[v]
      BY <3>2, TurnTypes DEF InPlan
    <3>4. /\ e[1] = v /\ e[2] = turn[v] /\ e[3] = site /\ e[4] \in {"scan", "rescan"}
          /\ e = <<e[1], e[2], e[3], e[4]>>
          /\ e[4] = "rescan" => stage[v] = "rereport"
      OBVIOUS
    <3> HIDE DEF e
    <3>5. IsFailure(e)
      BY <3>2, <3>3, <3>4 DEF IsFailure
    <3>6. IsFiniteSet(transient')
      <4>1. IsFiniteSet(transient)
        BY DEF Waiting
      <4>2. IsFiniteSet(transient \union {e})
        BY <4>1, FS_AddElement
      <4> QED
        BY <3>1, <4>1, <4>2
    <3>7. ASSUME NEW f \in transient'
          PROVE  IsFailure(f) /\ (f[4] = "rescan" => Rescanned(f[1], f[2])')
      <4>1. CASE f \in transient
        BY <2>1, <4>1 DEF Waiting, IsFailure
      <4>2. CASE f = e
        BY <3>2, <3>4, <3>5, <4>2 DEF Rescanned
      <4> QED
        BY <3>1, <4>1, <4>2
    <3> QED
      BY <3>6, <3>7 DEF Waiting, Rescanned
  <2> QED
    BY <1>1, <2>3, <2>4, <2>5 DEF WorkerStep
<1>2. CASE Return \/ Cancel \/ UNCHANGED vars
  BY <1>2 DEF Return, Cancel, EndRun, workerVars, retryVars, vars, Waiting, Rescanned
<1> QED
  BY <1>1, <1>2 DEF Next
-----------------------------------------------------------------------------
(* A check that failed transiently, of a handle with one pass: it waits in *)
(* the queue until that pass drains it, and then it is drained, or what is *)
(* drained with the retries others have taken exhausts the cap.            *)
Served(k) == rescans[k] >= 1 \/ retriesDone >= RETRY_CAP

Attended(w, i, site) ==
  /\ turn[w] >= i /\ site \in SiteData[w]
  /\ turn[w] > i \/ stage[w] \in {"rescan", "rereport"} => Served(<<Plan[w][i], site>>)
  /\ turn[w] = i /\ stage[w] = "begin" =>
       site \in picked[w] \/ retriesDone + Cardinality(picked[w]) >= RETRY_CAP
  /\ turn[w] = i /\ stage[w] \in {"scan", "report", "raised", "stopped"} =>
       <<w, i, site, "scan">> \in transient

Kept ==
  \A w \in Worker : \A i \in DOMAIN Plan[w] : \A site \in Site :
    Sole(Plan[w][i]) /\ <<Plan[w][i], site>> \in owed => Attended(w, i, site)

Books == Counted /\ Spent /\ InPlan /\ Waiting

LEMMA BooksInit == RunRouterAssumption /\ Init => Books
BY CountedInit, SpentInit, InPlanInit, WaitingInit DEF Books

LEMMA BooksStep ==
  ASSUME RunRouterAssumption, Books, [Next]_vars
  PROVE  Books'
BY CountedStep, SpentStep, InPlanStep, WaitingStep DEF Books

(* Retries are only ever added.                                            *)
LEMMA RetriesGrow ==
  ASSUME Books, [Next]_vars
  PROVE  /\ retriesDone' >= retriesDone
         /\ \A k \in Key : rescans'[k] >= rescans[k]
<1>1. retriesDone \in Nat /\ rescans \in [Key -> Nat]
  BY DEF Books, Counted, Spent
<1>2. ASSUME NEW v \in Worker, BeginRetries(v)
      PROVE  /\ retriesDone' >= retriesDone
             /\ \A k \in Key : rescans'[k] >= rescans[k]
  <2>1. Cardinality(picked[v]) \in Nat
    BY FS_CardinalityType DEF Books, Counted
  <2>2. \A k \in Key : rescans'[k] \in {rescans[k], rescans[k] + 1}
    BY <1>2 DEF BeginRetries
  <2>3. retriesDone' = retriesDone + Cardinality(picked[v])
    BY <1>2 DEF BeginRetries
  <2> QED
    BY <1>1, <2>1, <2>2, <2>3
<1>3. CASE UNCHANGED <<retriesDone, rescans>>
  BY <1>1, <1>3
<1>4. ASSUME NEW v \in Worker, WorkerStep(v)
      PROVE  BeginRetries(v) \/ UNCHANGED <<retriesDone, rescans>>
  BY <1>4 DEF WorkerStep, Scan, Stop, EndPass, DrainTransient, Rescan, Observe, Tally,
              retryVars, historyVars
<1>5. Return \/ Cancel \/ UNCHANGED vars => UNCHANGED <<retriesDone, rescans>>
  BY DEF Return, Cancel, EndRun, retryVars, historyVars, vars
<1> QED
  BY <1>2, <1>3, <1>4, <1>5 DEF Next

LEMMA ServedStays ==
  ASSUME RunRouterAssumption, Books, [Next]_vars, NEW k \in Key, Served(k)
  PROVE  Served(k)'
<1>1. /\ retriesDone \in Nat /\ retriesDone' \in Nat /\ RETRY_CAP \in Nat
      /\ rescans[k] \in Nat /\ rescans'[k] \in Nat
  BY BooksStep DEF Books, Counted, Spent, RunRouterAssumption
<1>2. retriesDone' >= retriesDone /\ rescans'[k] >= rescans[k]
  BY RetriesGrow
<1> QED
  BY <1>1, <1>2 DEF Served

(* A step in which the pass itself stands still.                           *)
LEMMA StandsStill ==
  ASSUME RunRouterAssumption, Books, [Next]_vars,
         NEW w \in Worker, NEW i \in DOMAIN Plan[w], NEW site \in Site, Attended(w, i, site),
         turn'[w] = turn[w], stage'[w] = stage[w], picked'[w] = picked[w],
         <<w, i, site, "scan">> \in transient => <<w, i, site, "scan">> \in transient'
  PROVE  Attended(w, i, site)'
<1>1. <<Plan[w][i], site>> \in Key
  BY PlanTypes DEF Key
<1>2. Served(<<Plan[w][i], site>>) => Served(<<Plan[w][i], site>>)'
  BY <1>1, ServedStays
<1>3. /\ retriesDone \in Nat /\ retriesDone' \in Nat /\ RETRY_CAP \in Nat
      /\ Cardinality(picked[w]) \in Nat /\ retriesDone' >= retriesDone
  BY BooksStep, RetriesGrow, FS_CardinalityType DEF Books, Counted, RunRouterAssumption
<1>4. retriesDone + Cardinality(picked[w]) >= RETRY_CAP
      => retriesDone' + Cardinality(picked'[w]) >= RETRY_CAP
  BY <1>3
<1> QED
  BY <1>2, <1>4 DEF Attended

(* Only its own pass drains the failures of a handle with one pass.        *)
LEMMA SoleFailure ==
  ASSUME RunRouterAssumption, Books, NEW v \in Worker, Working(v),
         NEW f \in Mine(Current(v)), Sole(Current(v))
  PROVE  f[1] = v /\ f[2] = turn[v]
<1>1. IsFailure(f) /\ Plan[f[1]][f[2]] = Current(v)
  BY DEF Mine, Books, Waiting
<1>2. turn[v] \in DOMAIN Plan[v] /\ Current(v) = Plan[v][turn[v]]
  BY TurnTypes DEF Books
<1> QED
  BY <1>1, <1>2, SolePass DEF IsFailure

LEMMA OthersLeaveIt ==
  ASSUME RunRouterAssumption, Books, NEW v \in Worker, WorkerStep(v),
         NEW w \in Worker, v # w, NEW i \in DOMAIN Plan[w], Sole(Plan[w][i]),
         NEW site, <<w, i, site, "scan">> \in transient
  PROVE  <<w, i, site, "scan">> \in transient'
<1>1. CASE DrainTransient(v)
  <2>1. Working(v)
    BY <1>1 DEF DrainTransient
  <2>2. <<w, i, site, "scan">> \notin Mine(Current(v))
    <3> DEFINE f == <<w, i, site, "scan">>
    <3>1. f[1] = w /\ f[2] = i
      OBVIOUS
    <3> HIDE DEF f
    <3> SUFFICES ASSUME f \in Mine(Current(v)) PROVE FALSE
      BY DEF f
    <3>2. Sole(Current(v))
      BY <3>1 DEF Mine
    <3> QED
      BY <2>1, <3>1, <3>2, SoleFailure
  <2> QED
    BY <1>1, <2>2 DEF DrainTransient
<1>2. CASE ~DrainTransient(v)
  BY <1>2 DEF WorkerStep, Scan, Stop, EndPass, BeginRetries, Rescan, Observe, Tally, Queue,
              retryVars
<1> QED
  BY <1>1, <1>2

(* What the pass of such a handle drains: all of its failures, or as many  *)
(* sites as there is room for.                                             *)
LEMMA DrainTakes ==
  ASSUME RunRouterAssumption, Books, NEW w \in Worker, Working(w), stage[w] = "report",
         Sole(Current(w)), NEW pick \in SUBSET Mine(Current(w)),
         Cardinality(pick) = Least(Room, Cardinality(Mine(Current(w)))),
         NEW site \in SiteData[w], <<w, turn[w], site, "scan">> \in transient
  PROVE  LET sites == {f[3] : f \in pick} \intersect SiteData[w]
         IN  /\ sites = {} => retriesDone >= RETRY_CAP
             /\ site \in sites \/ retriesDone + Cardinality(sites) >= RETRY_CAP
<1> DEFINE sites == {f[3] : f \in pick} \intersect SiteData[w]
           M == Mine(Current(w))
           e == <<w, turn[w], site, "scan">>
<1>1. turn[w] \in Nat /\ Current(w) = Plan[w][turn[w]]
  BY TurnTypes DEF Books, Spent
<1>2. \A f \in M : /\ f = <<w, turn[w], f[3], "scan">>
                   /\ f[3] \in SiteData[w]
  <2> SUFFICES ASSUME NEW f \in M
               PROVE  f = <<w, turn[w], f[3], "scan">> /\ f[3] \in SiteData[w]
    OBVIOUS
  <2>1. f[1] = w /\ f[2] = turn[w]
    BY SoleFailure
  <2>2. f \in transient /\ IsFailure(f)
    BY DEF Mine, Books, Waiting
  <2>3. f[4] # "rescan"
    BY <1>1, <2>1, <2>2 DEF Books, Waiting, Rescanned
  <2>4. f[4] = "scan" /\ f[3] \in SiteData[w] /\ f = <<f[1], f[2], f[3], f[4]>>
    BY <2>1, <2>2, <2>3 DEF IsFailure
  <2> QED
    BY <2>1, <2>4
<1>3. IsFiniteSet(transient) /\ M \subseteq transient
  BY DEF Books, Waiting, Mine
<1>4. IsFiniteSet(M) /\ IsFiniteSet(pick)
  <2>1. IsFiniteSet(M)
    BY <1>3, FS_Subset
  <2> QED
    BY <2>1, FS_Subset
<1>5. e \in M /\ e[3] = site
  BY <1>1 DEF Mine
<1>6. IsFiniteSet(sites)
  <2>1. IsFiniteSet(SiteData[w])
    BY DEF RunRouterAssumption
  <2> QED
    BY <2>1, FS_Subset
<1>7. Cardinality(pick) <= Cardinality(sites)
  <2> DEFINE g == [f \in pick |-> f[3]]
  <2> HIDE DEF M
  <2>1. \A f \in pick : f[3] \in sites
    BY <1>2 DEF M
  <2>2. g \in [pick -> sites]
    BY <2>1
  <2>3. \A f1, f2 \in pick : f1[3] = f2[3] => f1 = f2
    BY <1>2 DEF M
  <2>4. g \in Injection(pick, sites)
    BY <2>2, <2>3 DEF Injection, IsInjective
  <2> HIDE DEF g, sites
  <2> QED
    BY <1>6, <2>4, FS_Injection
<1>8. /\ Cardinality(pick) \in Nat /\ Cardinality(M) \in Nat /\ Cardinality(sites) \in Nat
      /\ sites = {} => Cardinality(sites) = 0
  BY <1>4, <1>6, FS_CardinalityType, FS_EmptySet
<1>9. /\ retriesDone \in Nat /\ RETRY_CAP \in Nat /\ Room \in Nat
      /\ retriesDone + Room >= RETRY_CAP
  BY DEF Books, Counted, RunRouterAssumption, Room
<1>10. CASE Cardinality(pick) = Cardinality(M)
  <2>1. pick = M
    BY <1>4, <1>10, FS_Subset
  <2>2. site \in sites
    BY <1>5, <2>1
  <2> QED
    BY <2>2
<1>11. CASE Cardinality(pick) = Room
  <2> HIDE DEF sites
  <2>1. Cardinality(sites) >= Room
    BY <1>7, <1>8, <1>9, <1>11
  <2>2. sites = {} => retriesDone >= RETRY_CAP
    BY <1>8, <1>9, <2>1
  <2>3. retriesDone + Cardinality(sites) >= RETRY_CAP
    BY <1>8, <1>9, <2>1
  <2> QED
    BY <2>2, <2>3 DEF sites
<1> QED
  BY <1>10, <1>11 DEF Least

LEMMA KeptInit == Init => Kept
BY DEF Init, Kept

(* The pass itself goes on.                                                *)
LEMMA OwnStep ==
  ASSUME RunRouterAssumption, Books, [Next]_vars,
         NEW w \in Worker, WorkerStep(w), NEW i \in DOMAIN Plan[w], NEW site \in Site,
         Sole(Plan[w][i]), Attended(w, i, site)
  PROVE  Attended(w, i, site)'
<1> DEFINE k == <<Plan[w][i], site>>
           e == <<w, i, site, "scan">>
<1>1. k \in Key /\ i \in Nat
  BY PlanTypes DEF Key
<1>2. Served(k) => Served(k)'
  BY <1>1, ServedStays
<1>3. turn \in [Worker -> Nat] /\ stage \in [Worker -> Stages] /\ picked \in [Worker -> SUBSET Site]
  BY DEF Books, Spent, Counted
<1>4. turn[w] >= i /\ site \in SiteData[w] /\ turn[w] \in Nat
  BY <1>3 DEF Attended
<1>5. ASSUME turn'[w] = turn[w] + 1, turn[w] = i => Served(k)
      PROVE  Attended(w, i, site)'
  <2>1. turn'[w] > i /\ turn'[w] \in Nat
    BY <1>1, <1>4, <1>5
  <2>2. Served(k)
    BY <1>1, <1>4, <1>5 DEF Attended
  <2>3. turn'[w] # i /\ turn'[w] >= i
    BY <1>1, <1>4, <2>1
  <2> QED
    BY <1>2, <1>4, <2>2, <2>3 DEF Attended
<1>6. CASE Scan(w) \/ Stop(w)
  <2>1. /\ stage[w] \in {"scan", "raised"} /\ stage'[w] \in {"report", "raised", "stopped"}
        /\ UNCHANGED <<turn, picked, transient>>
    BY <1>3, <1>6 DEF Scan, Stop, Goto, retryVars
  <2> QED
    BY <1>2, <2>1 DEF Attended
<1>7. CASE EndPass(w)
  <2>1. turn'[w] = turn[w] + 1 /\ stage[w] = "rereport"
    BY <1>3, <1>7 DEF EndPass, NextTurn
  <2> QED
    BY <1>5, <2>1 DEF Attended
<1>8. CASE Rescan(w)
  <2>1. stage[w] = "rescan" /\ stage'[w] = "rereport" /\ UNCHANGED turn
    BY <1>3, <1>8 DEF Rescan, Goto
  <2> QED
    BY <1>2, <2>1 DEF Attended
<1>9. ASSUME NEW s \in Site, NEW outcome \in {"ok", "transient", "hard"}, Observe(w, s, outcome)
      PROVE  Attended(w, i, site)'
  <2>1. UNCHANGED <<turn, stage, picked>> /\ transient \subseteq transient'
    BY <1>9 DEF Observe, Tally, Queue
  <2> QED
    BY <2>1, StandsStill
<1>10. CASE BeginRetries(w)
  <2>1. /\ stage[w] = "begin" /\ stage'[w] = "rescan" /\ UNCHANGED turn
        /\ retriesDone' = retriesDone + Cardinality(picked[w])
        /\ rescans' = [q \in Key |-> IF q \in {<<Current(w), a>> : a \in picked[w]}
                                     THEN rescans[q] + 1 ELSE rescans[q]]
    BY <1>3, <1>10 DEF BeginRetries, Goto
  <2>2. ASSUME turn[w] = i PROVE Served(k)'
    <3>1. CASE site \in picked[w]
      <4>1. k \in {<<Current(w), a>> : a \in picked[w]}
        BY <2>2, <3>1 DEF Current
      <4>2. rescans'[k] = rescans[k] + 1 /\ rescans[k] \in Nat
        BY <1>1, <2>1, <4>1 DEF Books, Spent
      <4> QED
        BY <4>2 DEF Served
    <3>2. CASE retriesDone + Cardinality(picked[w]) >= RETRY_CAP
      BY <2>1, <3>2 DEF Served
    <3> QED
      BY <2>1, <2>2, <3>1, <3>2 DEF Attended
  <2> QED
    BY <1>2, <1>4, <2>1, <2>2 DEF Attended
<1>11. CASE DrainTransient(w)
  <2>1. Working(w) /\ stage[w] = "report" /\ retriesDone' = retriesDone
    BY <1>11 DEF DrainTransient
  <2>2. PICK pick \in SUBSET Mine(Current(w)) :
          /\ Cardinality(pick) = Least(Room, Cardinality(Mine(Current(w))))
          /\ TakePicked(w, pick)
    BY <1>11 DEF DrainTransient
  <2> DEFINE sites == {f[3] : f \in pick} \intersect SiteData[w]
  <2>3. turn[w] = i => /\ sites = {} => retriesDone >= RETRY_CAP
                       /\ site \in sites \/ retriesDone + Cardinality(sites) >= RETRY_CAP
    <3> SUFFICES ASSUME turn[w] = i
                 PROVE  /\ sites = {} => retriesDone >= RETRY_CAP
                        /\ site \in sites \/ retriesDone + Cardinality(sites) >= RETRY_CAP
      OBVIOUS
    <3>1. Current(w) = Plan[w][i] /\ <<w, turn[w], site, "scan">> \in transient
      BY <2>1 DEF Current, Attended
    <3>2. Sole(Current(w))
      BY <3>1
    <3> QED
      BY <1>4, <2>1, <2>2, <3>1, <3>2, DrainTakes
  <2>4. Retry(w, sites)
    BY <2>2 DEF TakePicked
  <2> HIDE DEF sites
  <2>5. CASE sites = {}
    <3>1. turn'[w] = turn[w] + 1
      BY <1>3, <2>4, <2>5 DEF Retry, NextTurn
    <3> QED
      BY <1>5, <2>3, <2>5, <3>1 DEF Served
  <2>6. CASE sites # {}
    <3>1. stage'[w] = "begin" /\ UNCHANGED turn /\ picked'[w] = sites
      BY <1>3, <2>4, <2>6 DEF Retry, Goto
    <3>2. turn[w] = i =>
            site \in picked'[w] \/ retriesDone' + Cardinality(picked'[w]) >= RETRY_CAP
      BY <2>1, <2>3, <3>1
    <3> QED
      BY <1>2, <3>1, <3>2 DEF Attended
  <2> QED
    BY <2>5, <2>6
<1> QED
  BY <1>6, <1>7, <1>8, <1>9, <1>10, <1>11 DEF WorkerStep

LEMMA KeptStep ==
  ASSUME RunRouterAssumption, Books, Kept, [Next]_vars
  PROVE  Kept'
<1> SUFFICES ASSUME NEW w \in Worker, NEW i \in DOMAIN Plan[w], NEW site \in Site,
                    Sole(Plan[w][i]), <<Plan[w][i], site>> \in owed'
             PROVE  Attended(w, i, site)'
  BY DEF Kept, Attended, Served
<1> DEFINE k == <<Plan[w][i], site>>
<1>1. CASE k \in owed
  <2>1. Attended(w, i, site)
    BY <1>1 DEF Kept
  <2>2. ASSUME NEW v \in Worker, WorkerStep(v)
        PROVE  Attended(w, i, site)'
    <3>1. CASE v = w
      BY <2>1, <2>2, <3>1, OwnStep
    <3>2. CASE v # w
      <4>1. turn'[w] = turn[w] /\ stage'[w] = stage[w] /\ picked'[w] = picked[w]
        BY <2>2, <3>2, OneWorkerMoves DEF Books, Counted
      <4> QED
        BY <2>1, <2>2, <3>2, <4>1, OthersLeaveIt, StandsStill
    <3> QED
      BY <3>1, <3>2
  <2>3. CASE Return \/ Cancel \/ UNCHANGED vars
    <3>1. UNCHANGED <<turn, stage, picked, transient>>
      BY <2>3 DEF Return, Cancel, EndRun, workerVars, retryVars, vars
    <3> QED
      BY <2>1, <3>1, StandsStill
  <2> QED
    BY <2>2, <2>3 DEF Next
<1>2. CASE k \notin owed
  <2>1. PICK v \in Worker : WorkerStep(v)
    <3>1. ~(Return \/ Cancel \/ UNCHANGED vars)
      BY <1>2 DEF Return, Cancel, EndRun, historyVars, vars
    <3> QED
      BY <3>1 DEF Next
  <2>2. ~(Scan(v) \/ Stop(v) \/ EndPass(v) \/ DrainTransient(v) \/ BeginRetries(v) \/ Rescan(v))
    BY <1>2 DEF Scan, Stop, EndPass, DrainTransient, BeginRetries, Rescan, historyVars
  <2>3. PICK s \in Site, outcome \in {"ok", "transient", "hard"} : Observe(v, s, outcome)
    BY <2>1, <2>2 DEF WorkerStep
  <2>4. /\ Working(v) /\ stage[v] \in {"report", "raised"} /\ outcome = "transient"
        /\ k = <<Current(v), s>> /\ s \in pending[v]
        /\ UNCHANGED <<stage, turn>>
        /\ <<v, turn[v], s, "scan">> \in transient'
    BY <1>2, <2>3 DEF Observe, Tally, Queue
  <2>5. s = site /\ Plan[w][i] = Current(v)
    BY <2>4
  <2>6. v = w /\ turn[v] = i
    BY <2>4, <2>5, TurnTypes, SolePass DEF Books
  <2>7. site \in SiteData[w] /\ i \in Nat
    BY <2>4, <2>5, <2>6, PlanTypes DEF Books, InPlan
  <2> QED
    BY <2>4, <2>5, <2>6, <2>7 DEF Attended
<1> QED
  BY <1>1, <1>2

(* RunRouter.observe, drain_transient and begin_retries: a check whose     *)
(* handle has one pass, if it failed transiently, is re-scanned exactly    *)
(* once by the time that pass is through, unless the run's retries are     *)
(* spent; it is never re-scanned twice, whatever other passes leave in and *)
(* take from the queue they share.                                         *)
THEOREM RetriedExactlyOnce == Spec => []RetriedOnce
<1>1. RunRouterAssumption /\ Books /\ Kept => NotForgotten
  <2> SUFFICES ASSUME RunRouterAssumption, Books, Kept, NEW w \in Worker,
                      NEW i \in 1..(turn[w] - 1), NEW k \in owed,
                      k[1] = Plan[w][i], Sole(k[1])
               PROVE  rescans[k] = 1 \/ retriesDone >= RETRY_CAP
    BY DEF NotForgotten
  <2>1. turn[w] \in 1..(Len(Plan[w]) + 1) /\ k \in Key
    BY DEF Books, InPlan
  <2>2. i \in DOMAIN Plan[w] /\ turn[w] > i
    BY <2>1, PlanTypes
  <2>3. k = <<Plan[w][i], k[2]>> /\ k[2] \in Site
    BY <2>1 DEF Key
  <2>4. Served(k)
    BY <2>2, <2>3 DEF Kept, Attended
  <2>5. rescans[k] \in Nat /\ rescans[k] <= 1
    <3>1. rescans[k] <= Allowed(w, i)
      BY <2>2, <2>3 DEF Books, Spent
    <3>2. rescans[k] \in Nat
      BY <2>1 DEF Books, Spent
    <3>3. Allowed(w, i) \in {0, 1}
      BY DEF Allowed
    <3> QED
      BY <3>1, <3>2, <3>3
  <2> QED
    BY <2>4, <2>5 DEF Served
<1>2. Spec => [](Books /\ Kept)
  BY BooksInit, BooksStep, KeptInit, KeptStep, RunRouterAssumption, PTL DEF Spec
<1>3. Spec => []NotForgotten
  BY <1>1, <1>2, RunRouterAssumption, PTL
<1> QED
  BY <1>3, RetriedOnlyOnce, PTL DEF RetriedOnce
=============================================================================
