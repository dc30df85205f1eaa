------------------------------- MODULE RunRouter -------------------------------
(***************************************************************************)
(* One run's RunRouter (recon/router.py) and the engine passes that share  *)
(* it (recon/pipeline.py): shards and engine tasks scan one handle after   *)
(* another, report every check through observe(), drain the transient      *)
(* failures of the pass they finished, register and re-scan them.          *)
(*                                                                         *)
(* Each RunRouter method holds the lock for its whole body, and only for   *)
(* that: drain_transient and begin_retries are two critical sections.      *)
(*                                                                         *)
(* A handle is a username under one engine.  Abstracted: error classes     *)
(* beyond transient or not, tallies, the order of a pass's own failures in *)
(* the queue (the engines report their sites in any order).                *)
(***************************************************************************)
EXTENDS Naturals, Sequences, FiniteSets

CONSTANTS
  Worker,          \* sherlock shards, and the other engines' tasks (one per slot)
  Shard,           \* the workers that are sherlock threads
  Handle,
  Site,
  Plan,            \* the handles each worker scans, in order
  SiteData,        \* the sites each worker scans them on
  RETRY_CAP

ASSUME RunRouterAssumption ==
  /\ IsFiniteSet(Worker) /\ Shard \subseteq Worker
  /\ Plan \in [Worker -> Seq(Handle)]
  /\ SiteData \in [Worker -> SUBSET Site]
  /\ \A w \in Worker : IsFiniteSet(SiteData[w])
  /\ RETRY_CAP \in Nat

VARIABLES
  stage,           \* what each worker is doing with its current handle
  turn,            \* which handle of its plan that is
  pending,         \* results of the pass not yet observed (notify.pending)
  picked,          \* sites drained for a retry
  transient,       \* failures waiting for a retry
  retrying,        \* registered re-scans whose observation is still awaited
  retriesDone,
  recovered,
  observations,
  flushed,         \* observations in the buffer when finish() took it
  run,             \* "going", or how it ended: "returned", "cancelled"
  owed,            \* history: checks whose first scan failed transiently
  rescans          \* history: how often each check was registered for a retry

workerVars == <<stage, turn, pending, picked>>
historyVars == <<owed, rescans>>
retryVars == <<transient, retrying, retriesDone, recovered>>
vars == <<workerVars, retryVars, observations, flushed, run, historyVars>>

Key == Handle \X Site
Least(a, b) == IF a < b THEN a ELSE b

Working(w) == turn[w] <= Len(Plan[w]) /\ stage[w] # "stopped"
Current(w) == Plan[w][turn[w]]
Goto(w, to) == stage' = [stage EXCEPT ![w] = to]

Over(w) == ~Working(w)
-----------------------------------------------------------------------------
Init ==
  /\ stage = [w \in Worker |-> "scan"]
  /\ turn = [w \in Worker |-> 1]
  /\ pending = [w \in Worker |-> {}]
  /\ picked = [w \in Worker |-> {}]
  /\ transient = {}
  /\ retrying = {}
  /\ retriesDone = 0
  /\ recovered = 0
  /\ observations = 0
  /\ flushed = 0
  /\ run = "going"
  /\ owed = {}
  /\ rescans = [k \in Key |-> 0]

(* One engine call over the site set: it returns with every site reported, *)
(* or raises with some of them.  What was reported is observed either way; *)
(* then a sherlock shard ends, while the other engines carry on.           *)
Scan(w) ==
  /\ Working(w) /\ stage[w] = "scan"
  /\ \/ pending' = [pending EXCEPT ![w] = SiteData[w]] /\ Goto(w, "report")
     \/ /\ \E some \in SUBSET SiteData[w] : pending' = [pending EXCEPT ![w] = some]
        /\ Goto(w, IF w \in Shard THEN "raised" ELSE "report")
  /\ UNCHANGED <<turn, picked, retryVars, observations, flushed, run, historyVars>>

(* A queued failure is known by the check that failed: the turn, the site   *)
(* and whether that was in the re-scan.  Its handle is the turn's.         *)
Queue(w, site) ==
  LET during == IF stage[w] = "rereport" THEN "rescan" ELSE "scan"
  IN  transient' = transient \union {<<w, turn[w], site, during>>}

(* What observe() does apart from scoring: tally, queue a transient failure. *)
Tally(w, site, outcome) ==
  LET again == stage[w] = "rereport"
  IN  /\ Working(w) /\ stage[w] \in {"report", "raised", "rereport"}
      /\ site \in pending[w]
      /\ pending' = [pending EXCEPT ![w] = @ \ {site}]
      /\ observations' = observations + 1
      /\ IF outcome = "transient" THEN Queue(w, site) ELSE UNCHANGED transient
      /\ owed' = IF outcome = "transient" /\ ~again
                 THEN owed \union {<<Current(w), site>>} ELSE owed
      /\ UNCHANGED <<stage, turn, picked, retriesDone, flushed, run, rescans>>

ObserveKeeps(w, site, outcome) ==      \* fault: the registration is not discarded
  LET key == <<Current(w), site>>
  IN  /\ Tally(w, site, outcome)
      /\ UNCHANGED retrying
      /\ recovered' = IF key \in retrying /\ outcome = "ok" THEN recovered + 1 ELSE recovered

(* observe(): an observation of a registered check scores its re-scan.     *)
Observe(w, site, outcome) ==
  LET key == <<Current(w), site>>
  IN  /\ Tally(w, site, outcome)
      /\ retrying' = retrying \ {key}
      /\ recovered' = IF key \in retrying /\ outcome = "ok" THEN recovered + 1 ELSE recovered

NextTurn(w) ==
  /\ turn' = [turn EXCEPT ![w] = @ + 1]
  /\ Goto(w, "scan")

(* _sherlock_worker: `except Exception` reports engine_error and returns. *)
Stop(w) ==
  /\ Working(w) /\ stage[w] = "raised" /\ pending[w] = {}
  /\ Goto(w, "stopped")
  /\ UNCHANGED <<turn, pending, picked, retryVars, observations, flushed, run, historyVars>>

Room == IF retriesDone < RETRY_CAP THEN RETRY_CAP - retriesDone ELSE 0
Mine(h) == {f \in transient : Plan[f[1]][f[2]] = h}

Retry(w, sites) ==
  IF sites = {}
  THEN NextTurn(w) /\ UNCHANGED picked
  ELSE picked' = [picked EXCEPT ![w] = sites] /\ Goto(w, "begin") /\ UNCHANGED turn

(* The caller keeps the sites of its own pass and drops what else it       *)
(* drained.  With nothing to retry it moves on to its next handle.         *)
TakePicked(w, pick) == Retry(w, {f[3] : f \in pick} \intersect SiteData[w])

(* drain_transient: as many of this handle's failures as the cap has room  *)
(* for; the others stay queued.                                            *)
DrainTransient(w) ==
  /\ Working(w) /\ stage[w] = "report" /\ pending[w] = {}
  /\ \E pick \in SUBSET Mine(Current(w)) :
       /\ Cardinality(pick) = Least(Room, Cardinality(Mine(Current(w))))
       /\ transient' = transient \ pick
       /\ TakePicked(w, pick)
  /\ UNCHANGED <<pending, retrying, retriesDone, recovered, observations, flushed, run,
                 owed, rescans>>

(* begin_retries: charge the cap and register the re-scans for scoring. *)
BeginRetries(w) ==
  LET keys == {<<Current(w), site>> : site \in picked[w]}
  IN  /\ Working(w) /\ stage[w] = "begin"
      /\ retriesDone' = retriesDone + Cardinality(picked[w])
      /\ retrying' = retrying \union keys
      /\ rescans' = [k \in Key |-> IF k \in keys THEN rescans[k] + 1 ELSE rescans[k]]
      /\ Goto(w, "rescan")
      /\ UNCHANGED <<turn, pending, picked, transient, recovered, observations,
                     flushed, run, owed>>

(* The batched re-scan: a raising engine is logged, what it reported stays. *)
Rescan(w) ==
  /\ Working(w) /\ stage[w] = "rescan"
  /\ \E some \in SUBSET picked[w] : pending' = [pending EXCEPT ![w] = some]
  /\ picked' = [picked EXCEPT ![w] = {}]
  /\ Goto(w, "rereport")
  /\ UNCHANGED <<turn, retryVars, observations, flushed, run, historyVars>>

RescanAgain(w) ==                      \* fault: the pass drains once more
  /\ Working(w) /\ stage[w] = "rereport" /\ pending[w] = {}
  /\ Goto(w, "report")
  /\ UNCHANGED <<turn, pending, picked, retryVars, observations, flushed, run, historyVars>>

EndPass(w) ==
  /\ Working(w) /\ stage[w] = "rereport" /\ pending[w] = {}
  /\ NextTurn(w)
  /\ UNCHANGED <<pending, picked, retryVars, observations, flushed, run, historyVars>>

EndRun(how) ==
  /\ run = "going"
  /\ run' = how
  /\ flushed' = observations
  /\ UNCHANGED <<workerVars, retryVars, observations, historyVars>>

ReturnEarly == EndRun("returned")      \* fault: the fan-out is not awaited

(* run_pipeline has awaited every shard and engine task: finish().  The    *)
(* done-callback's second finish() finds _finished set.                    *)
Return == (\A w \in Worker : Over(w)) /\ EndRun("returned")

(* The run is cancelled: the done-callback finishes the router while       *)
(* sherlock's daemon threads go on; what they observe now is never flushed. *)
Cancel == EndRun("cancelled")
-----------------------------------------------------------------------------
WorkerStep(w) ==
  \/ Scan(w) \/ Stop(w) \/ DrainTransient(w) \/ BeginRetries(w) \/ Rescan(w)
  \/ EndPass(w)
  \/ \E site \in Site, outcome \in {"ok", "transient", "hard"} : Observe(w, site, outcome)

Next == (\E w \in Worker : WorkerStep(w)) \/ Return \/ Cancel

Spec == Init /\ [][Next]_vars

-----------------------------------------------------------------------------
Stages == {"scan", "report", "raised", "begin", "rescan", "rereport", "stopped"}

TypeOK ==
  /\ stage \in [Worker -> Stages]
  /\ \A w \in Worker : turn[w] \in 1..(Len(Plan[w]) + 1)
  /\ pending \in [Worker -> SUBSET Site] /\ picked \in [Worker -> SUBSET Site]
  /\ \A w \in Worker : pending[w] \union picked[w] \subseteq SiteData[w]
  /\ transient \subseteq Worker \X (UNION {DOMAIN Plan[w] : w \in Worker}) \X Site
                         \X {"scan", "rescan"}
  /\ retrying \subseteq Key
  /\ {retriesDone, recovered, observations, flushed} \subseteq Nat
  /\ run \in {"going", "returned", "cancelled"}
  /\ owed \subseteq Key /\ rescans \in [Key -> Nat]

(* The retries a run reports add up: every retry is recovered, still       *)
(* awaited or failed, so `recovered` never exceeds `attempted`, however    *)
(* passes overlap.                                                         *)
RetriesAddUp == recovered + Cardinality(retrying) <= retriesDone

(* A username that is also a name candidate is scanned by two passes; the  *)
(* other handles by one.                                                   *)
Passes(h) == {p \in UNION {{w} \X DOMAIN Plan[w] : w \in Worker} : Plan[p[1]][p[2]] = h}
Sole(h) == \E p \in Passes(h) : Passes(h) = {p}

(* A check whose handle is scanned in one pass only is never re-scanned    *)
(* twice, whatever the other passes leave in the shared queue; and if it   *)
(* failed transiently it was re-scanned by the time that pass has gone     *)
(* through, unless the run has spent its retries.                          *)
NeverTwice == \A k \in Key : Sole(k[1]) => rescans[k] <= 1
NotForgotten ==
  \A w \in Worker : \A i \in 1..(turn[w] - 1) : \A k \in owed :
    k[1] = Plan[w][i] /\ Sole(k[1]) => rescans[k] = 1 \/ retriesDone >= RETRY_CAP
RetriedOnce == NeverTwice /\ NotForgotten

(* A run that returns has flushed every observation its passes made; only  *)
(* a cancelled run may leave some behind.                                  *)
ReturnedRunFlushesAll == run = "returned" => flushed = observations
=============================================================================
