-------------------------------- MODULE Pipeline --------------------------------
(***************************************************************************)
(* One run of the pipeline (recon/pipeline.py, run_pipeline).              *)
(*                                                                         *)
(* The run scans base usernames, their variants and name candidates.       *)
(* Sherlock scans in daemon threads, one per shard, which reach the event  *)
(* loop only by call_soon_threadsafe: a FIFO queue of calls.  The other    *)
(* engines scan in tasks on the loop itself, and so do the pivots.  The    *)
(* run awaits them stage by stage, snapshots its rows for enrichment and   *)
(* ends: returned, failed or cancelled.  A done-callback then cancels the  *)
(* tasks; nothing stops the threads.                                       *)
(*                                                                         *)
(* A scan is <<engine, source, handle>>: the source is "base", "name" or   *)
(* the username whose variants are scanned; a handle given twice (the code *)
(* scans it twice, into the same rows) is one scan.  Abstracted: what a    *)
(* result says beyond found or not, progress and error events, the router  *)
(* (RunRouter), what enrichment does to the rows (Enrichment).             *)
(***************************************************************************)
EXTENDS Naturals, Sequences, FiniteSets

CONSTANTS
  Handle,
  Usernames,        \* the base handles, in order
  Variants,         \* the variants of each base handle, in order
  Candidates,       \* the name candidates, in order
  Site,
  TaskEngine,       \* engines that scan on the loop and have sites to scan
  Pivot,            \* the pivots the inputs call for
  SHARDS,           \* NAME_SHERLOCK_SHARDS
  CONCURRENCY       \* NAME_MAIGRET_CONCURRENCY

ASSUME PipelineAssumption ==
  /\ Usernames \in Seq(Handle) /\ Candidates \in Seq(Handle)
  /\ Variants \in [{Usernames[i] : i \in DOMAIN Usernames} -> Seq(Handle)]
  /\ TaskEngine \subseteq {"maigret", "whatsmyname", "signals"}
  /\ Pivot \subseteq {"email", "domain", "broker", "phone"}
  /\ SHARDS \in Nat \ {0} /\ CONCURRENCY \in Nat \ {0}

VARIABLES
  stage,            \* what the run is doing
  at,               \* the username whose variants are scanned
  fate,             \* "running", or how the run ended
  settled,          \* the run's done-callback has been called
  scan,             \* state of every scan
  left,             \* sites the scan's engine call has still to report
  thread,           \* state of every sherlock thread
  calls,            \* what the threads posted and the loop has not called yet
  doneEvents,       \* threads whose done_event is set
  engineDone,       \* scans whose engine_done was emitted
  engineErrors,     \* scans whose engine_error was emitted
  engines,          \* the engines of every row; {}: there is no such row
  group,            \* the list a row is in
  pivot,            \* state of every pivot task
  snapshot,         \* all_rows, once it is taken
  reported          \* history: <<scan, site>> of every account found

runVars == <<stage, at, fate, settled, snapshot>>
workVars == <<scan, left, thread>>
loopVars == <<calls, doneEvents>>
rowVars == <<engineDone, engineErrors, engines, group>>
vars == <<runVars, workVars, loopVars, rowVars, pivot, reported>>

Members(seq) == {seq[i] : i \in DOMAIN seq}
Key == Handle \X Site
Source == {"base", "name"} \union Members(Usernames)

Items(src) == IF src = "base" THEN Usernames
              ELSE IF src = "name" THEN Candidates ELSE Variants[src]
KindOf(src) == IF src \in {"base", "name"} THEN src ELSE "variant"

(* _shard: at most one shard per item; shard i holds items[i::n].          *)
ShardCount(src) == LET n == Len(Items(src))
                   IN  IF src = "name" /\ SHARDS < n THEN SHARDS
                       ELSE IF src # "name" /\ n > 1 THEN 1 ELSE n
Thread == UNION {{<<src, i>> : i \in 1..ShardCount(src)} : src \in Source}
InShard(t, j) == j % ShardCount(t[1]) = t[2] % ShardCount(t[1])

(* SIGNALS never fans out over name candidates.                            *)
EnginesOf(src) == {"sherlock"} \union
                  IF src = "name" THEN TaskEngine \ {"signals"} ELSE TaskEngine
ScansOf(src) == {<<e, src, h>> : e \in EnginesOf(src), h \in Members(Items(src))}
Scan == UNION {ScansOf(src) : src \in Source}
IsTask(s) == s[1] # "sherlock"
Position(s) == CHOOSE j \in DOMAIN Items(s[2]) : Items(s[2])[j] = s[3]

Live(s) == scan[s] \in {"open", "again"}

(* A shard is scanned one handle after the other.  gather() starts a       *)
(* task engine's scans in order and a first-come semaphore admits one at a *)
(* time, three for the candidates; SIGNALS has none.                       *)
Mine == [t \in Thread |-> {s \in ScansOf(t[1]) : ~IsTask(s) /\ InShard(t, Position(s))}]
Lane == [s \in Scan |-> {r \in Scan : r[1] = s[1] /\ r[2] = s[2] /\
                         (IsTask(s) \/ \E t \in Thread : {r, s} \subseteq Mine[t])}]
Room(s) == IF s[1] = "signals" THEN Cardinality(Lane[s])
           ELSE IF s[2] = "name" /\ IsTask(s) THEN CONCURRENCY ELSE 1

(* On variants the run awaits one engine's worker after the other.         *)
Turn(e) == CASE e = "maigret" -> 1 [] e = "whatsmyname" -> 2 [] e = "signals" -> 3 [] OTHER -> 0
InTurn(s) == KindOf(s[2]) = "variant" =>
               \A r \in ScansOf(s[2]) : IsTask(r) /\ Live(r) => Turn(s[1]) <= Turn(r[1])
Admitted(s) ==
  /\ Live(s) /\ InTurn(s)
  /\ Cardinality({r \in Lane[s] : Live(r) /\ Position(r) < Position(s)}) < Room(s)

Post(call, s) == calls' = Append(calls, [call |-> call, by |-> s])
-----------------------------------------------------------------------------
(* Everything but the variants is spawned before the first await.          *)
SpawnedFirst == {s \in Scan : KindOf(s[2]) # "variant"}

Init ==
  /\ stage = "scan" /\ at = 0 /\ fate = "running" /\ settled = FALSE
  /\ scan = [s \in Scan |-> IF s \in SpawnedFirst THEN "open" ELSE "idle"]
  /\ left = [s \in Scan |-> Site]
  /\ thread = [t \in Thread |-> IF KindOf(t[1]) = "variant" THEN "idle" ELSE "alive"]
  /\ calls = <<>> /\ doneEvents = {}
  /\ engineDone = {} /\ engineErrors = {}
  /\ engines = [k \in Key |-> {}]
  /\ group = [k \in Key |-> "none"]
  /\ pivot = [p \in Pivot |-> "running"]
  /\ snapshot = {}
  /\ reported = {}

(* _handle_found: a further engine merges into the row; the first one      *)
(* files it under the list of its own source.                              *)
HandleFound(s, site) ==
  LET key == <<s[3], site>>
  IN  /\ engines' = [engines EXCEPT ![key] = @ \union {s[1]}]
      /\ group' = IF engines[key] = {} THEN [group EXCEPT ![key] = KindOf(s[2])] ELSE group

(* The loop makes the oldest call a thread has posted. *)
LoopCall ==
  /\ calls # <<>>
  /\ calls' = Tail(calls)
  /\ LET c == Head(calls)
     IN  \/ /\ c.call = "found"
            /\ HandleFound(c.by, c.site)
            /\ UNCHANGED <<doneEvents, engineDone, engineErrors>>
         \/ /\ c.call = "engine_done"
            /\ engineDone' = engineDone \union {c.by}
            /\ UNCHANGED <<doneEvents, engineErrors, engines, group>>
         \/ /\ c.call = "engine_error"
            /\ engineErrors' = engineErrors \union {c.by}
            /\ UNCHANGED <<doneEvents, engineDone, engines, group>>
         \/ /\ c.call = "done_event"
            /\ doneEvents' = doneEvents \union {c.by}
            /\ UNCHANGED rowVars
  /\ UNCHANGED <<runVars, workVars, pivot, reported>>
-----------------------------------------------------------------------------
(* The engine reports one site; what it says of a found one goes to        *)
(* _handle_found, from a thread by way of the loop's queue.                *)
Report(s, site, found) ==
  /\ Live(s) /\ site \in left[s]
  /\ left' = [left EXCEPT ![s] = @ \ {site}]
  /\ IF found
     THEN /\ reported' = reported \union {<<s, site>>}
          /\ IF IsTask(s)
             THEN HandleFound(s, site) /\ UNCHANGED calls
             ELSE /\ calls' = Append(calls, [call |-> "found", by |-> s, site |-> site])
                  /\ UNCHANGED <<engines, group>>
     ELSE UNCHANGED <<reported, engines, group, calls>>
  /\ UNCHANGED <<runVars, scan, thread, doneEvents, engineDone, engineErrors, pivot>>

(* One batched re-scan of sites that failed; an engine that raises there   *)
(* is logged, and what it reported until then stands.                      *)
Again(s) ==
  /\ scan[s] = "open" /\ left[s] = {} /\ s[1] # "signals"
  /\ scan' = [scan EXCEPT ![s] = "again"]
  /\ \E sites \in SUBSET {site \in Site : <<s, site>> \notin reported} \ {{}} :
       left' = [left EXCEPT ![s] = sites]
  /\ UNCHANGED <<runVars, thread, loopVars, rowVars, pivot, reported>>

MayClose(s) == scan[s] = "again" \/ (scan[s] = "open" /\ left[s] = {})

Close(s) ==
  /\ MayClose(s)
  /\ scan' = [scan EXCEPT ![s] = "closed"]
  /\ left' = [left EXCEPT ![s] = {}]
-----------------------------------------------------------------------------
(* _sherlock_worker *)
ThreadClose(t, s) ==
  /\ Close(s)
  /\ Post("engine_done", s)
  /\ UNCHANGED <<runVars, thread, doneEvents, rowVars, pivot, reported>>

(* sherlock raises: engine_error is posted, the rest of the shard dropped. *)
ThreadRaise(t, s) ==
  /\ scan[s] = "open"
  /\ scan' = [r \in Scan |-> IF r = s THEN "raised"
                        ELSE IF r \in Mine[t] /\ Live(r) THEN "dropped" ELSE scan[r]]
  /\ left' = [left EXCEPT ![s] = {}]
  /\ Post("engine_error", s)
  /\ UNCHANGED <<runVars, thread, doneEvents, rowVars, pivot, reported>>

MayEnd(t) == thread[t] = "alive" /\ \A s \in Mine[t] : ~Live(s)

ThreadEndAtOnce(t) ==                  \* fault: done_event.set() from the thread
  /\ MayEnd(t)
  /\ thread' = [thread EXCEPT ![t] = "ended"]
  /\ doneEvents' = doneEvents \union {t}
  /\ UNCHANGED <<runVars, scan, left, calls, rowVars, pivot, reported>>

ThreadEndIfClean(t) ==                 \* fault: done_event is not set in a finally
  /\ MayEnd(t)
  /\ thread' = [thread EXCEPT ![t] = "ended"]
  /\ IF \E s \in Mine[t] : scan[s] = "raised" THEN UNCHANGED calls ELSE Post("done_event", t)
  /\ UNCHANGED <<runVars, scan, left, doneEvents, rowVars, pivot, reported>>

(* finally: the end reaches the loop behind all the thread has posted.     *)
ThreadEnd(t) ==
  /\ MayEnd(t)
  /\ thread' = [thread EXCEPT ![t] = "ended"]
  /\ Post("done_event", t)
  /\ UNCHANGED <<runVars, scan, left, doneEvents, rowVars, pivot, reported>>

ThreadScans(t, s) ==
  /\ thread[t] = "alive" /\ Admitted(s)
  /\ \/ Again(s) \/ ThreadClose(t, s) \/ ThreadRaise(t, s)
     \/ \E site \in Site, found \in BOOLEAN : Report(s, site, found)
ThreadStep(t) == ThreadEnd(t) \/ \E s \in Mine[t] : ThreadScans(t, s)
-----------------------------------------------------------------------------
(* The tasks on the loop: maigret_worker, whatsmyname_worker,              *)
(* signals_worker.                                                         *)
TaskClose(s) ==
  /\ Close(s)
  /\ engineDone' = engineDone \union {s}
  /\ UNCHANGED <<runVars, thread, loopVars, engineErrors, engines, group, pivot, reported>>

(* The engine raises: engine_error, but the scan goes on to its re-scan    *)
(* and its engine_done.  (SIGNALS then reports no hit at all.)             *)
TaskRaise(s) ==
  /\ scan[s] = "open" /\ left[s] # {}
  /\ s[1] = "signals" => left[s] = Site
  /\ left' = [left EXCEPT ![s] = {}]
  /\ engineErrors' = engineErrors \union {s}
  /\ UNCHANGED <<runVars, scan, thread, loopVars, engineDone, engines, group, pivot, reported>>

TaskStep(s) ==
  /\ IsTask(s) /\ Admitted(s)
  /\ \/ Again(s) \/ TaskClose(s) \/ TaskRaise(s)
     \/ \E site \in Site, found \in BOOLEAN : Report(s, site, found)

(* A pivot ends with its result, or raises: noticed when it is awaited.    *)
PivotStep(p) ==
  /\ pivot[p] = "running"
  /\ \E end \in {"done", "raised"} : pivot' = [pivot EXCEPT ![p] = end]
  /\ UNCHANGED <<runVars, workVars, loopVars, rowVars, reported>>
-----------------------------------------------------------------------------
OverByThreads(src) ==                  \* fault: threads joined, not their done_event awaited
  /\ \A t \in Thread : t[1] = src => thread[t] = "ended"
  /\ \A s \in ScansOf(src) : IsTask(s) => ~Live(s)

(* wait_all and the awaits of the tasks. *)
Over(src) ==
  /\ \A t \in Thread : t[1] = src => t \in doneEvents
  /\ \A s \in ScansOf(src) : IsTask(s) => ~Live(s)

(* start_sherlock and the inline workers, on one username's variants.      *)
StartVariants(u) ==
  /\ scan' = [s \in Scan |-> IF s[2] = u THEN "open" ELSE scan[s]]
  /\ thread' = [t \in Thread |-> IF t[1] = u THEN "alive" ELSE thread[t]]

NextVariants(n) ==
  IF n \in DOMAIN Usernames
  THEN at' = n /\ stage' = "variants" /\ StartVariants(Usernames[n])
  ELSE at' = 0 /\ stage' = "candidates" /\ UNCHANGED <<scan, thread>>

ScanOver ==
  /\ fate = "running" /\ stage = "scan" /\ Over("base")
  /\ NextVariants(1)
  /\ UNCHANGED <<fate, settled, snapshot, left, loopVars, rowVars, pivot, reported>>

VariantsOver ==
  /\ fate = "running" /\ stage = "variants" /\ Over(Usernames[at])
  /\ NextVariants(at + 1)
  /\ UNCHANGED <<fate, settled, snapshot, left, loopVars, rowVars, pivot, reported>>

Rows == {k \in Key : group[k] # "none"}

(* accounts + variant_rows + name_rows, for enrichment and the summary.    *)
CandidatesOver ==
  /\ fate = "running" /\ stage = "candidates" /\ Over("name")
  /\ stage' = "enrich" /\ snapshot' = Rows
  /\ UNCHANGED <<at, fate, settled, workVars, loopVars, rowVars, pivot, reported>>

EnrichOver ==
  /\ fate = "running" /\ stage = "enrich"
  /\ stage' = "pivots"
  /\ UNCHANGED <<at, fate, settled, snapshot, workVars, loopVars, rowVars, pivot, reported>>

End(how) ==
  /\ fate = "running" /\ fate' = how
  /\ UNCHANGED <<stage, at, settled, snapshot>>

ReturnUnawaited ==                     \* fault: a pivot that still runs is not awaited
  /\ stage = "pivots" /\ \A p \in Pivot : pivot[p] # "raised"
  /\ End("returned")
  /\ UNCHANGED <<workVars, loopVars, rowVars, pivot, reported>>

Return ==
  /\ stage = "pivots" /\ \A p \in Pivot : pivot[p] = "done"
  /\ End("returned")
  /\ UNCHANGED <<workVars, loopVars, rowVars, pivot, reported>>

Before(p) == LET order == <<"email", "domain", "broker", "phone">>
                 n == CHOOSE i \in DOMAIN order : order[i] = p
             IN  {order[i] : i \in 1..(n - 1)} \intersect Pivot

(* The pivots are awaited in order: the first one that raised is noticed.  *)
PivotBroke ==
  \E p \in Pivot : pivot[p] = "raised" /\ \A q \in Before(p) : pivot[q] = "done"

(* A pivot's exception, or one of enrichment or correlation, ends the run. *)
Fail ==
  /\ stage = "enrich" \/ (stage = "pivots" /\ PivotBroke)
  /\ End("failed")
  /\ UNCHANGED <<workVars, loopVars, rowVars, pivot, reported>>

(* The inline workers are part of the run's own task: they end with it.    *)
Cancel ==
  /\ End("cancelled")
  /\ scan' = [s \in Scan |-> IF IsTask(s) /\ KindOf(s[2]) = "variant" /\ Live(s)
                             THEN "cancelled" ELSE scan[s]]
  /\ UNCHANGED <<left, thread, loopVars, rowVars, pivot, reported>>

OnRunDoneAwaitedOnly ==                \* fault: only the child being awaited is cancelled
  /\ fate # "running" /\ ~settled /\ settled' = TRUE
  /\ scan' = [s \in Scan |-> IF IsTask(s) /\ Live(s) /\ stage = "candidates"
                             THEN "cancelled" ELSE scan[s]]
  /\ pivot' = [p \in Pivot |-> IF pivot[p] = "running" THEN "cancelled" ELSE pivot[p]]
  /\ UNCHANGED <<stage, at, fate, snapshot, left, thread, loopVars, rowVars, reported>>

(* _on_run_done, a little after the end: cancel_pending. *)
OnRunDone ==
  /\ fate # "running" /\ ~settled /\ settled' = TRUE
  /\ scan' = [s \in Scan |-> IF IsTask(s) /\ Live(s) THEN "cancelled" ELSE scan[s]]
  /\ pivot' = [p \in Pivot |-> IF pivot[p] = "running" THEN "cancelled" ELSE pivot[p]]
  /\ UNCHANGED <<stage, at, fate, snapshot, left, thread, loopVars, rowVars, reported>>
-----------------------------------------------------------------------------
RunStep == ScanOver \/ VariantsOver \/ CandidatesOver \/ EnrichOver \/ Return \/ Fail

Progress ==
  \/ RunStep \/ OnRunDone \/ LoopCall
  \/ \E t \in Thread : ThreadStep(t)
  \/ \E s \in Scan : TaskStep(s)
  \/ \E p \in Pivot : PivotStep(p)

Next == Progress \/ Cancel

Spec == Init /\ [][Next]_vars

(* The loop serves what is ready, threads are scheduled, engines and       *)
(* pivots have timeouts: as long as something can go on, something does.   *)
(* Nobody need cancel a run.                                               *)
FairSpec == Spec /\ WF_vars(Progress)
-----------------------------------------------------------------------------
Call == [call : {"found"}, by : Scan, site : Site]
        \union [call : {"engine_done", "engine_error"}, by : Scan]
        \union [call : {"done_event"}, by : Thread]

TypeOK ==
  /\ stage \in {"scan", "variants", "candidates", "enrich", "pivots"}
  /\ at \in 0..Len(Usernames)
  /\ fate \in {"running", "returned", "failed", "cancelled"} /\ settled \in BOOLEAN
  /\ scan \in [Scan -> {"idle", "open", "again", "closed", "raised", "dropped",
                       "cancelled"}]
  /\ left \in [Scan -> SUBSET Site]
  /\ thread \in [Thread -> {"idle", "alive", "ended"}]
  /\ calls \in Seq(Call)
  /\ doneEvents \subseteq Thread /\ engineDone \subseteq Scan /\ engineErrors \subseteq Scan
  /\ engines \in [Key -> SUBSET (TaskEngine \union {"sherlock"})]
  /\ group \in [Key -> {"none", "base", "variant", "name"}]
  /\ pivot \in [Pivot -> {"running", "done", "raised", "cancelled"}]
  /\ snapshot \subseteq Key /\ reported \subseteq Scan \X Site

(* What enrichment, correlation and the summary work on is all there is:   *)
(* every account any engine reported is a row, under every engine that     *)
(* reported it, although threads report through the loop's queue and the   *)
(* candidates' threads run next to everything else.                        *)
NothingFoundIsLost ==
  stage \in {"enrich", "pivots"} =>
    /\ snapshot = Rows
    /\ \A r \in reported : LET s == r[1] IN s[1] \in engines[<<s[3], r[2]>>]

(* A scan's results are on record before its engine_done and before the    *)
(* end of its thread: nothing is queued behind either.                     *)
NoLateResult ==
  \A i \in DOMAIN calls : calls[i].call = "found" =>
    /\ calls[i].by \notin engineDone
    /\ \A t \in doneEvents : calls[i].by \notin Mine[t]

(* A run that returned scanned everything it planned, or says which engine *)
(* broke off; nothing it started is still at work.                         *)
ReturnedRunIsComplete ==
  fate = "returned" =>
    /\ \A s \in Scan : scan[s] \in {"closed", "raised", "dropped"}
    /\ \A s \in Scan : scan[s] = "raised" => s \in engineErrors
    /\ \A s \in Scan : scan[s] = "dropped" =>
         \E r \in engineErrors : \E t \in Thread : {r, s} \subseteq Mine[t]
    /\ calls = <<>>
    /\ \A p \in Pivot : pivot[p] = "done"

(* However a run ends, only sherlock's threads outlive it.                 *)
OnlyThreadsOutlive ==
  settled => (\A s \in Scan : Live(s) => ~IsTask(s)) /\ (\A p \in Pivot : pivot[p] # "running")

Quiet ==
  /\ settled /\ calls = <<>>
  /\ \A t \in Thread : thread[t] # "alive"
  /\ \A s \in Scan : ~Live(s)

(* What can still go on, by the guards of Progress: a call or a thread, a  *)
(* scan its lane admits (whatever its state, it can report, be scanned     *)
(* again or close), a pivot, and what the run itself is waiting for.       *)
Runnable(t) == MayEnd(t) \/ (thread[t] = "alive" /\ \E s \in Mine[t] : Admitted(s))

RunMayGoOn ==
  \/ stage = "scan" /\ Over("base")
  \/ stage = "variants" /\ Over(Usernames[at])
  \/ stage = "candidates" /\ Over("name")
  \/ stage = "enrich"
  \/ stage = "pivots" /\ (PivotBroke \/ \A p \in Pivot : pivot[p] = "done")

CanGoOn ==
  \/ calls # <<>>
  \/ \E t \in Thread : Runnable(t)
  \/ \E s \in Scan : IsTask(s) /\ Admitted(s)
  \/ \E p \in Pivot : pivot[p] = "running"
  \/ IF fate = "running" THEN RunMayGoOn ELSE ~settled

(* Nobody waits for something that does not come, although engines and     *)
(* pivots raise and threads outlive their run: whenever nothing can go on, *)
(* the run is over and all it started has come to rest.                    *)
NothingHangs == CanGoOn \/ Quiet

(* Every step uses up some of a run's finite work, and gives none back:    *)
(* stages, threads, scans and pivots only move on, what a scan has still   *)
(* to report only shrinks until its one re-scan, and where nothing of this *)
(* moves, the loop's queue gets shorter.  With NothingHangs, a run comes   *)
(* to rest as long as what can go on does.                                 *)
StageRank(st) == CASE st = "scan" -> 0 [] st = "variants" -> 1 [] st = "candidates" -> 2
                   [] st = "enrich" -> 3 [] st = "pivots" -> 4
ScanRank(st) == CASE st = "idle" -> 0 [] st = "open" -> 1 [] st = "again" -> 2 [] OTHER -> 3
ThreadRank(st) == CASE st = "idle" -> 0 [] st = "alive" -> 1 [] st = "ended" -> 2

StageMoves == \/ StageRank(stage) < StageRank(stage')
              \/ stage = "variants" /\ stage' = "variants" /\ at < at'
RunMoves == StageMoves \/ (fate = "running" /\ fate' # "running") \/ (~settled /\ settled')
ScanMoves(s) == \/ ScanRank(scan[s]) < ScanRank(scan'[s])
                \/ /\ scan'[s] = scan[s]
                   /\ left'[s] \subseteq left[s] /\ left'[s] # left[s]
ThreadMoves(t) == ThreadRank(thread[t]) < ThreadRank(thread'[t])
PivotMoves(p) == pivot[p] = "running" /\ pivot'[p] # "running"

UsesUpWork ==
  /\ StageMoves \/ UNCHANGED <<stage, at>>
  /\ fate # "running" => UNCHANGED fate
  /\ settled => settled'
  /\ \A s \in Scan : ScanMoves(s) \/ (scan'[s] = scan[s] /\ left'[s] = left[s])
  /\ \A t \in Thread : ThreadMoves(t) \/ thread'[t] = thread[t]
  /\ \A p \in Pivot : PivotMoves(p) \/ pivot'[p] = pivot[p]
  /\ \/ RunMoves
     \/ \E s \in Scan : ScanMoves(s)
     \/ \E t \in Thread : ThreadMoves(t)
     \/ \E p \in Pivot : PivotMoves(p)
     \/ calls # <<>> /\ calls' = Tail(calls)
NothingRepeats == [][UsesUpWork]_vars

(* run_pipeline keeps the promise of Gathering: accounts are found through *)
(* threads, tasks and the loop's queue, merged into rows and snapshotted,  *)
(* and yet it is as if each became known, was filed, and all that is known *)
(* was summed up once.  An account is filed under a row and an engine; the *)
(* sum is what the snapshot's rows hold.                                   *)
Engine == TaskEngine \union {"sherlock"}
AccountOf(s, site) == <<s[1], <<s[3], site>>>>
Known == {AccountOf(r[1], r[2]) : r \in reported}
Filed(rows) == UNION {engines[k] \X {k} : k \in rows}
Summed == stage \in {"enrich", "pivots"}

Gathered == INSTANCE Gathering
              WITH Account <- Engine \X Key, known <- Known, filed <- Filed(Key),
                   summed <- Summed, basis <- Filed(snapshot), outcome <- fate

ImplementsGathering == Gathered!GatheringSpec
=============================================================================
