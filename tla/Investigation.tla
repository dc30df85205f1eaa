---------------------------- MODULE Investigation ----------------------------
(***************************************************************************)
(* The investigation lifecycle of app.py: create / rerun, the SSE stream   *)
(* that claims a case and starts its coordinator, the semaphore in front   *)
(* of the pipeline, the terminal status writes, the history row, deletion, *)
(* and process stop, crash and restart.                                    *)
(*                                                                         *)
(* Two kinds of code run.  Handlers declared `async def` and the           *)
(* coordinators share one event loop: between two awaits they are atomic   *)
(* to each other (LoopFree).  Handlers declared `def` run in the thread    *)
(* pool, so they interleave with the loop at every database transaction.   *)
(*                                                                         *)
(* Abstracted: the scan itself (run_pipeline returns or raises), inputs,   *)
(* summary contents and the progress events between `queued` and the       *)
(* verdict.                                                                *)
(***************************************************************************)
EXTENDS Naturals, Sequences, FiniteSets

CONSTANTS
  Case,                \* investigation ids (AUTOINCREMENT: never reused)
  MaxConcurrent        \* MAX_CONCURRENT_INVESTIGATIONS

ASSUME InvestigationAssumption ==
  /\ IsFiniteSet(Case)
  /\ MaxConcurrent \in Nat \ {0}

VARIABLES
  row,                 \* investigations.status, "absent" before INSERT, "gone" after DELETE
  aged,                \* the pending cases whose row is over a day old
  runs,                \* number of rows in `runs` with this investigation_id
  pc,                  \* where the case's stream handler or coordinator stands
  waiting,             \* semaphore queue: coordinators waiting for a slot, first come first
  stream,              \* the viewer's connection
  announced,           \* lifecycle events put on the stream's queue so far
  deleting,            \* cases whose delete handler has read an allowed status
  starts,              \* history: how many pipelines were started for the case
  up,                  \* the process is serving
  swept                \* the last startup sweep succeeded

dbVars   == <<row, aged, runs>>
loopVars == <<pc, waiting, stream, announced, starts>>
procVars == <<up, swept>>
vars     == <<dbVars, loopVars, deleting, procVars>>

TERMINAL_STATUSES == {"done", "failed", "cancelled", "interrupted"}
Exists(c) == row[c] \notin {"absent", "gone"}

Scanning == {c \in Case : pc[c] = "scanning"}

(* A coordinator between the release of its slot and its end never awaits: *)
(* nothing else runs on the loop meanwhile.                                *)
LoopFree == up /\ \A c \in Case : pc[c] \notin {"settling", "saving"}

LockedQueueOnly == waiting # <<>>                        \* fault: slots not counted

(* asyncio.Semaphore.locked(): no free slot, or somebody queued already.   *)
Locked == Cardinality(Scanning) >= MaxConcurrent \/ waiting # <<>>

Emit(c, es) == announced' = [announced EXCEPT ![c] = @ \union es]
Goto(c, to) == pc' = [pc EXCEPT ![c] = to]

SetInvestigationUpsert(c, s) == [row EXCEPT ![c] = s]    \* fault: INSERT OR REPLACE

(* _set_investigation: an UPDATE by id, so a deleted row stays deleted.    *)
SetInvestigation(c, s) == IF Exists(c) THEN [row EXCEPT ![c] = s] ELSE row
-----------------------------------------------------------------------------
Init ==
  /\ row = [c \in Case |-> "absent"]
  /\ aged = {}
  /\ runs = [c \in Case |-> 0]
  /\ pc = [c \in Case |-> "none"]
  /\ waiting = <<>>
  /\ stream = [c \in Case |-> "none"]
  /\ announced = [c \in Case |-> {}]
  /\ deleting = {}
  /\ starts = [c \in Case |-> 0]
  /\ up = TRUE
  /\ swept = TRUE

(* POST /api/investigate *)
CreateInvestigation(c) ==
  /\ LoopFree
  /\ row[c] = "absent"
  /\ row' = [row EXCEPT ![c] = "pending"]
  /\ UNCHANGED <<aged, runs, loopVars, deleting, procVars>>

(* POST /api/investigate/{src}/rerun, in the thread pool: the source may   *)
(* be in any state, even running.                                          *)
RerunInvestigation(c, src) ==
  /\ up
  /\ Exists(src)
  /\ row[c] = "absent"
  /\ row' = [row EXCEPT ![c] = "pending"]
  /\ UNCHANGED <<aged, runs, loopVars, deleting, procVars>>

(* A day passes over a case nobody streamed. *)
GrowOld(c) ==
  /\ row[c] = "pending"
  /\ aged' = aged \union {c}
  /\ UNCHANGED <<row, runs, loopVars, deleting, procVars>>

ClaimableUnfinished(c) == row[c] \in {"pending", "running"} \* fault: re-claims a running row

(* WHERE id = ? AND status = 'pending' *)
Claimable(c) == row[c] = "pending"

(* GET /api/investigate/{c}/stream up to the StreamingResponse: the claim  *)
(* is one conditional UPDATE.  Any other status answers 409 and changes    *)
(* nothing.                                                                *)
ClaimInvestigation(c) ==
  /\ LoopFree
  /\ Claimable(c)
  /\ row' = [row EXCEPT ![c] = "running"]
  /\ aged' = aged \ {c}
  /\ Goto(c, "claimed")
  /\ stream' = [stream EXCEPT ![c] = "open"]
  /\ UNCHANGED <<runs, waiting, announced, starts, deleting, procVars>>

(* The server pulls the first chunk: event_gen creates the coordinator.    *)
EventGenStarts(c) ==
  /\ LoopFree
  /\ pc[c] = "claimed"
  /\ stream[c] = "open"
  /\ Goto(c, "created")
  /\ UNCHANGED <<dbVars, waiting, stream, announced, starts, deleting, procVars>>

(* The viewer goes away: event_gen ends with `finally: pass` and the       *)
(* coordinator, a task of its own, is left alone.                          *)
Disconnect(c) ==
  /\ LoopFree
  /\ stream[c] = "open"
  /\ stream' = [stream EXCEPT ![c] = "closed"]
  /\ UNCHANGED <<dbVars, pc, waiting, announced, starts, deleting, procVars>>

\* fault: the waiter is announced but never put in the queue
JoinQueueLost(c) ==
  /\ LoopFree
  /\ pc[c] = "created"
  /\ Locked
  /\ Emit(c, {"queued"})
  /\ Goto(c, "waiting")
  /\ UNCHANGED <<dbVars, waiting, stream, starts, deleting, procVars>>

(* run_investigation up to the semaphore: announce and queue, or go on.    *)
JoinQueue(c) ==
  /\ LoopFree
  /\ pc[c] = "created"
  /\ Locked
  /\ Emit(c, {"queued"})
  /\ waiting' = Append(waiting, c)
  /\ Goto(c, "waiting")
  /\ UNCHANGED <<dbVars, stream, starts, deleting, procVars>>

StartScan(c) ==
  /\ Goto(c, "scanning")
  /\ starts' = [starts EXCEPT ![c] = @ + 1]
  /\ UNCHANGED <<dbVars, stream, announced, deleting, procVars>>

StartAtOnce(c) ==
  /\ LoopFree
  /\ pc[c] = "created"
  /\ ~Locked
  /\ UNCHANGED waiting
  /\ StartScan(c)

AcquireSlot(c) ==
  /\ LoopFree
  /\ waiting # <<>> /\ c = Head(waiting)
  /\ Cardinality(Scanning) < MaxConcurrent
  /\ waiting' = Tail(waiting)
  /\ StartScan(c)

\* fault: `done` goes straight to the viewer when the pipeline emits it
PipelineReturnsUngated(c) ==
  /\ LoopFree
  /\ pc[c] = "scanning"
  /\ Goto(c, "settling")
  /\ Emit(c, {"done"})
  /\ UNCHANGED <<dbVars, waiting, stream, starts, deleting, procVars>>

(* `async with sem` exits with a summary in hand; `done` is still held.    *)
PipelineReturns(c) ==
  /\ LoopFree
  /\ pc[c] = "scanning"
  /\ Goto(c, "settling")
  /\ UNCHANGED <<dbVars, waiting, stream, announced, starts, deleting, procVars>>

\* fault: the terminal write is skipped and the sentinel with it
FailSilently(c) ==
  /\ Goto(c, "unrecorded")
  /\ UNCHANGED <<row, aged, runs, waiting, stream, announced, starts, deleting, procVars>>

(* except Exception: _set_status_safely(failed), then fatal.  The status   *)
(* write itself may be lost, which is logged and swallowed.                *)
Fail(c) ==
  /\ \/ /\ row' = SetInvestigation(c, "failed")
        /\ Goto(c, "ended")
     \/ /\ Goto(c, "unrecorded")
        /\ UNCHANGED row
  /\ Emit(c, {"fatal", "end"})
  /\ UNCHANGED <<aged, runs, waiting, stream, starts, deleting, procVars>>

PipelineRaises(c) ==
  /\ LoopFree
  /\ pc[c] = "scanning"
  /\ Fail(c)

(* _set_investigation(done, summary), then the held `done` event. *)
RecordDone(c) ==
  /\ up
  /\ pc[c] = "settling"
  /\ row' = SetInvestigation(c, "done")
  /\ Emit(c, {"done"})
  /\ Goto(c, "saving")
  /\ UNCHANGED <<aged, runs, waiting, stream, starts, deleting, procVars>>

RecordDoneRaises(c) ==
  /\ up
  /\ pc[c] = "settling"
  /\ Fail(c)

\* fault: save_run is retried although it may have inserted the row
SaveRunTwice(c) ==
  /\ up
  /\ pc[c] = "saving"
  /\ runs' = [runs EXCEPT ![c] = @ + 2]
  /\ Emit(c, {"saved", "end"})
  /\ Goto(c, "ended")
  /\ UNCHANGED <<row, aged, waiting, stream, starts, deleting, procVars>>

(* save_run inserts the history row, or fails and is only logged. *)
SaveRun(c) ==
  /\ up
  /\ pc[c] = "saving"
  /\ \/ /\ runs' = [runs EXCEPT ![c] = @ + 1]
        /\ Emit(c, {"saved", "end"})
     \/ /\ Emit(c, {"end"})
        /\ UNCHANGED runs
  /\ Goto(c, "ended")
  /\ UNCHANGED <<row, aged, waiting, stream, starts, deleting, procVars>>

(* DELETE /api/investigate/{c}, in the thread pool: the SELECT ...         *)
DeleteReads(c) ==
  /\ up
  /\ Exists(c) /\ row[c] # "running"
  /\ deleting' = deleting \union {c}
  /\ UNCHANGED <<dbVars, loopVars, procVars>>

(* ... and the transaction of the two DELETEs. *)
DeleteCommits(c) ==
  /\ up
  /\ c \in deleting
  /\ deleting' = deleting \ {c}
  /\ runs' = [runs EXCEPT ![c] = 0]
  /\ row' = [row EXCEPT ![c] = "gone"]
  /\ aged' = aged \ {c}
  /\ UNCHANGED <<loopVars, procVars>>

(* DELETE /api/history/{run_id} *)
DeleteHistoryRun(c) ==
  /\ up
  /\ runs[c] > 0
  /\ runs' = [runs EXCEPT ![c] = @ - 1]
  /\ UNCHANGED <<row, aged, loopVars, deleting, procVars>>

(* The process is gone: every task, thread, queue and connection with it.  *)
ProcessLost ==
  /\ up' = FALSE
  /\ pc' = [c \in Case |-> "none"]
  /\ waiting' = <<>>
  /\ stream' = [c \in Case |-> IF stream[c] = "open" THEN "closed" ELSE stream[c]]
  /\ deleting' = {}
  /\ UNCHANGED <<aged, runs, starts, swept>>

Crash ==
  /\ up
  /\ ProcessLost
  /\ UNCHANGED <<row, announced>>

(* Orderly stop: the loop cancels the tasks that are left.  A coordinator  *)
(* that already ran records `cancelled` (or loses that write); one that    *)
(* never took its first step records nothing.                              *)
Shutdown ==
  /\ LoopFree
  /\ \E cancelled \in SUBSET {c \in Case : pc[c] \in {"waiting", "scanning"}} :
       row' = [c \in Case |-> IF c \in cancelled /\ Exists(c) THEN "cancelled" ELSE row[c]]
  /\ announced' = [c \in Case |-> IF pc[c] \in {"waiting", "scanning"}
                                  THEN announced[c] \union {"end"} ELSE announced[c]]
  /\ ProcessLost

(* sweep_stuck_investigations: one transaction. *)
SweepStuckInvestigations ==
  row' = [c \in Case |->
            IF row[c] = "running" \/ (row[c] = "pending" /\ c \in aged)
            THEN "interrupted" ELSE row[c]]

(* lifespan startup: a failed sweep is logged and the app serves anyway.   *)
Restart ==
  /\ ~up
  /\ up' = TRUE
  /\ \/ SweepStuckInvestigations /\ aged' = {} /\ swept' = TRUE
     \/ UNCHANGED <<row, aged>> /\ swept' = FALSE
  /\ UNCHANGED <<runs, loopVars, deleting>>
-----------------------------------------------------------------------------
Coordinator(c) ==
  \/ JoinQueue(c) \/ StartAtOnce(c) \/ AcquireSlot(c)
  \/ PipelineReturns(c) \/ PipelineRaises(c)
  \/ RecordDone(c) \/ RecordDoneRaises(c) \/ SaveRun(c)

Requests(c) ==
  \/ CreateInvestigation(c) \/ \E src \in Case : RerunInvestigation(c, src)
  \/ ClaimInvestigation(c) \/ EventGenStarts(c)
  \/ DeleteReads(c) \/ DeleteCommits(c) \/ DeleteHistoryRun(c)

Environment(c) == Disconnect(c) \/ GrowOld(c)

Next ==
  \/ \E c \in Case : Coordinator(c) \/ Requests(c) \/ Environment(c)
  \/ Crash \/ Shutdown \/ Restart

Spec == Init /\ [][Next]_vars

(* The loop runs every ready task, the pipeline is bounded by its engines' *)
(* timeouts, and a slot goes to the head of the queue.  Users, crashes and *)
(* restarts owe nothing.                                                   *)
Fairness ==
  \A c \in Case : WF_vars(EventGenStarts(c)) /\ WF_vars(Coordinator(c))

FairSpec == Spec /\ Fairness
-----------------------------------------------------------------------------
Statuses == {"absent", "pending", "running", "gone"} \union TERMINAL_STATUSES
Places == {"none", "claimed", "created", "waiting", "scanning", "settling",
           "saving", "ended", "unrecorded"}
Lifecycle == {"queued", "done", "saved", "fatal", "end"}

(* Types of the state; counters stay natural numbers under deletion. *)
TypeOK ==
  /\ row \in [Case -> Statuses]
  /\ aged \subseteq Case
  /\ runs \in [Case -> Nat]
  /\ pc \in [Case -> Places]
  /\ waiting \in Seq(Case)
  /\ stream \in [Case -> {"none", "open", "closed"}]
  /\ announced \in [Case -> SUBSET Lifecycle]
  /\ deleting \subseteq Case
  /\ starts \in [Case -> Nat]
  /\ up \in BOOLEAN
  /\ swept \in BOOLEAN

(* A case is scanned at most once in its life, whatever streams, reruns,   *)
(* deletions, crashes and restarts do: the promise of _claim_investigation *)
(* ("can never start the same investigation twice").                       *)
AtMostOneRun == \A c \in Case : starts[c] <= 1

(* No more than MAX_CONCURRENT_INVESTIGATIONS pipelines at once, and only  *)
(* coordinators that announced `queued` are ever kept waiting for a slot.  *)
SlotsRespected ==
  /\ Cardinality(Scanning) <= MaxConcurrent
  /\ \A c \in Case : pc[c] = "waiting" <=> \E i \in DOMAIN waiting : waiting[i] = c
  /\ \A c \in Case : pc[c] = "waiting" => "queued" \in announced[c]

(* The verdict a viewer hears agrees with what is stored: `done` only once *)
(* the summary is on disk (run_investigation holds the event for that), a  *)
(* `fatal` never on a case recorded as done, and never both.  Only a       *)
(* deletion, or a failure whose own record was lost, may separate them.    *)
VerdictIsStored ==
  \A c \in Case :
    /\ "done" \in announced[c] => row[c] \in {"done", "gone"} /\ "fatal" \notin announced[c]
    /\ "fatal" \in announced[c] => row[c] \in {"failed", "gone", "running", "interrupted"}
    /\ row[c] = "done" => "done" \in announced[c]

(* History holds at most one row per case, and only for a case that was    *)
(* scanned and reported `done` to its viewer before.                       *)
HistoryFollowsTheRun ==
  \A c \in Case :
    /\ runs[c] <= 1
    /\ runs[c] = 1 => "done" \in announced[c] /\ "saved" \in announced[c] /\ starts[c] = 1

(* After a successful startup sweep no row claims to be running without a  *)
(* coordinator that will settle it, except where the stream body never     *)
(* began, or the terminal write was lost.                                  *)
RunningIsOwned ==
  up /\ swept =>
    \A c \in Case : row[c] = "running" => pc[c] \notin {"none", "ended"}

(* Once settled or deleted, a stored status changes only by deletion.      *)
TerminalIsFinal ==
  [][\A c \in Case :
       /\ row[c] \in TERMINAL_STATUSES => row'[c] \in {row[c], "gone"}
       /\ row[c] = "gone" => row'[c] = "gone"]_vars

(* The lifecycle a user is promised is implemented. *)
Verdict(c) == IF "done" \in announced[c] THEN "done"
              ELSE IF "fatal" \in announced[c] THEN "fatal" ELSE "none"

Lifecycles == INSTANCE CaseLifecycle
                WITH status <- row, told <- [c \in Case |-> Verdict(c)]

ImplementsLifecycle == Lifecycles!LifecycleSpec

(* Every coordinator that was created ends its stream with the sentinel,   *)
(* even one that queued behind others, unless the process goes down.       *)
StreamsEnd ==
  \A c \in Case : pc[c] = "created" ~> "end" \in announced[c] \/ ~up

(* A claimed case is settled or deleted in the end, whether or not its     *)
(* viewer stays, unless the viewer left before the stream body began, the  *)
(* terminal write was lost, or the process went down.                      *)
ClaimedCasesSettle ==
  \A c \in Case :
    pc[c] = "claimed" ~> \/ row[c] # "running" \/ pc[c] = "unrecorded"
                         \/ pc[c] = "claimed" /\ stream[c] = "closed"
                         \/ ~up
-----------------------------------------------------------------------------
(* The inductive invariant behind the theorems of Investigation_proofs:    *)
(* where a coordinator stands fixes what is stored, what was announced and *)
(* how often the case was started.                                         *)
Active == {"claimed", "created", "waiting", "scanning", "settling"}

Untouched(c) == /\ pc[c] = "none" /\ starts[c] = 0 /\ runs[c] = 0
                /\ announced[c] = {}

RowInv(c) ==
  /\ row[c] \in {"absent", "pending"} => Untouched(c)
  /\ pc[c] \in Active \union {"unrecorded"} => row[c] \in {"running", "gone"}
  /\ pc[c] = "saving" => row[c] \in {"done", "gone"}
  /\ pc[c] = "ended" => row[c] # "running"
  /\ c \in deleting => row[c] # "absent"

StartsInv(c) ==
  /\ starts[c] <= 1
  /\ pc[c] \in {"claimed", "created", "waiting"} => starts[c] = 0
  /\ pc[c] = "saving" => starts[c] = 1
  /\ pc[c] = "settling" => starts[c] = 1
  /\ pc[c] = "scanning" => starts[c] = 1

AnnouncedInv(c) ==
  /\ pc[c] \in Active => announced[c] \subseteq {"queued"}
  /\ pc[c] = "saving" => /\ "done" \in announced[c]
                         /\ runs[c] = 0
  /\ "done" \in announced[c] => row[c] \in {"done", "gone"} /\ "fatal" \notin announced[c]
  /\ "fatal" \in announced[c] => row[c] \in {"failed", "gone", "running", "interrupted"}
  /\ row[c] = "done" => "done" \in announced[c]
  /\ runs[c] <= 1
  /\ runs[c] = 1 => "done" \in announced[c] /\ "saved" \in announced[c] /\ starts[c] = 1

QueueInv ==
  /\ \A c \in Case : pc[c] = "waiting" <=> \E i \in DOMAIN waiting : waiting[i] = c
  /\ \A i, j \in DOMAIN waiting : waiting[i] = waiting[j] => i = j
  /\ \A c \in Case : pc[c] = "waiting" => "queued" \in announced[c]

IInv ==
  /\ TypeOK
  /\ \A c \in Case : RowInv(c) /\ StartsInv(c) /\ AnnouncedInv(c)
  /\ QueueInv
  /\ Cardinality(Scanning) <= MaxConcurrent
  /\ ~up => \A c \in Case : pc[c] = "none"
  /\ RunningIsOwned
-----------------------------------------------------------------------------
(* delete_investigation: "Remove a case and its history rows" (app.py):    *)
(* no history row outlives its case.                                       *)
NoOrphanHistory == \A c \in Case : runs[c] > 0 => row[c] # "gone"

-----------------------------------------------------------------------------
(* What StreamsEnd rests on besides fairness.                              *)
Working == {"created", "waiting", "scanning", "settling", "saving"}

(* What a coordinator waits for: nobody, the loop, or the head of the      *)
(* queue's turn for a free slot.                                           *)
CanGoOn(c) ==
  \/ up /\ pc[c] \in {"settling", "saving"}
  \/ LoopFree /\ pc[c] \in {"created", "scanning"}
  \/ LoopFree /\ waiting # <<>> /\ c = Head(waiting) /\ Cardinality(Scanning) < MaxConcurrent

(* No slot is lost and nobody waits for a slot that nobody holds: while a  *)
(* coordinator has not ended, one of them can go on.                       *)
NobodyStarves == up /\ (\E c \in Case : pc[c] \in Working) => \E c \in Case : CanGoOn(c)

(* First come, first served: a slot that falls free goes to the head of    *)
(* the queue, not to a newcomer that runs before the head is woken; and a  *)
(* coordinator goes on forward only.                                       *)
Rank(place) == CASE place = "created" -> 1 [] place = "waiting" -> 2 [] place = "scanning" -> 3
                 [] place = "settling" -> 4 [] place = "saving" -> 5 [] OTHER -> 6
NobodyOvertakes ==
  [][\A c \in Case :
       /\ pc[c] # "scanning" /\ pc'[c] = "scanning" => waiting = <<>> \/ c = Head(waiting)
       /\ pc[c] \in Working => pc'[c] = pc[c] \/ ~up' \/ Rank(pc[c]) < Rank(pc'[c])]_vars

(* The sentinel that ends a viewer's stream is put on its queue by every   *)
(* coordinator that ends, by none that works, and is the last thing on it. *)
EndedIsTold ==
  \A c \in Case : /\ pc[c] \in {"ended", "unrecorded"} => "end" \in announced[c]
                  /\ pc[c] \in Working => "end" \notin announced[c]
SentinelIsLast ==
  [][\A c \in Case : "end" \in announced[c] => announced'[c] = announced[c]]_vars
=============================================================================
