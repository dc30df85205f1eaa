---------------------------- MODULE Pipeline_proofs ----------------------------
(***************************************************************************)
(* Theorems about one run of the pipeline, for any usernames, variants,    *)
(* candidates, sites, engines, pivots, shards and slots: what outlives a   *)
(* run, in which order the threads' reports take effect, what a run has    *)
(* when it summarises and returns, that it is never stuck and that each of *)
(* its steps uses up work.                                                 *)
(***************************************************************************)
EXTENDS Pipeline, FiniteSetTheorems, WellFoundedInduction, TLAPS

(* Usernames are told apart, from one another and from the two sources     *)
(* that are not usernames.  (The code scans a username that is given twice *)
(* a second time, into the same rows; a scan here is of one username.)     *)
Distinct ==
  /\ \A i, j \in DOMAIN Usernames : Usernames[i] = Usernames[j] => i = j
  /\ {"base", "name"} \intersect Members(Usernames) = {}

ScanStates == {"idle", "open", "again", "closed", "raised", "dropped", "cancelled"}

LEMMA ScanShape ==
  ASSUME NEW src \in Source, NEW s \in ScansOf(src)
  PROVE  s \in Scan /\ s[2] = src
<1>1. s \in Scan
  BY DEF Scan
<1>2. s[2] = src
  BY DEF ScansOf
<1> QED
  BY <1>1, <1>2

LEMMA MineFacts ==
  ASSUME NEW t \in Thread, NEW s \in Mine[t]
  PROVE  t[1] \in Source /\ s \in Scan /\ ~IsTask(s) /\ s[2] = t[1]
<1>1. t[1] \in Source
  BY DEF Thread
<1>2. s \in ScansOf(t[1]) /\ ~IsTask(s)
  BY DEF Mine
<1> QED
  BY <1>1, <1>2, ScanShape

LEMMA ScanSource ==
  ASSUME NEW s \in Scan
  PROVE  s[2] \in Source /\ s \in ScansOf(s[2])
<1>1. PICK src \in Source : s \in ScansOf(src)
  BY DEF Scan
<1>2. s[2] = src
  BY <1>1, ScanShape
<1> QED
  BY <1>1, <1>2
-----------------------------------------------------------------------------
(* How a step may change the scans: one that is at work goes on or comes   *)
(* to rest, the others stay as they are.                                   *)
Typed ==
  /\ scan \in [Scan -> ScanStates]
  /\ thread \in [Thread -> {"idle", "alive", "ended"}]
  /\ pivot \in [Pivot -> {"running", "done", "raised", "cancelled"}]
  /\ at \in Nat

Moves ==
  /\ scan' \in [Scan -> ScanStates]
  /\ \A s \in Scan : scan'[s] # scan[s] => Live(s) /\ scan'[s] # "idle"

LEMMA ScansMove ==
  ASSUME Typed, NEW s \in Scan,
         \/ Again(s) \/ (\E site \in Site, found \in BOOLEAN : Report(s, site, found))
         \/ TaskClose(s) \/ TaskRaise(s) \/ \E t \in Thread : ThreadClose(t, s)
  PROVE  Moves
<1>1. CASE Again(s)
  BY <1>1 DEF Again, Moves, Typed, ScanStates, Live
<1>2. CASE \E site \in Site, found \in BOOLEAN : Report(s, site, found)
  BY <1>2 DEF Report, Moves, Typed
<1>3. CASE TaskClose(s) \/ \E t \in Thread : ThreadClose(t, s)
  BY <1>3 DEF TaskClose, ThreadClose, Close, MayClose, Moves, Typed, ScanStates, Live
<1>4. CASE TaskRaise(s)
  BY <1>4 DEF TaskRaise, Moves, Typed
<1> QED
  BY <1>1, <1>2, <1>3, <1>4

LEMMA RaiseMoves ==
  ASSUME Typed, NEW t \in Thread, NEW s \in Mine[t], ThreadRaise(t, s)
  PROVE  Moves
BY DEF ThreadRaise, Moves, Typed, ScanStates, Live

LEMMA CancelMoves ==
  ASSUME Typed, Cancel \/ OnRunDone
  PROVE  Moves
<1>1. CASE Cancel
  BY <1>1 DEF Cancel, Moves, Typed, ScanStates, Live
<1>2. CASE OnRunDone
  BY <1>2 DEF OnRunDone, Moves, Typed, ScanStates, Live
<1> QED
  BY <1>1, <1>2
-----------------------------------------------------------------------------
LEMMA AdmittedLive == \A s : Admitted(s) => Live(s)
BY DEF Admitted

(* The variants of a username are scanned by scans and threads of its own. *)
LEMMA StartTyped ==
  ASSUME Typed, NEW n \in Nat, NextVariants(n)
  PROVE  /\ scan' \in [Scan -> ScanStates] /\ at' \in Nat
         /\ thread' \in [Thread -> {"idle", "alive", "ended"}]
<1>1. CASE n \in DOMAIN Usernames
  BY <1>1 DEF NextVariants, StartVariants, Typed, ScanStates
<1>2. CASE n \notin DOMAIN Usernames
  BY <1>2 DEF NextVariants, Typed
<1> QED
  BY <1>1, <1>2

LEMMA TypedInit == Init => Typed
BY DEF Init, Typed, ScanStates

LEMMA TypedStep ==
  ASSUME Typed, [Next]_vars
  PROVE  Typed'
<1>1. CASE ScanOver
  <2>1. NextVariants(1)
    BY <1>1 DEF ScanOver
  <2>2. UNCHANGED pivot
    BY <1>1 DEF ScanOver
  <2> QED
    BY <2>1, <2>2, StartTyped DEF Typed
<1>2. CASE VariantsOver
  <2>1. NextVariants(at + 1) /\ at + 1 \in Nat
    BY <1>2 DEF VariantsOver, Typed
  <2>2. UNCHANGED pivot
    BY <1>2 DEF VariantsOver
  <2> QED
    BY <2>1, <2>2, StartTyped DEF Typed
<1>3. CASE CandidatesOver \/ EnrichOver \/ Return \/ Fail
  BY <1>3 DEF CandidatesOver, EnrichOver, Return, Fail, End, workVars, Typed
<1>4. CASE OnRunDone
  <2>1. pivot' \in [Pivot -> {"running", "done", "raised", "cancelled"}]
    BY <1>4 DEF OnRunDone, Typed
  <2>2. UNCHANGED <<at, thread>>
    BY <1>4 DEF OnRunDone
  <2> QED
    BY <1>4, <2>1, <2>2, CancelMoves DEF Typed, Moves
<1>5. CASE LoopCall
  BY <1>5 DEF LoopCall, runVars, workVars, Typed
<1>6. ASSUME NEW t \in Thread, ThreadEnd(t)
      PROVE  Typed'
  BY <1>6 DEF ThreadEnd, runVars, Typed
<1>7. ASSUME NEW t \in Thread, NEW s \in Mine[t], ThreadScans(t, s)
      PROVE  Typed'
  <2>1. s \in Scan
    BY MineFacts
  <2>2. Moves
    BY <1>7, <2>1, ScansMove, RaiseMoves DEF ThreadScans
  <2>3. UNCHANGED <<at, thread, pivot>>
    BY <1>7 DEF ThreadScans, Again, ThreadClose, ThreadRaise, Report, runVars
  <2> QED
    BY <2>2, <2>3 DEF Typed, Moves
<1>8. ASSUME NEW s \in Scan, TaskStep(s)
      PROVE  Typed'
  <2>1. Moves
    BY <1>8, ScansMove DEF TaskStep
  <2>2. UNCHANGED <<at, thread, pivot>>
    BY <1>8 DEF TaskStep, Again, TaskClose, TaskRaise, Report, runVars
  <2> QED
    BY <2>1, <2>2 DEF Typed, Moves
<1>9. ASSUME NEW p \in Pivot, PivotStep(p)
      PROVE  Typed'
  BY <1>9 DEF PivotStep, runVars, workVars, Typed
<1>10. CASE Cancel
  <2>1. UNCHANGED <<at, thread, pivot>>
    BY <1>10 DEF Cancel, End
  <2> QED
    BY <1>10, <2>1, CancelMoves DEF Typed, Moves
<1>11. CASE UNCHANGED vars
  BY <1>11 DEF vars, runVars, workVars, Typed
<1> QED
  BY <1>1, <1>2, <1>3, <1>4, <1>5, <1>6, <1>7, <1>8, <1>9, <1>10, <1>11
     DEF Next, Progress, RunStep, ThreadStep
-----------------------------------------------------------------------------
(* A settled run has ended, and no task or pivot of it is at work.         *)
Settled == settled => fate # "running" /\ OnlyThreadsOutlive

LEMMA SettledStep ==
  ASSUME Typed, Settled, [Next]_vars
  PROVE  Settled'
<1> USE DEF Settled, OnlyThreadsOutlive
<1>1. CASE RunStep \/ Cancel
  <2>1. ~settled /\ UNCHANGED settled
    BY <1>1 DEF RunStep, Cancel, ScanOver, VariantsOver, CandidatesOver, EnrichOver, Return,
                Fail, End
  <2> QED
    BY <2>1
<1>2. CASE OnRunDone
  <2>1. fate' # "running"
    BY <1>2 DEF OnRunDone
  <2>2. \A s \in Scan : Live(s)' => ~IsTask(s)
    BY <1>2 DEF OnRunDone, Live
  <2>3. \A p \in Pivot : pivot'[p] # "running"
    BY <1>2 DEF OnRunDone
  <2> QED
    BY <2>1, <2>2, <2>3
<1>3. CASE LoopCall
  BY <1>3 DEF LoopCall, runVars, workVars, Live
<1>4. ASSUME NEW t \in Thread, ThreadEnd(t)
      PROVE  Settled'
  BY <1>4 DEF ThreadEnd, runVars, Live
<1>5. ASSUME NEW t \in Thread, NEW s \in Mine[t], ThreadScans(t, s)
      PROVE  Settled'
  <2>1. s \in Scan
    BY MineFacts
  <2>2. Moves
    BY <1>5, <2>1, ScansMove, RaiseMoves DEF ThreadScans
  <2>3. UNCHANGED <<settled, fate, pivot>>
    BY <1>5 DEF ThreadScans, Again, ThreadClose, ThreadRaise, Report, runVars
  <2> QED
    BY <2>2, <2>3 DEF Moves, Live
<1>6. ASSUME NEW s \in Scan, TaskStep(s)
      PROVE  Settled'
  <2>1. ~settled
    BY <1>6, AdmittedLive DEF TaskStep
  <2>2. UNCHANGED settled
    BY <1>6 DEF TaskStep, Again, TaskClose, TaskRaise, Report, runVars
  <2> QED
    BY <2>1, <2>2
<1>7. ASSUME NEW p \in Pivot, PivotStep(p)
      PROVE  Settled'
  BY <1>7 DEF PivotStep, runVars
<1>8. CASE UNCHANGED vars
  BY <1>8 DEF vars, runVars, workVars, Live
<1> QED
  BY <1>1, <1>2, <1>3, <1>4, <1>5, <1>6, <1>7, <1>8 DEF Next, Progress, ThreadStep

(* pipeline._on_run_done, _Children.cancel_pending: once the done-callback *)
(* of a run has been called, however it ended, nothing of it is at work    *)
(* but sherlock's threads, and nothing starts again.                       *)
THEOREM ThreadsOutlive == Spec => []OnlyThreadsOutlive
<1>1. Init => Typed /\ Settled
  BY TypedInit DEF Init, Settled
<1>2. Typed /\ Settled /\ [Next]_vars => (Typed /\ Settled)'
  BY TypedStep, SettledStep
<1>3. Settled => OnlyThreadsOutlive
  BY DEF Settled, OnlyThreadsOutlive
<1> QED
  BY <1>1, <1>2, <1>3, PTL DEF Spec
-----------------------------------------------------------------------------
(* What the threads have posted: an engine_done follows the end of its     *)
(* scan and a done_event the end of its thread, for good.                  *)
Sent(c, scans, threads) ==
  /\ c.call = "found" => ~IsTask(c.by)
  /\ c.call = "engine_done" => scans[c.by] = "closed"
  /\ c.call = "done_event" => threads[c.by] = "ended"

(* The call says nothing that a result of s must not come after.           *)
Clear(c, s) ==
  /\ c.call = "engine_done" => c.by # s
  /\ c.call = "done_event" => s \notin Mine[c.by]

Rested ==
  /\ doneEvents \subseteq Thread /\ engineDone \subseteq Scan
  /\ \A s \in engineDone : scan[s] = "closed"
  /\ \A t \in doneEvents : thread[t] = "ended"
  /\ \A t \in Thread : thread[t] = "ended" => \A s \in Mine[t] : ~Live(s)

Queued == calls \in Seq(Call) /\ \A i \in DOMAIN calls : Sent(calls[i], scan, thread)

Ordered ==
  \A i, j \in DOMAIN calls :
    i < j /\ calls[j].call = "found" => Clear(calls[i], calls[j].by)

(* The variants of a username lie idle until their turn comes.             *)
Later(n) == stage = "scan" \/ (stage = "variants" /\ n > at)
Untouched ==
  \A n \in DOMAIN Usernames : Later(n) =>
    /\ \A s \in ScansOf(Usernames[n]) : scan[s] = "idle"
    /\ \A t \in Thread : t[1] = Usernames[n] => thread[t] = "idle"

InOrder == Rested /\ Queued /\ Ordered /\ Untouched /\ NoLateResult

LEMMA CallFacts ==
  ASSUME NEW c \in Call
  PROVE  /\ c.call = "done_event" => c.by \in Thread
         /\ c.call # "done_event" => c.by \in Scan
BY DEF Call

LEMMA InOrderInit == PipelineAssumption /\ Distinct /\ Init => InOrder
<1> SUFFICES ASSUME PipelineAssumption, Distinct, Init PROVE InOrder
  OBVIOUS
<1>1. Queued /\ Ordered /\ NoLateResult
  BY DEF Init, Queued, Ordered, NoLateResult
<1>2. Rested
  BY DEF Init, Rested
<1>3. Untouched
  <2> SUFFICES ASSUME NEW n \in DOMAIN Usernames
               PROVE  /\ \A s \in ScansOf(Usernames[n]) : scan[s] = "idle"
                      /\ \A t \in Thread : t[1] = Usernames[n] => thread[t] = "idle"
    BY DEF Untouched
  <2>1. Usernames[n] \in Source /\ KindOf(Usernames[n]) = "variant"
    BY DEF Distinct, Members, Source, KindOf
  <2>2. ASSUME NEW s \in ScansOf(Usernames[n])
        PROVE  scan[s] = "idle"
    <3>1. s \in Scan /\ s[2] = Usernames[n]
      BY <2>1, ScanShape
    <3> QED
      BY <2>1, <3>1 DEF Init, SpawnedFirst
  <2> QED
    BY <2>1, <2>2 DEF Init
<1> QED
  BY <1>1, <1>2, <1>3 DEF InOrder

(* A step that posts and starts nothing.                                   *)
LEMMA QuietStep ==
  ASSUME Typed, InOrder, Moves, UNCHANGED <<thread, calls, doneEvents, engineDone>>,
         \A n \in DOMAIN Usernames : Later(n)' => Later(n)
  PROVE  InOrder'
<1>1. \A s \in Scan : Live(s)' => Live(s)
  BY DEF Moves, Live
<1>2. \A s \in Scan : scan[s] \in {"closed", "idle"} => scan'[s] = scan[s]
  BY DEF Moves, Live
<1>3. Rested'
  BY <1>1, <1>2, MineFacts DEF InOrder, Rested
<1>4. Queued'
  <2>1. ASSUME NEW i \in DOMAIN calls PROVE Sent(calls'[i], scan', thread')
    <3>1. calls[i] \in Call /\ Sent(calls[i], scan, thread)
      BY DEF InOrder, Queued
    <3> QED
      BY <1>2, <3>1, CallFacts DEF Sent
  <2> QED
    BY <2>1 DEF InOrder, Queued
<1>5. Ordered' /\ NoLateResult'
  BY DEF InOrder, Ordered, NoLateResult, Clear
<1>6. Untouched'
  <2> SUFFICES ASSUME NEW n \in DOMAIN Usernames, Later(n)'
               PROVE  /\ \A s \in ScansOf(Usernames[n]) : scan'[s] = "idle"
                      /\ \A t \in Thread : t[1] = Usernames[n] => thread'[t] = "idle"
    BY DEF Untouched
  <2>1. Usernames[n] \in Source
    BY DEF Source, Members
  <2>2. \A s \in ScansOf(Usernames[n]) : s \in Scan /\ scan[s] = "idle"
    BY <2>1, ScanShape DEF InOrder, Untouched
  <2> QED
    BY <1>2, <2>2 DEF InOrder, Untouched
<1> QED
  BY <1>3, <1>4, <1>5, <1>6 DEF InOrder

(* A step that posts one call, behind which a result may stand.            *)
LEMMA PostStep ==
  ASSUME Typed, InOrder, Moves, NEW c \in Call, calls' = Append(calls, c),
         \A t \in Thread : thread[t] = "ended" => thread'[t] = "ended",
         UNCHANGED <<doneEvents, engineDone>>, Rested', Untouched', Sent(c, scan', thread'),
         c.call = "found" =>
           /\ c.by \notin engineDone /\ \A t \in doneEvents : c.by \notin Mine[t]
           /\ \A i \in DOMAIN calls : Clear(calls[i], c.by)
  PROVE  InOrder'
<1>1. /\ calls \in Seq(Call) /\ Len(calls) \in Nat
      /\ DOMAIN calls = 1..Len(calls) /\ DOMAIN calls' = 1..(Len(calls) + 1)
      /\ calls' \in Seq(Call)
      /\ \A i \in 1..Len(calls) : calls'[i] = calls[i]
      /\ calls'[Len(calls) + 1] = c
  BY DEF InOrder, Queued
<1>2. \A s \in Scan : scan[s] = "closed" => scan'[s] = "closed"
  BY DEF Moves, Live
<1>3. ASSUME NEW i \in DOMAIN calls' PROVE Sent(calls'[i], scan', thread')
  <2>1. CASE i \in DOMAIN calls
    <3>1. calls[i] \in Call /\ Sent(calls[i], scan, thread) /\ calls'[i] = calls[i]
      BY <1>1, <2>1 DEF InOrder, Queued
    <3> QED
      BY <1>2, <3>1, CallFacts DEF Sent
  <2>2. CASE i = Len(calls) + 1
    BY <1>1, <2>2 DEF Sent
  <2> QED
    BY <1>1, <2>1, <2>2
<1>4. Queued'
  BY <1>1, <1>3 DEF Queued
<1>5. Ordered'
  <2> SUFFICES ASSUME NEW i \in DOMAIN calls', NEW j \in DOMAIN calls', i < j,
                      calls'[j].call = "found"
               PROVE  Clear(calls'[i], calls'[j].by)
    BY DEF Ordered, Clear
  <2>1. i \in DOMAIN calls /\ calls'[i] = calls[i]
    BY <1>1
  <2>2. CASE j \in DOMAIN calls
    BY <1>1, <2>1, <2>2 DEF InOrder, Ordered
  <2>3. CASE j = Len(calls) + 1
    BY <1>1, <2>1, <2>3
  <2> QED
    BY <1>1, <2>2, <2>3
<1>6. NoLateResult'
  <2> SUFFICES ASSUME NEW i \in DOMAIN calls', calls'[i].call = "found"
               PROVE  /\ calls'[i].by \notin engineDone
                      /\ \A t \in doneEvents : calls'[i].by \notin Mine[t]
    BY DEF NoLateResult
  <2>1. CASE i \in DOMAIN calls
    BY <1>1, <2>1 DEF InOrder, NoLateResult
  <2>2. CASE i = Len(calls) + 1
    BY <1>1, <2>2
  <2> QED
    BY <1>1, <2>1, <2>2
<1> QED
  BY <1>4, <1>5, <1>6 DEF InOrder

(* The loop takes the oldest call: what stands behind it may follow it.    *)
LEMMA TakeStep ==
  ASSUME Typed, InOrder, LoopCall
  PROVE  InOrder'
<1> DEFINE c == Head(calls)
<1>1. /\ calls \in Seq(Call) /\ calls # <<>> /\ Len(calls) \in Nat /\ Len(calls) >= 1
      /\ calls' = Tail(calls) /\ UNCHANGED <<runVars, workVars>>
  BY DEF InOrder, Queued, LoopCall
<1>2. /\ DOMAIN calls = 1..Len(calls) /\ DOMAIN calls' = 1..(Len(calls) - 1)
      /\ calls' \in Seq(Call) /\ c = calls[1] /\ c \in Call
      /\ \A i \in 1..(Len(calls) - 1) : calls'[i] = calls[i + 1]
  BY <1>1
<1>3. Sent(c, scan, thread)
  BY <1>1, <1>2 DEF InOrder, Queued
<1>4. /\ engineDone' = engineDone \/ (c.call = "engine_done" /\ engineDone' = engineDone \union {c.by})
      /\ doneEvents' = doneEvents \/ (c.call = "done_event" /\ doneEvents' = doneEvents \union {c.by})
  BY DEF LoopCall, rowVars
<1>5. Rested'
  BY <1>1, <1>2, <1>3, <1>4, CallFacts DEF InOrder, Rested, Sent, workVars, Live
<1>6. Untouched'
  BY <1>1 DEF InOrder, Untouched, Later, runVars, workVars
<1>7. Queued'
  <2>1. ASSUME NEW i \in DOMAIN calls' PROVE Sent(calls'[i], scan', thread')
    <3>1. calls'[i] = calls[i + 1] /\ i + 1 \in DOMAIN calls
      BY <1>1, <1>2
    <3>2. Sent(calls[i + 1], scan, thread)
      BY <3>1 DEF InOrder, Queued
    <3> QED
      BY <1>1, <3>1, <3>2 DEF Sent, workVars
  <2> QED
    BY <1>2, <2>1 DEF Queued
<1>8. Ordered'
  <2> SUFFICES ASSUME NEW i \in DOMAIN calls', NEW j \in DOMAIN calls', i < j,
                      calls'[j].call = "found"
               PROVE  Clear(calls'[i], calls'[j].by)
    BY DEF Ordered, Clear
  <2>1. /\ calls'[i] = calls[i + 1] /\ i + 1 \in DOMAIN calls
        /\ calls'[j] = calls[j + 1] /\ j + 1 \in DOMAIN calls /\ i + 1 < j + 1
    BY <1>1, <1>2
  <2> QED
    BY <2>1 DEF InOrder, Ordered
<1>9. NoLateResult'
  <2> SUFFICES ASSUME NEW i \in DOMAIN calls', calls'[i].call = "found"
               PROVE  /\ calls'[i].by \notin engineDone'
                      /\ \A t \in doneEvents' : calls'[i].by \notin Mine[t]
    BY DEF NoLateResult
  <2>1. /\ calls'[i] = calls[i + 1] /\ i + 1 \in DOMAIN calls /\ 1 \in DOMAIN calls /\ 1 < i + 1
    BY <1>1, <1>2
  <2>2. Clear(c, calls[i + 1].by)
    BY <1>2, <2>1 DEF InOrder, Ordered
  <2>3. /\ calls[i + 1].by \notin engineDone
        /\ \A t \in doneEvents : calls[i + 1].by \notin Mine[t]
    BY <2>1 DEF InOrder, NoLateResult
  <2> QED
    BY <1>4, <2>1, <2>2, <2>3 DEF Clear
<1> QED
  BY <1>5, <1>6, <1>7, <1>8, <1>9 DEF InOrder

(* What a thread at work posts.                                            *)
LEMMA ThreadReport ==
  ASSUME Typed, InOrder, NEW t \in Thread, NEW s \in Mine[t], Live(s),
         NEW site \in Site, NEW found \in BOOLEAN, Report(s, site, found)
  PROVE  InOrder'
<1>1. s \in Scan /\ ~IsTask(s)
  BY MineFacts
<1>2. /\ UNCHANGED <<stage, at, scan, thread, doneEvents, engineDone>> /\ Moves
  BY DEF Report, runVars, Typed, Moves
<1>3. CASE found
  <2> DEFINE c == [call |-> "found", by |-> s, site |-> site]
  <2>1. c \in Call /\ calls' = Append(calls, c)
    BY <1>1, <1>3 DEF Report, Call
  <2>2. Rested' /\ Untouched'
    BY <1>2 DEF InOrder, Rested, Untouched, Later, Live
  <2>3. s \notin engineDone /\ \A u \in doneEvents : s \notin Mine[u]
    BY DEF InOrder, Rested, Live
  <2>4. ASSUME NEW i \in DOMAIN calls PROVE Clear(calls[i], s)
    <3>1. calls[i] \in Call /\ Sent(calls[i], scan, thread)
      BY DEF InOrder, Queued
    <3> QED
      BY <3>1, CallFacts DEF Sent, Clear, InOrder, Rested, Live
  <2>5. Sent(c, scan', thread')
    BY <1>1 DEF Sent
  <2>6. c.call = "found" /\ c.by = s
    OBVIOUS
  <2> HIDE DEF c
  <2> QED
    BY <1>2, <2>1, <2>2, <2>3, <2>4, <2>5, <2>6, PostStep
<1>4. CASE ~found
  <2>1. UNCHANGED calls
    BY <1>4 DEF Report
  <2> QED
    BY <1>2, <2>1, QuietStep DEF Later
<1> QED
  BY <1>3, <1>4

LEMMA ThreadLeaves ==
  ASSUME Typed, InOrder, NEW t \in Thread, NEW s \in Mine[t],
         ThreadClose(t, s) \/ ThreadRaise(t, s)
  PROVE  InOrder'
<1>1. s \in Scan
  BY MineFacts
<1>2. Moves
  BY <1>1, ScansMove, RaiseMoves
<1>3. UNCHANGED <<stage, at, thread, doneEvents, engineDone>>
  BY DEF ThreadClose, ThreadRaise, runVars, rowVars
<1>4. PICK c \in Call : /\ calls' = Append(calls, c) /\ c.call # "found"
                        /\ Sent(c, scan', thread')
  <2>1. CASE ThreadClose(t, s)
    <3>1. scan'[s] = "closed"
      BY <1>1, <2>1 DEF ThreadClose, Close, Typed
    <3> QED
      BY <1>1, <2>1, <3>1 DEF ThreadClose, Post, Call, Sent
  <2>2. CASE ThreadRaise(t, s)
    <3> DEFINE c == [call |-> "engine_error", by |-> s]
    <3>1. c \in Call /\ calls' = Append(calls, c)
      BY <1>1, <2>2 DEF ThreadRaise, Post, Call
    <3> QED
      BY <3>1 DEF Sent
  <2> QED
    BY <2>1, <2>2
<1>5. \A r \in Scan : Live(r)' => Live(r)
  BY <1>2 DEF Moves, Live
<1>6. \A r \in Scan : scan[r] \in {"closed", "idle"} => scan'[r] = scan[r]
  BY <1>2 DEF Moves, Live
<1>7. Rested'
  BY <1>3, <1>5, <1>6, MineFacts DEF InOrder, Rested
<1>8. Untouched'
  <2> SUFFICES ASSUME NEW n \in DOMAIN Usernames, Later(n)'
               PROVE  /\ \A r \in ScansOf(Usernames[n]) : scan'[r] = "idle"
                      /\ \A u \in Thread : u[1] = Usernames[n] => thread'[u] = "idle"
    BY DEF Untouched
  <2>1. Usernames[n] \in Source /\ Later(n)
    BY <1>3 DEF Source, Members, Later
  <2>2. \A r \in ScansOf(Usernames[n]) : r \in Scan /\ scan[r] = "idle"
    BY <2>1, ScanShape DEF InOrder, Untouched
  <2> QED
    BY <1>3, <1>6, <2>1, <2>2 DEF InOrder, Untouched
<1> QED
  BY <1>2, <1>3, <1>4, <1>7, <1>8, PostStep

LEMMA ThreadEnds ==
  ASSUME Typed, InOrder, NEW t \in Thread, ThreadEnd(t)
  PROVE  InOrder'
<1> DEFINE c == [call |-> "done_event", by |-> t]
<1>1. /\ UNCHANGED <<stage, at, scan, doneEvents, engineDone>>
      /\ calls' = Append(calls, c) /\ c \in Call
  BY DEF ThreadEnd, Post, Call, runVars, rowVars
<1>2. Moves
  BY <1>1 DEF Moves, Typed
<1>3. /\ thread[t] = "alive" /\ thread'[t] = "ended"
      /\ \A u \in Thread : u # t => thread'[u] = thread[u]
  BY DEF ThreadEnd, MayEnd, Typed
<1>4. Rested'
  <2>1. \A r \in Mine[t] : ~Live(r)
    BY DEF ThreadEnd, MayEnd
  <2> QED
    BY <1>1, <1>3, <2>1 DEF InOrder, Rested, Live
<1>5. Untouched'
  BY <1>1, <1>3 DEF InOrder, Untouched, Later
<1>6. Sent(c, scan', thread') /\ c.call # "found"
  BY <1>3 DEF Sent
<1> HIDE DEF c
<1> QED
  BY <1>1, <1>2, <1>3, <1>4, <1>5, <1>6, PostStep

(* A task closes its scan: what is queued is the threads'.                 *)
LEMMA TaskCloses ==
  ASSUME Typed, InOrder, NEW s \in Scan, IsTask(s), TaskClose(s)
  PROVE  InOrder'
<1>1. Moves
  BY ScansMove
<1>2. /\ UNCHANGED <<stage, at, thread, calls, doneEvents>>
      /\ engineDone' = engineDone \union {s} /\ scan'[s] = "closed"
  BY DEF TaskClose, Close, loopVars, runVars, Typed
<1>3. \A r \in Scan : Live(r)' => Live(r)
  BY <1>1 DEF Moves, Live
<1>4. \A r \in Scan : scan[r] \in {"closed", "idle"} => scan'[r] = scan[r]
  BY <1>1 DEF Moves, Live
<1>5. Rested'
  BY <1>2, <1>3, <1>4, MineFacts DEF InOrder, Rested
<1>6. Queued'
  <2>1. ASSUME NEW i \in DOMAIN calls PROVE Sent(calls'[i], scan', thread')
    <3>1. calls[i] \in Call /\ Sent(calls[i], scan, thread)
      BY DEF InOrder, Queued
    <3> QED
      BY <1>2, <1>4, <3>1, CallFacts DEF Sent
  <2> QED
    BY <1>2, <2>1 DEF InOrder, Queued
<1>7. Ordered'
  BY <1>2 DEF InOrder, Ordered, Clear
<1>8. NoLateResult'
  <2> SUFFICES ASSUME NEW i \in DOMAIN calls, calls[i].call = "found"
               PROVE  /\ calls[i].by \notin engineDone'
                      /\ \A t \in doneEvents : calls[i].by \notin Mine[t]
    BY <1>2 DEF NoLateResult
  <2>1. ~IsTask(calls[i].by)
    BY DEF InOrder, Queued, Sent
  <2> QED
    BY <1>2, <2>1 DEF InOrder, NoLateResult
<1>9. Untouched'
  <2> SUFFICES ASSUME NEW n \in DOMAIN Usernames, Later(n)'
               PROVE  /\ \A r \in ScansOf(Usernames[n]) : scan'[r] = "idle"
                      /\ \A u \in Thread : u[1] = Usernames[n] => thread'[u] = "idle"
    BY DEF Untouched
  <2>1. Usernames[n] \in Source /\ Later(n)
    BY <1>2 DEF Source, Members, Later
  <2>2. \A r \in ScansOf(Usernames[n]) : r \in Scan /\ scan[r] = "idle"
    BY <2>1, ScanShape DEF InOrder, Untouched
  <2> QED
    BY <1>2, <1>4, <2>1, <2>2 DEF InOrder, Untouched
<1> QED
  BY <1>5, <1>6, <1>7, <1>8, <1>9 DEF InOrder

(* A username's variants start: they have lain idle until now.             *)
LEMMA StartStep ==
  ASSUME PipelineAssumption, Distinct, Typed, InOrder,
         NEW n \in Nat, NextVariants(n), UNCHANGED <<calls, doneEvents, engineDone>>,
         \A m \in DOMAIN Usernames : m >= n => Later(m)
  PROVE  InOrder'
<1>1. CASE n \notin DOMAIN Usernames
  <2>1. stage' = "candidates" /\ UNCHANGED <<scan, thread>>
    BY <1>1 DEF NextVariants
  <2>2. Moves /\ \A m \in DOMAIN Usernames : ~Later(m)'
    BY <2>1 DEF Moves, Typed, Later
  <2> QED
    BY <2>1, <2>2, QuietStep
<1>2. CASE n \in DOMAIN Usernames
  <2> DEFINE u == Usernames[n]
  <2>1. /\ at' = n /\ stage' = "variants"
        /\ scan' = [s \in Scan |-> IF s[2] = u THEN "open" ELSE scan[s]]
        /\ thread' = [t \in Thread |-> IF t[1] = u THEN "alive" ELSE thread[t]]
    BY <1>2 DEF NextVariants, StartVariants
  <2>2. \A s \in Scan : s[2] = u => scan[s] = "idle"
    <3>1. \A s \in Scan : s[2] = u => s \in ScansOf(u)
      BY ScanSource
    <3> QED
      BY <1>2, <3>1 DEF InOrder, Untouched
  <2>3. \A t \in Thread : t[1] = u => thread[t] = "idle"
    BY <1>2 DEF InOrder, Untouched
  <2> HIDE DEF u
  <2>4. \A s \in Scan : scan[s] = "closed" => scan'[s] = "closed"
    BY <2>1, <2>2
  <2>5. \A t \in Thread : thread[t] = "ended" <=> thread'[t] = "ended"
    BY <2>1, <2>3
  <2>6. Rested'
    <3>1. ASSUME NEW t \in Thread, thread'[t] = "ended", NEW s \in Mine[t]
          PROVE  ~Live(s)'
      <4>1. t[1] # u
        BY <2>3, <2>5, <3>1
      <4>2. s \in Scan /\ s[2] # u
        BY <4>1, MineFacts
      <4>3. ~Live(s)
        BY <2>5, <3>1 DEF InOrder, Rested
      <4> QED
        BY <2>1, <4>2, <4>3 DEF Live
    <3> QED
      BY <2>4, <2>5, <3>1 DEF InOrder, Rested
  <2>7. Queued'
    <3>1. ASSUME NEW i \in DOMAIN calls PROVE Sent(calls'[i], scan', thread')
      <4>1. calls[i] \in Call /\ Sent(calls[i], scan, thread)
        BY DEF InOrder, Queued
      <4> QED
        BY <2>4, <2>5, <4>1, CallFacts DEF Sent
    <3> QED
      BY <3>1 DEF InOrder, Queued
  <2>8. Ordered' /\ NoLateResult'
    BY DEF InOrder, Ordered, NoLateResult, Clear
  <2>9. Untouched'
    <3> SUFFICES ASSUME NEW m \in DOMAIN Usernames, Later(m)'
                 PROVE  /\ \A s \in ScansOf(Usernames[m]) : scan'[s] = "idle"
                        /\ \A t \in Thread : t[1] = Usernames[m] => thread'[t] = "idle"
      BY DEF Untouched
    <3>1. m > n /\ Later(m)
      BY <2>1 DEF Later, PipelineAssumption
    <3>2. Usernames[m] # u
      BY <1>2, <3>1 DEF u, Distinct, PipelineAssumption
    <3>3. \A s \in ScansOf(Usernames[m]) : s \in Scan /\ s[2] = Usernames[m]
      BY ScanShape DEF Source, Members
    <3> QED
      BY <2>1, <3>1, <3>2, <3>3 DEF InOrder, Untouched
  <2> QED
    BY <2>6, <2>7, <2>8, <2>9 DEF InOrder
<1> QED
  BY <1>1, <1>2

LEMMA InOrderStep ==
  ASSUME PipelineAssumption, Distinct, Typed, InOrder, [Next]_vars
  PROVE  InOrder'
<1>1. CASE ScanOver
  <2>1. /\ NextVariants(1) /\ UNCHANGED <<calls, doneEvents, engineDone>>
        /\ \A m \in DOMAIN Usernames : Later(m)
    BY <1>1 DEF ScanOver, loopVars, rowVars, Later
  <2> QED
    BY <2>1, StartStep
<1>2. CASE VariantsOver
  <2>1. at \in Nat /\ stage = "variants"
    BY <1>2 DEF Typed, VariantsOver
  <2>2. \A m \in DOMAIN Usernames : m >= at + 1 => Later(m)
    BY <2>1 DEF Later, PipelineAssumption
  <2>3. NextVariants(at + 1) /\ UNCHANGED <<calls, doneEvents, engineDone>>
    BY <1>2 DEF VariantsOver, loopVars, rowVars
  <2> QED
    BY <2>1, <2>2, <2>3, StartStep
<1>3. CASE CandidatesOver \/ EnrichOver \/ Return \/ Fail
  <2>1. /\ UNCHANGED <<scan, thread, calls, doneEvents, engineDone>>
        /\ \A n \in DOMAIN Usernames : Later(n)' => Later(n)
    BY <1>3 DEF CandidatesOver, EnrichOver, Return, Fail, End, workVars, loopVars, rowVars, Later
  <2> QED
    BY <2>1, QuietStep DEF Moves, Typed
<1>4. CASE Cancel \/ OnRunDone
  <2>1. UNCHANGED <<stage, at, thread, calls, doneEvents, engineDone>>
    BY <1>4 DEF Cancel, OnRunDone, End, loopVars, rowVars
  <2> QED
    BY <1>4, <2>1, CancelMoves, QuietStep DEF Later
<1>5. CASE LoopCall
  BY <1>5, TakeStep
<1>6. ASSUME NEW t \in Thread, ThreadStep(t)
      PROVE  InOrder'
  <2>1. CASE ThreadEnd(t)
    BY <2>1, ThreadEnds
  <2>2. ASSUME NEW s \in Mine[t], ThreadScans(t, s)
        PROVE  InOrder'
    <3>1. s \in Scan /\ Live(s)
      BY <2>2, MineFacts, AdmittedLive DEF ThreadScans
    <3>2. CASE Again(s)
      <4>1. UNCHANGED <<stage, at, thread, calls, doneEvents, engineDone>>
        BY <3>2 DEF Again, runVars, loopVars, rowVars
      <4> QED
        BY <3>1, <3>2, <4>1, ScansMove, QuietStep DEF Later
    <3>3. CASE ThreadClose(t, s) \/ ThreadRaise(t, s)
      BY <3>3, ThreadLeaves
    <3>4. CASE \E site \in Site, found \in BOOLEAN : Report(s, site, found)
      BY <3>1, <3>4, ThreadReport
    <3> QED
      BY <2>2, <3>2, <3>3, <3>4 DEF ThreadScans
  <2> QED
    BY <1>6, <2>1, <2>2 DEF ThreadStep
<1>7. ASSUME NEW s \in Scan, TaskStep(s)
      PROVE  InOrder'
  <2>1. CASE TaskClose(s)
    BY <1>7, <2>1, TaskCloses DEF TaskStep
  <2>2. CASE \/ Again(s) \/ TaskRaise(s)
             \/ \E site \in Site, found \in BOOLEAN : Report(s, site, found)
    <3>1. UNCHANGED <<stage, at, thread, calls, doneEvents, engineDone>>
      BY <1>7, <2>2 DEF TaskStep, Again, TaskRaise, Report, runVars, loopVars, rowVars
    <3> QED
      BY <2>2, <3>1, ScansMove, QuietStep DEF Later
  <2> QED
    BY <1>7, <2>1, <2>2 DEF TaskStep
<1>8. ASSUME NEW p \in Pivot, PivotStep(p)
      PROVE  InOrder'
  <2>1. UNCHANGED <<stage, at, scan, thread, calls, doneEvents, engineDone>>
    BY <1>8 DEF PivotStep, runVars, workVars, loopVars, rowVars
  <2> QED
    BY <2>1, QuietStep DEF Later, Moves, Typed
<1>9. CASE UNCHANGED vars
  <2>1. UNCHANGED <<stage, at, scan, thread, calls, doneEvents, engineDone>>
    BY <1>9 DEF vars, runVars, workVars, loopVars, rowVars
  <2> QED
    BY <2>1, QuietStep DEF Later, Moves, Typed
<1> QED
  BY <1>1, <1>2, <1>3, <1>4, <1>5, <1>6, <1>7, <1>8, <1>9 DEF Next, Progress, RunStep

(* pipeline._sherlock_worker, run_pipeline.wait_all: whatever the threads  *)
(* and the tasks do side by side, no result of a scan is still queued when *)
(* its engine_done is out, nor when its thread counts as ended.            *)
THEOREM ResultsComeFirst == ASSUME Distinct PROVE Spec => []NoLateResult
<1>1. Init => Typed /\ InOrder
  BY TypedInit, InOrderInit, PipelineAssumption
<1>2. Typed /\ InOrder /\ [Next]_vars => (Typed /\ InOrder)'
  BY TypedStep, InOrderStep, PipelineAssumption
<1>3. InOrder => NoLateResult
  BY DEF InOrder
<1> QED
  BY <1>1, <1>2, <1>3, PTL DEF Spec
-----------------------------------------------------------------------------
(* Every shard has a thread: a sherlock scan is some thread's.             *)
LEMMA Covered ==
  ASSUME PipelineAssumption, NEW s \in Scan, ~IsTask(s)
  PROVE  \E t \in Thread : s \in Mine[t]
<1> DEFINE src == s[2]
           n == Len(Items(src))
           k == ShardCount(src)
           j == Position(s)
           i == IF j % k = 0 THEN k ELSE j % k
<1>1. src \in Source /\ s \in ScansOf(src)
  BY ScanSource
<1>2. Items(src) \in Seq(Handle)
  BY <1>1 DEF Source, Items, PipelineAssumption, Members
<1>3. n \in Nat /\ DOMAIN Items(src) = 1..n
  BY <1>2
<1>4. s[3] \in Members(Items(src))
  BY <1>1 DEF ScansOf
<1>5. j \in 1..n
  BY <1>3, <1>4 DEF Members, Position
<1>6. k \in Nat \ {0} /\ k <= n
  BY <1>3, <1>5 DEF ShardCount, PipelineAssumption
<1> HIDE DEF n, k, j
<1>7. j % k \in 0..(k - 1) /\ k % k = 0 /\ j \in Nat
  BY <1>3, <1>5, <1>6
<1>8. i \in 1..k /\ i % k = j % k
  <2>1. CASE j % k = 0
    <3>1. i = k
      BY <2>1
    <3>2. k \in 1..k
      BY <1>6
    <3>3. k % k = 0
      BY <1>7
    <3> HIDE DEF i
    <3> QED
      BY <2>1, <3>1, <3>2, <3>3
  <2>2. CASE j % k # 0
    <3>1. j % k \in 1..(k - 1)
      BY <1>6, <1>7, <2>2
    <3> DEFINE m == j % k
    <3>2. m \in 0..(k - 1)
      BY <1>7
    <3> HIDE DEF m
    <3>3. m % k = m
      BY <1>6, <3>2
    <3> QED
      BY <1>6, <2>2, <3>1, <3>3 DEF m
  <2> QED
    BY <2>1, <2>2
<1> HIDE DEF i
<1>9. <<src, i>> \in Thread
  BY <1>1, <1>8 DEF Thread, k
<1>10. s \in Mine[<<src, i>>]
  BY <1>1, <1>8, <1>9 DEF Mine, InShard, j, k
<1> QED
  BY <1>9, <1>10

(* What is over stays over.                                                *)
Past ==
  /\ stage # "scan" => Over("base")
  /\ stage = "variants" => at \in DOMAIN Usernames
  /\ \A n \in DOMAIN Usernames :
       stage \in {"candidates", "enrich", "pivots"} \/ (stage = "variants" /\ n < at)
         => Over(Usernames[n])
  /\ stage \in {"enrich", "pivots"} => Over("name")

WorkStep ==
  /\ Moves /\ UNCHANGED <<stage, at, snapshot>>
  /\ doneEvents \subseteq doneEvents'

LEMMA StepKinds ==
  ASSUME Typed, [Next]_vars
  PROVE  ScanOver \/ VariantsOver \/ CandidatesOver \/ EnrichOver \/ WorkStep
<1>1. CASE Return \/ Fail
  BY <1>1 DEF Return, Fail, End, workVars, loopVars, WorkStep, Moves, Typed
<1>2. CASE Cancel \/ OnRunDone
  BY <1>2, CancelMoves DEF Cancel, OnRunDone, End, loopVars, WorkStep
<1>3. CASE LoopCall
  BY <1>3 DEF LoopCall, runVars, workVars, WorkStep, Moves, Typed
<1>4. ASSUME NEW t \in Thread, ThreadStep(t)
      PROVE  WorkStep
  <2>1. CASE ThreadEnd(t)
    BY <2>1 DEF ThreadEnd, runVars, WorkStep, Moves, Typed
  <2>2. ASSUME NEW s \in Mine[t], ThreadScans(t, s)
        PROVE  WorkStep
    <3>1. Moves
      BY <2>2, MineFacts, ScansMove, RaiseMoves DEF ThreadScans
    <3>2. UNCHANGED <<stage, at, snapshot, doneEvents>>
      BY <2>2 DEF ThreadScans, Again, ThreadClose, ThreadRaise, Report, runVars, loopVars
    <3> QED
      BY <3>1, <3>2 DEF WorkStep
  <2> QED
    BY <1>4, <2>1, <2>2 DEF ThreadStep
<1>5. ASSUME NEW s \in Scan, TaskStep(s)
      PROVE  WorkStep
  <2>1. Moves
    BY <1>5, ScansMove DEF TaskStep
  <2>2. UNCHANGED <<stage, at, snapshot, doneEvents>>
    BY <1>5 DEF TaskStep, Again, TaskClose, TaskRaise, Report, runVars, loopVars
  <2> QED
    BY <2>1, <2>2 DEF WorkStep
<1>6. ASSUME NEW p \in Pivot, PivotStep(p)
      PROVE  WorkStep
  BY <1>6 DEF PivotStep, runVars, workVars, loopVars, WorkStep, Moves, Typed
<1>7. CASE UNCHANGED vars
  BY <1>7 DEF vars, runVars, workVars, loopVars, WorkStep, Moves, Typed
<1> QED
  BY <1>1, <1>2, <1>3, <1>4, <1>5, <1>6, <1>7 DEF Next, Progress, RunStep

LEMMA OverStays ==
  ASSUME Moves, doneEvents \subseteq doneEvents', NEW src \in Source, Over(src)
  PROVE  Over(src)'
<1>1. \A s \in Scan : Live(s)' => Live(s)
  BY DEF Moves, Live
<1> QED
  BY <1>1, ScanShape DEF Over

LEMMA OverBesideStart ==
  ASSUME Typed, NEW n \in Nat, NextVariants(n), UNCHANGED doneEvents,
         NEW src \in Source, Over(src),
         n \in DOMAIN Usernames => src # Usernames[n]
  PROVE  Over(src)'
<1>1. CASE n \notin DOMAIN Usernames
  BY <1>1 DEF NextVariants, Over, Live
<1>2. CASE n \in DOMAIN Usernames
  <2>1. scan' = [s \in Scan |-> IF s[2] = Usernames[n] THEN "open" ELSE scan[s]]
    BY <1>2 DEF NextVariants, StartVariants
  <2>2. \A s \in ScansOf(src) : s \in Scan /\ s[2] = src
    BY ScanShape
  <2>3. \A s \in ScansOf(src) : scan'[s] = scan[s]
    BY <1>2, <2>1, <2>2
  <2> QED
    BY <2>3 DEF Over, Live
<1> QED
  BY <1>1, <1>2

LEMMA PastStep ==
  ASSUME PipelineAssumption, Distinct, Typed, Past, [Next]_vars
  PROVE  Past'
<1>1. /\ "base" \in Source /\ "name" \in Source
      /\ \A n \in DOMAIN Usernames :
           Usernames[n] \in Source /\ Usernames[n] \notin {"base", "name"}
  BY DEF Source, Members, Distinct
<1>2. DOMAIN Usernames = 1..Len(Usernames) /\ Len(Usernames) \in Nat
  BY DEF PipelineAssumption
<1>3. CASE ScanOver
  <2>1. NextVariants(1) /\ UNCHANGED doneEvents /\ Over("base")
    BY <1>3 DEF ScanOver, loopVars
  <2>2. Over("base")'
    BY <1>1, <2>1, OverBesideStart
  <2>3. \/ stage' = "variants" /\ at' = 1 /\ 1 \in DOMAIN Usernames
        \/ stage' = "candidates" /\ 1 \notin DOMAIN Usernames
    BY <2>1 DEF NextVariants
  <2> QED
    BY <1>2, <2>2, <2>3 DEF Past
<1>4. CASE VariantsOver
  <2>1. /\ NextVariants(at + 1) /\ UNCHANGED doneEvents /\ Over(Usernames[at])
        /\ stage = "variants" /\ at \in DOMAIN Usernames /\ at + 1 \in Nat
    BY <1>2, <1>4 DEF VariantsOver, loopVars, Past
  <2>2. Over("base")'
    BY <1>1, <2>1, OverBesideStart DEF Past
  <2>3. ASSUME NEW n \in DOMAIN Usernames, n < at + 1
        PROVE  Over(Usernames[n])'
    <3>1. Over(Usernames[n])
      BY <1>2, <2>1, <2>3 DEF Past
    <3>2. at + 1 \in DOMAIN Usernames => Usernames[n] # Usernames[at + 1]
      BY <1>2, <2>1, <2>3 DEF Distinct
    <3> QED
      BY <1>1, <2>1, <3>1, <3>2, OverBesideStart
  <2>4. \/ stage' = "variants" /\ at' = at + 1 /\ at + 1 \in DOMAIN Usernames
        \/ stage' = "candidates" /\ at + 1 \notin DOMAIN Usernames
    BY <2>1 DEF NextVariants
  <2>5. at + 1 \notin DOMAIN Usernames => \A n \in DOMAIN Usernames : n < at + 1
    BY <1>2, <2>1
  <2> QED
    BY <2>2, <2>3, <2>4, <2>5 DEF Past
<1>5. CASE CandidatesOver \/ EnrichOver
  <2>1. UNCHANGED <<scan, doneEvents>>
    BY <1>5 DEF CandidatesOver, EnrichOver, workVars, loopVars
  <2>2. \A src \in Source : Over(src) => Over(src)'
    BY <2>1 DEF Over, Live
  <2> QED
    BY <1>1, <1>5, <2>2 DEF Past, CandidatesOver, EnrichOver
<1>6. CASE WorkStep
  <2>1. \A src \in Source : Over(src) => Over(src)'
    BY <1>6, OverStays DEF WorkStep
  <2> QED
    BY <1>1, <1>6, <2>1 DEF Past, WorkStep
<1> QED
  BY <1>3, <1>4, <1>5, <1>6, StepKinds
-----------------------------------------------------------------------------
(* An account that was reported is in its row, or on its way there.        *)
EngineSets == SUBSET (TaskEngine \union {"sherlock"})
OnRecord(s, site, sets) == s[1] \in sets[<<s[3], site>>]
OnItsWay(s, site, queue) ==
  \E i \in DOMAIN queue : queue[i].call = "found" /\ queue[i].by = s /\ queue[i].site = site

Recorded ==
  /\ engines \in [Key -> EngineSets]
  /\ reported \subseteq Scan \X Site
  /\ \A s \in Scan, site \in Site : <<s, site>> \in reported =>
       OnRecord(s, site, engines) \/ OnItsWay(s, site, calls)

LEMMA ScanParts ==
  ASSUME PipelineAssumption, NEW s \in Scan
  PROVE  s[1] \in TaskEngine \union {"sherlock"} /\ s[3] \in Handle
<1>1. s[2] \in Source /\ s \in ScansOf(s[2])
  BY ScanSource
<1>2. Items(s[2]) \in Seq(Handle)
  BY <1>1 DEF Source, Items, PipelineAssumption, Members
<1>3. s[1] \in EnginesOf(s[2]) /\ s[3] \in Members(Items(s[2]))
  BY <1>1 DEF ScansOf
<1> QED
  BY <1>2, <1>3 DEF EnginesOf, Members

LEMMA FoundIsRecorded ==
  ASSUME PipelineAssumption, engines \in [Key -> EngineSets],
         NEW s \in Scan, NEW site \in Site, HandleFound(s, site)
  PROVE  /\ engines' \in [Key -> EngineSets]
         /\ OnRecord(s, site, engines')
         /\ \A r \in Scan, a \in Site : OnRecord(r, a, engines) => OnRecord(r, a, engines')
<1>1. <<s[3], site>> \in Key /\ s[1] \in TaskEngine \union {"sherlock"}
  BY ScanParts DEF Key
<1>2. /\ engines' = [engines EXCEPT ![<<s[3], site>>] = @ \union {s[1]}]
  BY DEF HandleFound
<1>3. engines' \in [Key -> EngineSets]
  BY <1>1, <1>2 DEF EngineSets
<1>4. \A k \in Key : engines[k] \subseteq engines'[k]
  BY <1>1, <1>2
<1>5. \A r \in Scan, a \in Site : <<r[3], a>> \in Key
  BY ScanParts DEF Key
<1> QED
  BY <1>1, <1>2, <1>3, <1>4, <1>5 DEF OnRecord

(* What a step other than a report and the loop's does to the queue.       *)
LEMMA QueueGrows ==
  ASSUME Queued, Recorded, UNCHANGED <<engines, reported>>,
         calls' = calls \/ \E c : calls' = Append(calls, c)
  PROVE  Recorded'
<1>1. ASSUME NEW s \in Scan, NEW site \in Site, OnItsWay(s, site, calls)
      PROVE  OnItsWay(s, site, calls')
  <2>1. CASE calls' = calls
    BY <1>1, <2>1
  <2>2. ASSUME NEW c, calls' = Append(calls, c)
        PROVE  OnItsWay(s, site, calls')
    <3>1. /\ calls \in Seq(Call) /\ DOMAIN calls \subseteq DOMAIN calls'
          /\ \A i \in DOMAIN calls : calls'[i] = calls[i]
      BY <2>2 DEF Queued
    <3> QED
      BY <1>1, <3>1 DEF OnItsWay
  <2> QED
    BY <2>1, <2>2
<1> QED
  BY <1>1 DEF Recorded

LEMMA LoopRecords ==
  ASSUME PipelineAssumption, Queued, Recorded, LoopCall
  PROVE  Recorded'
<1> DEFINE c == Head(calls)
<1>1. /\ calls \in Seq(Call) /\ calls # <<>> /\ calls' = Tail(calls) /\ reported' = reported
  BY DEF Queued, LoopCall
<1>2. /\ DOMAIN calls = 1..Len(calls) /\ DOMAIN calls' = 1..(Len(calls) - 1)
      /\ Len(calls) \in Nat /\ c = calls[1] /\ c \in Call
      /\ \A i \in 1..(Len(calls) - 1) : calls'[i] = calls[i + 1]
  BY <1>1
<1>3. ASSUME NEW s \in Scan, NEW site \in Site, OnItsWay(s, site, calls)
      PROVE  \/ c.call = "found" /\ c.by = s /\ c.site = site
             \/ OnItsWay(s, site, calls')
  <2>1. PICK i \in DOMAIN calls :
          calls[i].call = "found" /\ calls[i].by = s /\ calls[i].site = site
    BY <1>3 DEF OnItsWay
  <2>2. CASE i = 1
    BY <1>2, <2>1, <2>2
  <2>3. CASE i # 1
    <3>1. i - 1 \in DOMAIN calls' /\ calls'[i - 1] = calls[i]
      BY <1>2, <2>3
    <3> QED
      BY <2>1, <3>1 DEF OnItsWay
  <2> QED
    BY <2>2, <2>3
<1>4. CASE c.call = "found"
  <2>1. c.by \in Scan /\ c.site \in Site
    BY <1>2, <1>4 DEF Call
  <2>2. HandleFound(c.by, c.site)
    BY <1>4 DEF LoopCall
  <2>3. /\ engines' \in [Key -> EngineSets] /\ OnRecord(c.by, c.site, engines')
        /\ \A r \in Scan, a \in Site : OnRecord(r, a, engines) => OnRecord(r, a, engines')
    <3> HIDE DEF c
    <3> QED
      BY <2>1, <2>2, FoundIsRecorded DEF Recorded
  <2> HIDE DEF c
  <2> QED
    BY <1>1, <1>3, <2>3 DEF Recorded
<1>5. CASE c.call # "found"
  <2>1. engines' = engines
    BY <1>5 DEF LoopCall, rowVars
  <2> HIDE DEF c
  <2> QED
    BY <1>1, <1>3, <1>5, <2>1 DEF Recorded
<1> QED
  BY <1>4, <1>5

LEMMA ReportRecords ==
  ASSUME PipelineAssumption, Queued, Recorded, NEW s \in Scan, NEW site \in Site,
         NEW found \in BOOLEAN, Report(s, site, found)
  PROVE  Recorded'
<1>1. CASE ~found
  BY <1>1, QueueGrows DEF Report
<1>2. CASE found /\ IsTask(s)
  <2>1. /\ HandleFound(s, site) /\ UNCHANGED calls
        /\ reported' = reported \union {<<s, site>>}
    BY <1>2 DEF Report
  <2> QED
    BY <2>1, FoundIsRecorded DEF Recorded
<1>3. CASE found /\ ~IsTask(s)
  <2> DEFINE c == [call |-> "found", by |-> s, site |-> site]
  <2>1. /\ calls' = Append(calls, c) /\ UNCHANGED engines
        /\ reported' = reported \union {<<s, site>>}
    BY <1>3 DEF Report
  <2>2. /\ calls \in Seq(Call) /\ DOMAIN calls \subseteq DOMAIN calls'
        /\ Len(calls) + 1 \in DOMAIN calls' /\ calls'[Len(calls) + 1] = c
        /\ \A i \in DOMAIN calls : calls'[i] = calls[i]
    BY <2>1 DEF Queued
  <2>3. OnItsWay(s, site, calls')
    <3>1. c.call = "found" /\ c.by = s /\ c.site = site
      OBVIOUS
    <3> HIDE DEF c
    <3> QED
      BY <2>2, <3>1 DEF OnItsWay
  <2>4. \A r \in Scan, a \in Site : OnItsWay(r, a, calls) => OnItsWay(r, a, calls')
    BY <2>2 DEF OnItsWay
  <2> QED
    BY <2>1, <2>3, <2>4 DEF Recorded
<1> QED
  BY <1>1, <1>2, <1>3

LEMMA RecordedStep ==
  ASSUME PipelineAssumption, Queued, Recorded, [Next]_vars
  PROVE  Recorded'
<1>1. CASE RunStep \/ Cancel \/ OnRunDone
  <2>1. UNCHANGED <<engines, reported, calls>>
    BY <1>1 DEF RunStep, Cancel, OnRunDone, ScanOver, VariantsOver, CandidatesOver, EnrichOver,
                Return, Fail, End, loopVars, rowVars
  <2> QED
    BY <2>1, QueueGrows
<1>2. CASE LoopCall
  BY <1>2, LoopRecords
<1>3. ASSUME NEW t \in Thread, ThreadEnd(t)
      PROVE  Recorded'
  <2>1. /\ UNCHANGED <<engines, reported>>
        /\ calls' = Append(calls, [call |-> "done_event", by |-> t])
    BY <1>3 DEF ThreadEnd, Post, rowVars
  <2> QED
    BY <2>1, QueueGrows
<1>4. ASSUME NEW t \in Thread, NEW s \in Mine[t], ThreadScans(t, s)
      PROVE  Recorded'
  <2>1. CASE Again(s)
    BY <2>1, QueueGrows DEF Again, loopVars, rowVars
  <2>2. CASE ThreadClose(t, s)
    <3>1. /\ UNCHANGED <<engines, reported>>
          /\ calls' = Append(calls, [call |-> "engine_done", by |-> s])
      BY <2>2 DEF ThreadClose, Post, rowVars
    <3> QED
      BY <3>1, QueueGrows
  <2>3. CASE ThreadRaise(t, s)
    <3>1. /\ UNCHANGED <<engines, reported>>
          /\ calls' = Append(calls, [call |-> "engine_error", by |-> s])
      BY <2>3 DEF ThreadRaise, Post, rowVars
    <3> QED
      BY <3>1, QueueGrows
  <2>4. CASE \E site \in Site, found \in BOOLEAN : Report(s, site, found)
    BY <2>4, MineFacts, ReportRecords
  <2> QED
    BY <1>4, <2>1, <2>2, <2>3, <2>4 DEF ThreadScans
<1>5. ASSUME NEW s \in Scan, TaskStep(s)
      PROVE  Recorded'
  <2>1. CASE Again(s) \/ TaskClose(s) \/ TaskRaise(s)
    <3>1. UNCHANGED <<engines, reported, calls>>
      BY <2>1 DEF Again, TaskClose, TaskRaise, loopVars, rowVars
    <3> QED
      BY <3>1, QueueGrows
  <2>2. CASE \E site \in Site, found \in BOOLEAN : Report(s, site, found)
    BY <2>2, ReportRecords
  <2> QED
    BY <1>5, <2>1, <2>2 DEF TaskStep
<1>6. ASSUME NEW p \in Pivot, PivotStep(p)
      PROVE  Recorded'
  BY <1>6, QueueGrows DEF PivotStep, loopVars, rowVars
<1>7. CASE UNCHANGED vars
  BY <1>7, QueueGrows DEF vars, loopVars, rowVars
<1> QED
  BY <1>1, <1>2, <1>3, <1>4, <1>5, <1>6, <1>7 DEF Next, Progress, ThreadStep
-----------------------------------------------------------------------------
(* Once the candidates are over nothing works or is queued that finds      *)
(* anything: the rows stay as the snapshot took them.                      *)
Taken == stage \in {"enrich", "pivots"} => snapshot = Rows

LEMMA AllOver ==
  ASSUME PipelineAssumption, InOrder, \A src \in Source : Over(src)
  PROVE  /\ \A s \in Scan : ~Live(s)
         /\ \A i \in DOMAIN calls : calls[i].call # "found"
<1>1. \A src \in Source : Over(src)
  OBVIOUS
<1>2. \A t \in Thread : t \in doneEvents
  BY <1>1 DEF Over, Thread
<1>3. ASSUME NEW s \in Scan PROVE ~Live(s)
  <2>1. CASE IsTask(s)
    BY <1>1, <2>1, ScanSource DEF Over
  <2>2. CASE ~IsTask(s)
    BY <1>2, <2>2, Covered DEF InOrder, Rested
  <2> QED
    BY <2>1, <2>2
<1>4. ASSUME NEW i \in DOMAIN calls, calls[i].call = "found" PROVE FALSE
  <2>1. calls[i] \in Call /\ ~IsTask(calls[i].by)
    BY <1>4 DEF InOrder, Queued, Sent
  <2>2. calls[i].by \in Scan
    BY <1>4, <2>1, CallFacts
  <2>3. PICK t \in Thread : calls[i].by \in Mine[t]
    BY <2>1, <2>2, Covered
  <2> QED
    BY <1>2, <1>4, <2>3 DEF InOrder, NoLateResult
<1> QED
  BY <1>3, <1>4

LEMMA Drained ==
  ASSUME PipelineAssumption, InOrder, Past, stage \in {"enrich", "pivots"}
  PROVE  /\ \A s \in Scan : ~Live(s)
         /\ \A i \in DOMAIN calls : calls[i].call # "found"
<1>1. \A src \in Source : Over(src)
  BY DEF Past, Source, Members
<1> QED
  BY <1>1, AllOver

LEMMA TakenStep ==
  ASSUME PipelineAssumption, Typed, InOrder, Past, Taken, [Next]_vars
  PROVE  Taken'
<1>1. CASE CandidatesOver
  BY <1>1 DEF CandidatesOver, rowVars, Taken, Rows
<1>2. CASE ScanOver \/ VariantsOver
  BY <1>2 DEF ScanOver, VariantsOver, NextVariants, Taken
<1>3. CASE EnrichOver
  BY <1>3 DEF EnrichOver, rowVars, Taken, Rows
<1>4. CASE WorkStep /\ stage \in {"enrich", "pivots"}
  <2>1. /\ \A s \in Scan : ~Live(s)
        /\ \A i \in DOMAIN calls : calls[i].call # "found"
    BY <1>4, Drained
  <2>2. \A s \in Scan : \A site \in Site, found \in BOOLEAN : ~Report(s, site, found)
    BY <2>1 DEF Report
  <2>3. group' = group
    <3>1. CASE RunStep \/ Cancel \/ OnRunDone
      BY <3>1 DEF RunStep, Cancel, OnRunDone, ScanOver, VariantsOver, CandidatesOver,
                  EnrichOver, Return, Fail, End, rowVars
    <3>2. CASE LoopCall
      <4>1. Head(calls).call # "found"
        BY <2>1, <3>2 DEF LoopCall, InOrder, Queued
      <4> QED
        BY <3>2, <4>1 DEF LoopCall, rowVars
    <3>3. ASSUME NEW t \in Thread, ThreadStep(t)
          PROVE  group' = group
      BY <2>1, <3>3, MineFacts, AdmittedLive DEF ThreadStep, ThreadEnd, ThreadScans, rowVars
    <3>4. ASSUME NEW s \in Scan, TaskStep(s)
          PROVE  group' = group
      BY <2>1, <3>4, AdmittedLive DEF TaskStep
    <3>5. ASSUME NEW p \in Pivot, PivotStep(p)
          PROVE  group' = group
      BY <3>5 DEF PivotStep, rowVars
    <3>6. CASE UNCHANGED vars
      BY <3>6 DEF vars, rowVars
    <3> QED
      BY <3>1, <3>2, <3>3, <3>4, <3>5, <3>6 DEF Next, Progress
  <2> QED
    BY <1>4, <2>3 DEF WorkStep, Taken, Rows
<1>5. CASE WorkStep /\ stage \notin {"enrich", "pivots"}
  BY <1>5 DEF WorkStep, Taken
<1> QED
  BY <1>1, <1>2, <1>3, <1>4, <1>5, StepKinds

(* pipeline.run_pipeline, all_rows: the rows that enrichment, correlation  *)
(* and the summary work on hold every account any engine reported, under   *)
(* each of its engines, whatever shards, tasks and variants there are.     *)
THEOREM NothingIsLost == ASSUME Distinct PROVE Spec => []NothingFoundIsLost
<1> DEFINE Inv == Typed /\ InOrder /\ Past /\ Recorded /\ Taken
<1>1. Init => Inv
  <2>1. Init => Recorded
    BY DEF Init, Recorded, EngineSets
  <2>2. Init => Past /\ Taken
    BY DEF Init, Past, Taken
  <2> QED
    BY <2>1, <2>2, TypedInit, InOrderInit, PipelineAssumption
<1>2. Inv /\ [Next]_vars => Inv'
  BY TypedStep, InOrderStep, PastStep, RecordedStep, TakenStep, PipelineAssumption DEF InOrder
<1>3. Inv => NothingFoundIsLost
  <2> SUFFICES ASSUME Inv, stage \in {"enrich", "pivots"}
               PROVE  /\ snapshot = Rows
                      /\ \A r \in reported : r[1][1] \in engines[<<r[1][3], r[2]>>]
    BY DEF NothingFoundIsLost
  <2>1. \A i \in DOMAIN calls : calls[i].call # "found"
    BY Drained, PipelineAssumption
  <2>2. ASSUME NEW r \in reported
        PROVE  r[1][1] \in engines[<<r[1][3], r[2]>>]
    <3>1. PICK s \in Scan, site \in Site : r = <<s, site>>
      BY DEF Recorded
    <3>2. OnRecord(s, site, engines)
      BY <2>1, <3>1 DEF Recorded, OnItsWay
    <3> QED
      BY <3>1, <3>2 DEF OnRecord
  <2> QED
    BY <2>2 DEF Taken
<1> HIDE DEF Inv
<1>4. Spec => []Inv
  BY <1>1, <1>2, PTL DEF Spec
<1> QED
  BY <1>3, <1>4, PTL
-----------------------------------------------------------------------------
(* What a run that returns leaves behind.  Every scan was begun when its   *)
(* turn came; one that broke off has said so, or is about to; a thread's   *)
(* done_event is the last it posts; nothing is cancelled before the end.   *)
Begun ==
  \A s \in Scan : scan[s] = "idle" =>
    \E n \in DOMAIN Usernames : Usernames[n] = s[2] /\ Later(n)

Noted(s, queue, errors) ==
  \/ s \in errors
  \/ \E i \in DOMAIN queue : queue[i].call = "engine_error" /\ queue[i].by = s

Explained ==
  /\ \A s \in Scan : scan[s] = "raised" => Noted(s, calls, engineErrors)
  /\ \A s \in Scan : scan[s] = "dropped" =>
       \E t \in Thread : s \in Mine[t] /\ \E r \in Mine[t] : scan[r] = "raised"

Of(c, t) == IF c.call = "done_event" THEN c.by = t ELSE c.by \in Mine[t]

LastWord ==
  /\ \A i, j \in DOMAIN calls :
       i < j /\ calls[i].call = "done_event" => ~Of(calls[j], calls[i].by)
  /\ \A i \in DOMAIN calls, t \in doneEvents : ~Of(calls[i], t)
  /\ \A i \in DOMAIN calls : \E t \in Thread : Of(calls[i], t)

Finished ==
  /\ fate = "returned" => stage = "pivots" /\ \A p \in Pivot : pivot[p] = "done"
  /\ \A s \in Scan : scan[s] = "cancelled" => fate \notin {"running", "returned"}

(* A thread that has ended posts nothing, and no step but the loop's takes *)
(* a call or sets a done_event.                                            *)
Posts(c) ==
  /\ calls' = Append(calls, c)
  /\ \A t \in Thread : Of(c, t) => thread[t] # "ended"
  /\ \E t \in Thread : Of(c, t)

Queues ==
  /\ engineErrors \subseteq engineErrors' /\ UNCHANGED doneEvents
  /\ UNCHANGED calls \/ \E c \in Call : Posts(c)

LEMMA ScanPosts ==
  ASSUME InOrder, NEW t \in Thread, NEW s \in Mine[t], Live(s), UNCHANGED doneEvents,
         engineErrors \subseteq engineErrors',
         NEW c \in Call, c.call # "done_event", c.by = s, calls' = Append(calls, c)
  PROVE  Queues
<1>1. \A u \in Thread : Of(c, u) => thread[u] # "ended"
  BY DEF Of, InOrder, Rested
<1>2. Of(c, t)
  BY DEF Of
<1> QED
  BY <1>1, <1>2 DEF Queues, Posts

LEMMA ThreadQueues ==
  ASSUME InOrder, NEW t \in Thread, ThreadStep(t)
  PROVE  Queues
<1>1. CASE ThreadEnd(t)
  <2> DEFINE c == [call |-> "done_event", by |-> t]
  <2>1. /\ calls' = Append(calls, c) /\ UNCHANGED <<doneEvents, engineErrors>>
        /\ thread[t] = "alive" /\ c \in Call /\ c.call = "done_event" /\ c.by = t
    BY <1>1 DEF ThreadEnd, MayEnd, Post, rowVars, Call
  <2> HIDE DEF c
  <2>2. /\ \A u \in Thread : Of(c, u) => thread[u] # "ended"
        /\ Of(c, t)
    BY <2>1 DEF Of
  <2> QED
    BY <2>1, <2>2 DEF Queues, Posts
<1>2. ASSUME NEW s \in Mine[t], ThreadScans(t, s)
      PROVE  Queues
  <2>1. s \in Scan /\ ~IsTask(s) /\ Live(s)
    BY <1>2, MineFacts, AdmittedLive DEF ThreadScans
  <2>2. CASE Again(s)
    BY <2>2 DEF Again, loopVars, rowVars, Queues
  <2>3. CASE ThreadClose(t, s)
    <3> DEFINE c == [call |-> "engine_done", by |-> s]
    <3>1. /\ calls' = Append(calls, c) /\ UNCHANGED <<doneEvents, engineErrors>>
          /\ c \in Call /\ c.call # "done_event" /\ c.by = s
      BY <2>1, <2>3 DEF ThreadClose, Post, rowVars, Call
    <3> HIDE DEF c
    <3> QED
      BY <2>1, <3>1, ScanPosts
  <2>4. CASE ThreadRaise(t, s)
    <3> DEFINE c == [call |-> "engine_error", by |-> s]
    <3>1. /\ calls' = Append(calls, c) /\ UNCHANGED <<doneEvents, engineErrors>>
          /\ c \in Call /\ c.call # "done_event" /\ c.by = s
      BY <2>1, <2>4 DEF ThreadRaise, Post, rowVars, Call
    <3> HIDE DEF c
    <3> QED
      BY <2>1, <3>1, ScanPosts
  <2>5. ASSUME NEW site \in Site, NEW found \in BOOLEAN, Report(s, site, found)
        PROVE  Queues
    <3> DEFINE c == [call |-> "found", by |-> s, site |-> site]
    <3>1. UNCHANGED <<doneEvents, engineErrors>>
      BY <2>5 DEF Report
    <3>2. CASE found
      <4>1. /\ calls' = Append(calls, c) /\ c \in Call
            /\ c.call # "done_event" /\ c.by = s
        BY <2>1, <2>5, <3>2 DEF Report, Call
      <4> HIDE DEF c
      <4> QED
        BY <2>1, <3>1, <4>1, ScanPosts
    <3>3. CASE ~found
      BY <2>5, <3>1, <3>3 DEF Report, Queues
    <3> QED
      BY <3>2, <3>3
  <2> QED
    BY <1>2, <2>2, <2>3, <2>4, <2>5 DEF ThreadScans
<1> QED
  BY <1>1, <1>2 DEF ThreadStep

LEMMA QueueKinds ==
  ASSUME InOrder, [Next]_vars
  PROVE  LoopCall \/ Queues
<1>1. CASE RunStep \/ Cancel \/ OnRunDone
  <2>1. UNCHANGED <<calls, doneEvents, engineErrors>>
    BY <1>1 DEF RunStep, Cancel, OnRunDone, ScanOver, VariantsOver, CandidatesOver, EnrichOver,
                Return, Fail, End, loopVars, rowVars
  <2> QED
    BY <2>1 DEF Queues
<1>2. ASSUME NEW t \in Thread, ThreadStep(t)
      PROVE  Queues
  BY <1>2, ThreadQueues
<1>3. ASSUME NEW s \in Scan, TaskStep(s)
      PROVE  Queues
  BY <1>3 DEF TaskStep, Again, TaskClose, TaskRaise, Report, loopVars, rowVars, Queues
<1>4. ASSUME NEW p \in Pivot, PivotStep(p)
      PROVE  Queues
  BY <1>4 DEF PivotStep, loopVars, rowVars, Queues
<1>5. CASE UNCHANGED vars
  BY <1>5 DEF vars, loopVars, rowVars, Queues
<1> QED
  BY <1>1, <1>2, <1>3, <1>4, <1>5 DEF Next, Progress

LEMMA QueueTail ==
  ASSUME InOrder, LoopCall
  PROVE  /\ 1 \in DOMAIN calls /\ calls[1] = Head(calls) /\ calls[1] \in Call
         /\ \A i \in DOMAIN calls' : i + 1 \in DOMAIN calls /\ calls'[i] = calls[i + 1] /\ 1 < i + 1
         /\ \A i, j \in DOMAIN calls' : i < j => i + 1 < j + 1
         /\ \A i \in DOMAIN calls : i # 1 => i - 1 \in DOMAIN calls' /\ calls'[i - 1] = calls[i]
<1>1. /\ calls \in Seq(Call) /\ calls # <<>> /\ calls' = Tail(calls)
      /\ Len(calls) \in Nat /\ Len(calls) >= 1
  BY DEF InOrder, Queued, LoopCall
<1>2. /\ DOMAIN calls = 1..Len(calls) /\ DOMAIN calls' = 1..(Len(calls) - 1)
      /\ calls[1] = Head(calls) /\ calls[1] \in Call
      /\ \A i \in 1..(Len(calls) - 1) : calls'[i] = calls[i + 1]
  BY <1>1
<1> QED
  BY <1>1, <1>2

LEMMA QueueEnd ==
  ASSUME InOrder, NEW c, calls' = Append(calls, c)
  PROVE  /\ \A i \in DOMAIN calls : i \in DOMAIN calls' /\ calls'[i] = calls[i]
         /\ \A i \in DOMAIN calls' : \/ i \in DOMAIN calls
                                     \/ calls'[i] = c /\ \A j \in DOMAIN calls : j < i
         /\ \E i \in DOMAIN calls' : calls'[i] = c
         /\ \A i \in DOMAIN calls', j \in DOMAIN calls : i < j => i \in DOMAIN calls
         /\ \A i, j \in DOMAIN calls' : i < j => i \in DOMAIN calls
<1>1. calls \in Seq(Call) /\ Len(calls) \in Nat
  BY DEF InOrder, Queued
<1>2. /\ DOMAIN calls = 1..Len(calls) /\ DOMAIN calls' = 1..(Len(calls) + 1)
      /\ calls'[Len(calls) + 1] = c
      /\ \A i \in 1..Len(calls) : calls'[i] = calls[i]
  BY <1>1
<1> QED
  BY <1>1, <1>2

LEMMA LastWordStep ==
  ASSUME InOrder, LastWord, [Next]_vars
  PROVE  LastWord'
<1>1. CASE UNCHANGED <<calls, doneEvents>>
  BY <1>1 DEF LastWord, Of
<1>2. ASSUME NEW c \in Call, Posts(c), UNCHANGED doneEvents
      PROVE  LastWord'
  <2>1. calls' = Append(calls, c)
    BY <1>2 DEF Posts
  <2>2. ASSUME NEW i \in DOMAIN calls', NEW j \in DOMAIN calls', i < j,
               calls'[i].call = "done_event"
        PROVE  ~Of(calls'[j], calls'[i].by)
    <3>1. i \in DOMAIN calls /\ calls'[i] = calls[i]
      BY <2>1, <2>2, QueueEnd
    <3>2. CASE j \in DOMAIN calls
      BY <2>1, <2>2, <3>1, <3>2, QueueEnd DEF LastWord
    <3>3. CASE calls'[j] = c
      <4>1. calls[i] \in Call /\ Sent(calls[i], scan, thread)
        BY <3>1 DEF InOrder, Queued
      <4>2. calls[i].by \in Thread /\ thread[calls[i].by] = "ended"
        BY <2>2, <3>1, <4>1, CallFacts DEF Sent
      <4> QED
        BY <1>2, <3>1, <3>3, <4>2 DEF Posts
    <3> QED
      BY <2>1, <3>2, <3>3, QueueEnd
  <2>3. ASSUME NEW i \in DOMAIN calls', NEW t \in doneEvents
        PROVE  ~Of(calls'[i], t)
    <3>1. CASE i \in DOMAIN calls
      BY <2>1, <3>1, QueueEnd DEF LastWord
    <3>2. CASE calls'[i] = c
      BY <1>2, <3>2 DEF Posts, InOrder, Rested
    <3> QED
      BY <2>1, <3>1, <3>2, QueueEnd
  <2>4. ASSUME NEW i \in DOMAIN calls'
        PROVE  \E t \in Thread : Of(calls'[i], t)
    BY <1>2, <2>1, QueueEnd DEF LastWord, Posts
  <2> QED
    BY <1>2, <2>2, <2>3, <2>4 DEF LastWord, Of
<1>3. CASE LoopCall
  <2>1. \/ doneEvents' = doneEvents
        \/ calls[1].call = "done_event" /\ doneEvents' = doneEvents \union {calls[1].by}
    <3> DEFINE c == Head(calls)
    <3>1. \/ doneEvents' = doneEvents
          \/ c.call = "done_event" /\ doneEvents' = doneEvents \union {c.by}
      BY <1>3 DEF LoopCall, rowVars
    <3>2. c = calls[1]
      BY <1>3, QueueTail
    <3> HIDE DEF c
    <3> QED
      BY <3>1, <3>2
  <2>2. ASSUME NEW i \in DOMAIN calls', NEW j \in DOMAIN calls', i < j,
               calls'[i].call = "done_event"
        PROVE  ~Of(calls'[j], calls'[i].by)
    <3>1. /\ i + 1 \in DOMAIN calls /\ calls'[i] = calls[i + 1]
          /\ j + 1 \in DOMAIN calls /\ calls'[j] = calls[j + 1]
      BY <1>3, QueueTail
    <3>2. i + 1 < j + 1
      BY <1>3, <2>2, QueueTail
    <3> QED
      BY <2>2, <3>1, <3>2 DEF LastWord
  <2>3. ASSUME NEW i \in DOMAIN calls', NEW t \in doneEvents'
        PROVE  ~Of(calls'[i], t)
    <3>1. /\ i + 1 \in DOMAIN calls /\ calls'[i] = calls[i + 1] /\ 1 < i + 1
          /\ 1 \in DOMAIN calls
      BY <1>3, QueueTail
    <3> QED
      BY <2>1, <3>1 DEF LastWord
  <2>4. ASSUME NEW i \in DOMAIN calls'
        PROVE  \E t \in Thread : Of(calls'[i], t)
    BY <1>3, QueueTail DEF LastWord
  <2> QED
    BY <2>2, <2>3, <2>4 DEF LastWord, Of
<1>4. CASE Queues
  BY <1>1, <1>2, <1>4 DEF Queues
<1> QED
  BY <1>3, <1>4, QueueKinds

(* A scan that raised stays on the books.                                  *)
LEMMA NotedStays ==
  ASSUME InOrder, [Next]_vars, NEW s \in Scan, Noted(s, calls, engineErrors)
  PROVE  Noted(s, calls', engineErrors')
<1>1. CASE Queues
  <2>1. engineErrors \subseteq engineErrors'
    BY <1>1 DEF Queues
  <2>2. \A i \in DOMAIN calls : i \in DOMAIN calls' /\ calls'[i] = calls[i]
    BY <1>1, QueueEnd DEF Queues, Posts
  <2> QED
    BY <2>1, <2>2 DEF Noted
<1>2. CASE LoopCall
  <2>1. engineErrors \subseteq engineErrors'
    BY <1>2 DEF LoopCall, rowVars
  <2>2. ASSUME NEW i \in DOMAIN calls, calls[i].call = "engine_error", calls[i].by = s
        PROVE  Noted(s, calls', engineErrors')
    <3>1. CASE i = 1
      <4>1. Head(calls).call = "engine_error" /\ Head(calls).by = s
        BY <1>2, <2>2, <3>1, QueueTail
      <4> QED
        BY <1>2, <4>1 DEF LoopCall, Noted
    <3>2. CASE i # 1
      BY <1>2, <2>2, <3>2, QueueTail DEF Noted
    <3> QED
      BY <3>1, <3>2
  <2> QED
    BY <2>1, <2>2 DEF Noted
<1> QED
  BY <1>1, <1>2, QueueKinds

Raises ==
  \E t \in Thread : \E s \in Mine[t] : Live(s) /\ ThreadRaise(t, s)

LEMMA OnlyThreadsRaise ==
  ASSUME Typed, [Next]_vars
  PROVE  \/ Raises
         \/ \A s \in Scan : scan'[s] \in {"raised", "dropped"} => scan'[s] = scan[s]
<1>1. CASE \/ CandidatesOver \/ EnrichOver \/ Return \/ Fail \/ LoopCall \/ UNCHANGED vars
           \/ (\E t \in Thread : ThreadEnd(t)) \/ \E p \in Pivot : PivotStep(p)
  <2>1. UNCHANGED scan
    BY <1>1 DEF CandidatesOver, EnrichOver, Return, Fail, LoopCall, ThreadEnd, PivotStep,
                vars, workVars
  <2> QED
    BY <2>1
<1>2. CASE ScanOver \/ VariantsOver
  BY <1>2 DEF ScanOver, VariantsOver, NextVariants, StartVariants
<1>3. CASE Cancel \/ OnRunDone
  BY <1>3 DEF Cancel, OnRunDone
<1>4. ASSUME NEW s \in Scan,
             \/ Again(s) \/ Close(s) \/ TaskRaise(s)
             \/ \E site \in Site, found \in BOOLEAN : Report(s, site, found)
      PROVE  \A r \in Scan : scan'[r] \in {"raised", "dropped"} => scan'[r] = scan[r]
  BY <1>4 DEF Again, Close, TaskRaise, Report, Typed
<1>5. ASSUME NEW t \in Thread, NEW s \in Mine[t], ThreadScans(t, s)
      PROVE  \/ Raises
             \/ \A r \in Scan : scan'[r] \in {"raised", "dropped"} => scan'[r] = scan[r]
  <2>1. s \in Scan /\ Live(s)
    BY <1>5, MineFacts, AdmittedLive DEF ThreadScans
  <2> QED
    BY <1>4, <1>5, <2>1 DEF ThreadScans, ThreadClose, Raises
<1>6. ASSUME NEW s \in Scan, TaskStep(s)
      PROVE  \A r \in Scan : scan'[r] \in {"raised", "dropped"} => scan'[r] = scan[r]
  BY <1>4, <1>6 DEF TaskStep, TaskClose
<1> QED
  BY <1>1, <1>2, <1>3, <1>5, <1>6 DEF Next, Progress, RunStep, ThreadStep

LEMMA BrokenStay ==
  ASSUME Typed, InOrder, [Next]_vars, NEW s \in Scan, scan[s] = "raised"
  PROVE  scan'[s] = "raised"
<1>1. CASE WorkStep
  BY <1>1 DEF WorkStep, Moves, Live
<1>2. CASE CandidatesOver \/ EnrichOver
  BY <1>2 DEF CandidatesOver, EnrichOver, workVars
<1>3. ASSUME NEW n \in DOMAIN Usernames, Later(n), StartVariants(Usernames[n])
      PROVE  scan'[s] = "raised"
  <2>1. s[2] = Usernames[n] => scan[s] = "idle"
    BY <1>3, ScanSource DEF InOrder, Untouched
  <2> QED
    BY <1>3, <2>1 DEF StartVariants
<1>4. CASE ScanOver
  BY <1>3, <1>4 DEF ScanOver, NextVariants, Later
<1>5. CASE VariantsOver
  BY <1>3, <1>5 DEF VariantsOver, NextVariants, Later, Typed
<1> QED
  BY <1>1, <1>2, <1>4, <1>5, StepKinds

LEMMA ExplainedStep ==
  ASSUME Typed, InOrder, Explained, [Next]_vars
  PROVE  Explained'
<1>1. CASE \A s \in Scan : scan'[s] \in {"raised", "dropped"} => scan'[s] = scan[s]
  <2>1. ASSUME NEW s \in Scan, scan'[s] = "raised"
        PROVE  Noted(s, calls', engineErrors')
    BY <1>1, <2>1, NotedStays DEF Explained
  <2>2. ASSUME NEW s \in Scan, scan'[s] = "dropped"
        PROVE  \E t \in Thread : s \in Mine[t] /\ \E r \in Mine[t] : scan'[r] = "raised"
    <3>1. PICK t \in Thread : s \in Mine[t] /\ \E r \in Mine[t] : scan[r] = "raised"
      BY <1>1, <2>2 DEF Explained
    <3> QED
      BY <3>1, MineFacts, BrokenStay
  <2> QED
    BY <2>1, <2>2 DEF Explained, Noted
<1>2. ASSUME NEW t \in Thread, NEW s \in Mine[t], Live(s), ThreadRaise(t, s)
      PROVE  Explained'
  <2> DEFINE c == [call |-> "engine_error", by |-> s]
  <2>1. s \in Scan
    BY MineFacts
  <2>2. /\ calls' = Append(calls, c)
        /\ scan' = [r \in Scan |-> IF r = s THEN "raised"
                             ELSE IF r \in Mine[t] /\ Live(r) THEN "dropped" ELSE scan[r]]
    BY <1>2 DEF ThreadRaise, Post
  <2>3. c.call = "engine_error" /\ c.by = s
    OBVIOUS
  <2> HIDE DEF c
  <2>4. Noted(s, calls', engineErrors')
    BY <2>2, <2>3, QueueEnd DEF Noted
  <2>5. ASSUME NEW r \in Scan, scan'[r] = "raised"
        PROVE  Noted(r, calls', engineErrors')
    BY <2>2, <2>4, <2>5, NotedStays DEF Explained
  <2>6. ASSUME NEW r \in Scan, scan'[r] = "dropped"
        PROVE  \E u \in Thread : r \in Mine[u] /\ \E q \in Mine[u] : scan'[q] = "raised"
    <3>1. CASE scan[r] = "dropped"
      <4>1. PICK u \in Thread : r \in Mine[u] /\ \E q \in Mine[u] : scan[q] = "raised"
        BY <3>1 DEF Explained
      <4> QED
        BY <4>1, MineFacts, BrokenStay
    <3>2. CASE scan[r] # "dropped"
      <4>1. r \in Mine[t] /\ scan'[s] = "raised"
        BY <2>1, <2>2, <2>6, <3>2
      <4> QED
        BY <4>1
    <3> QED
      BY <3>1, <3>2
  <2> QED
    BY <2>5, <2>6 DEF Explained, Noted
<1> QED
  BY <1>1, <1>2, OnlyThreadsRaise DEF Raises

LEMMA BegunStart ==
  ASSUME PipelineAssumption, Distinct, Begun, NEW n \in Nat \ {0}, NextVariants(n),
         \A m \in DOMAIN Usernames : Later(m) => m >= n
  PROVE  Begun'
<1> SUFFICES ASSUME NEW s \in Scan, scan'[s] = "idle"
             PROVE  \E m \in DOMAIN Usernames : Usernames[m] = s[2] /\ Later(m)'
  BY DEF Begun
<1>1. scan[s] = "idle" /\ (n \in DOMAIN Usernames => s[2] # Usernames[n])
  BY DEF NextVariants, StartVariants
<1>2. PICK m \in DOMAIN Usernames : Usernames[m] = s[2] /\ Later(m)
  BY <1>1 DEF Begun
<1>3. /\ DOMAIN Usernames = 1..Len(Usernames) /\ Len(Usernames) \in Nat
      /\ m >= n /\ n \in Nat
  BY <1>2 DEF PipelineAssumption
<1>4. CASE n \in DOMAIN Usernames
  <2>1. m > n
    BY <1>1, <1>2, <1>3, <1>4
  <2>2. stage' = "variants" /\ at' = n
    BY <1>4 DEF NextVariants
  <2> QED
    BY <1>2, <2>1, <2>2 DEF Later
<1>5. CASE n \notin DOMAIN Usernames
  BY <1>2, <1>3, <1>5
<1> QED
  BY <1>4, <1>5

LEMMA BegunStep ==
  ASSUME PipelineAssumption, Distinct, Typed, Begun, [Next]_vars
  PROVE  Begun'
<1>1. CASE ScanOver
  <2>1. NextVariants(1)
    BY <1>1 DEF ScanOver
  <2>2. \A m \in DOMAIN Usernames : m >= 1
    BY DEF PipelineAssumption
  <2> QED
    BY <2>1, <2>2, BegunStart
<1>2. CASE VariantsOver
  <2>1. NextVariants(at + 1) /\ at + 1 \in Nat \ {0} /\ stage = "variants"
    BY <1>2 DEF VariantsOver, Typed
  <2>2. \A m \in DOMAIN Usernames : Later(m) => m >= at + 1
    BY <2>1 DEF PipelineAssumption, Later, Typed
  <2> QED
    BY <2>1, <2>2, BegunStart
<1>3. CASE CandidatesOver \/ EnrichOver
  BY <1>3 DEF CandidatesOver, EnrichOver, workVars, Begun, Later
<1>4. CASE WorkStep
  BY <1>4 DEF WorkStep, Moves, Begun, Later
<1> QED
  BY <1>1, <1>2, <1>3, <1>4, StepKinds

(* A run that has returned awaited everything: its done-callback finds     *)
(* nothing to cancel, and its pivots stay as they are.                     *)
LEMMA FinishedStep ==
  ASSUME PipelineAssumption, Typed, InOrder, Past, Finished, [Next]_vars
  PROVE  Finished'
<1>1. CASE ScanOver \/ VariantsOver \/ CandidatesOver \/ EnrichOver
  <2>1. fate = "running" /\ UNCHANGED <<fate, pivot>>
    BY <1>1 DEF ScanOver, VariantsOver, CandidatesOver, EnrichOver
  <2>2. \A s \in Scan : scan'[s] = "cancelled" => scan[s] = "cancelled"
    BY <1>1 DEF ScanOver, VariantsOver, CandidatesOver, EnrichOver, NextVariants, StartVariants,
                workVars
  <2> QED
    BY <2>1, <2>2 DEF Finished
<1>2. CASE Return \/ Fail
  BY <1>2 DEF Return, Fail, End, workVars, Finished
<1>3. CASE Cancel
  BY <1>3 DEF Cancel, End, Finished
<1>4. CASE OnRunDone
  <2>1. UNCHANGED <<stage, fate>> /\ fate # "running"
    BY <1>4 DEF OnRunDone
  <2>2. CASE fate = "returned"
    <3>1. \A s \in Scan : ~Live(s)
      BY <2>2, Drained DEF Finished
    <3>2. \A s \in Scan : scan'[s] = scan[s]
      BY <1>4, <3>1 DEF OnRunDone, Typed
    <3>3. \A p \in Pivot : pivot'[p] = pivot[p]
      BY <1>4, <2>2 DEF OnRunDone, Finished
    <3> QED
      BY <2>1, <3>2, <3>3 DEF Finished
  <2>3. CASE fate # "returned"
    BY <2>1, <2>3 DEF Finished
  <2> QED
    BY <2>2, <2>3
<1>5. CASE LoopCall
  BY <1>5 DEF LoopCall, runVars, workVars, Finished
<1>6. ASSUME NEW s \in Scan,
             \/ Again(s) \/ Close(s) \/ TaskRaise(s)
             \/ \E site \in Site, found \in BOOLEAN : Report(s, site, found)
      PROVE  \A r \in Scan : scan'[r] = "cancelled" => scan[r] = "cancelled"
  BY <1>6 DEF Again, Close, TaskRaise, Report, Typed
<1>7. ASSUME NEW t \in Thread, ThreadStep(t)
      PROVE  Finished'
  <2>1. CASE ThreadEnd(t)
    BY <2>1 DEF ThreadEnd, runVars, Finished
  <2>2. ASSUME NEW s \in Mine[t], ThreadScans(t, s)
        PROVE  Finished'
    <3>1. UNCHANGED <<stage, fate, pivot>>
      BY <2>2 DEF ThreadScans, Again, ThreadClose, ThreadRaise, Report, runVars
    <3>2. \A r \in Scan : scan'[r] = "cancelled" => scan[r] = "cancelled"
      <4>1. CASE ThreadRaise(t, s)
        BY <4>1 DEF ThreadRaise
      <4>2. CASE ~ThreadRaise(t, s)
        BY <1>6, <2>2, <4>2, MineFacts DEF ThreadScans, ThreadClose
      <4> QED
        BY <4>1, <4>2
    <3> QED
      BY <3>1, <3>2 DEF Finished
  <2> QED
    BY <1>7, <2>1, <2>2 DEF ThreadStep
<1>8. ASSUME NEW s \in Scan, TaskStep(s)
      PROVE  Finished'
  <2>1. UNCHANGED <<stage, fate, pivot>>
    BY <1>8 DEF TaskStep, Again, TaskClose, TaskRaise, Report, runVars
  <2>2. \A r \in Scan : scan'[r] = "cancelled" => scan[r] = "cancelled"
    BY <1>6, <1>8 DEF TaskStep, TaskClose
  <2> QED
    BY <2>1, <2>2 DEF Finished
<1>9. ASSUME NEW p \in Pivot, PivotStep(p)
      PROVE  Finished'
  BY <1>9 DEF PivotStep, runVars, workVars, Finished
<1>10. CASE UNCHANGED vars
  BY <1>10 DEF vars, runVars, workVars, Finished
<1> QED
  BY <1>1, <1>2, <1>3, <1>4, <1>5, <1>7, <1>8, <1>9, <1>10 DEF Next, Progress, RunStep

(* pipeline.run_pipeline, return: however threads, tasks, errors and the   *)
(* loop's queue interleave, a run that returned scanned all it planned,    *)
(* every scan that broke off has its engine_error out, nothing is queued   *)
(* or at work, and every pivot gave its result.                            *)
THEOREM ReturnsWhole == ASSUME Distinct PROVE Spec => []ReturnedRunIsComplete
<1> DEFINE Inv == Typed /\ InOrder /\ Past /\ Begun /\ Explained /\ LastWord /\ Finished
<1>1. Init => Inv
  <2>1. Init => Past /\ Explained /\ LastWord /\ Finished
    BY DEF Init, Past, Explained, LastWord, Finished
  <2>2. Init => Begun
    <3> SUFFICES ASSUME Init, NEW s \in Scan, scan[s] = "idle"
                 PROVE  \E n \in DOMAIN Usernames : Usernames[n] = s[2] /\ Later(n)
      BY DEF Begun
    <3>1. KindOf(s[2]) = "variant" /\ stage = "scan"
      BY DEF Init, SpawnedFirst
    <3>2. s[2] \in Source
      BY ScanSource
    <3> QED
      BY <3>1, <3>2 DEF KindOf, Source, Members, Later
  <2> QED
    BY <2>1, <2>2, TypedInit, InOrderInit, PipelineAssumption
<1>2. Inv /\ [Next]_vars => Inv'
  BY TypedStep, InOrderStep, PastStep, BegunStep, ExplainedStep, LastWordStep, FinishedStep,
     PipelineAssumption
<1>3. Inv => ReturnedRunIsComplete
  <2> SUFFICES ASSUME Inv, fate = "returned"
               PROVE  /\ \A s \in Scan : scan[s] \in {"closed", "raised", "dropped"}
                      /\ \A s \in Scan : scan[s] = "raised" => s \in engineErrors
                      /\ \A s \in Scan : scan[s] = "dropped" =>
                           \E r \in engineErrors : \E t \in Thread : {r, s} \subseteq Mine[t]
                      /\ calls = <<>>
                      /\ \A p \in Pivot : pivot[p] = "done"
    BY DEF ReturnedRunIsComplete
  <2>1. stage = "pivots" /\ \A p \in Pivot : pivot[p] = "done"
    BY DEF Finished
  <2>2. ASSUME NEW s \in Scan
        PROVE  scan[s] \in {"closed", "raised", "dropped"}
    <3>1. ~Live(s)
      BY <2>1, Drained, PipelineAssumption
    <3>2. scan[s] # "idle"
      BY <2>1 DEF Begun, Later
    <3>3. scan[s] # "cancelled"
      BY DEF Finished
    <3> QED
      BY <3>1, <3>2, <3>3 DEF Typed, ScanStates, Live
  <2>3. \A t \in Thread : t \in doneEvents
    BY <2>1 DEF Past, Over, Thread, Source, Members
  <2>4. DOMAIN calls = {}
    <3> SUFFICES ASSUME NEW i \in DOMAIN calls PROVE FALSE
      OBVIOUS
    <3> QED
      BY <2>3 DEF LastWord
  <2>5. calls = <<>>
    BY <2>4 DEF InOrder, Queued
  <2>6. ASSUME NEW s \in Scan, scan[s] = "raised"
        PROVE  s \in engineErrors
    BY <2>4, <2>6 DEF Explained, Noted
  <2>7. ASSUME NEW s \in Scan, scan[s] = "dropped"
        PROVE  \E r \in engineErrors : \E t \in Thread : {r, s} \subseteq Mine[t]
    <3>1. PICK t \in Thread : s \in Mine[t] /\ \E r \in Mine[t] : scan[r] = "raised"
      BY <2>7 DEF Explained
    <3> QED
      BY <2>6, <3>1, MineFacts
  <2> QED
    BY <2>1, <2>2, <2>5, <2>6, <2>7
<1> HIDE DEF Inv
<1>4. Spec => []Inv
  BY <1>1, <1>2, PTL DEF Spec
<1> QED
  BY <1>3, <1>4, PTL
-----------------------------------------------------------------------------
(* What keeps a run from waiting for nothing.  The end of a thread is      *)
(* known to the loop or on its way there; a thread is idle only before the *)
(* turn of its variants; a pivot is cancelled only after the end.          *)
Announced(t) ==
  t \in doneEvents \/ \E i \in DOMAIN calls : calls[i].call = "done_event" /\ calls[i].by = t

IdleThreads ==
  \A t \in Thread : thread[t] = "idle" =>
    \E n \in DOMAIN Usernames : Usernames[n] = t[1] /\ Later(n)

Awaited ==
  /\ \A t \in Thread : thread[t] = "ended" => Announced(t)
  /\ IdleThreads
  /\ \A p \in Pivot : pivot[p] = "cancelled" => fate # "running"

(* A set of numbers has a least one.                                       *)
LEMMA LeastOf ==
  ASSUME NEW S \in SUBSET Nat, S # {}
  PROVE  \E m \in S : \A k \in S : m <= k
<1> DEFINE R == {ss \in Nat \X Nat : ss[1] < ss[2]}
<1>1. IsWellFoundedOn(R, Nat)
  BY NatLessThanWellFounded DEF OpToRel
<1> HIDE DEF R
<1>2. PICK x \in S : \A y \in S : ~(<<y, x>> \in R)
  BY <1>1, WFMin
<1>3. \A y \in S : ~(y < x)
  BY <1>2 DEF R
<1> QED
  BY <1>2, <1>3

LEMMA ItemsOf ==
  ASSUME PipelineAssumption, NEW s \in Scan
  PROVE  /\ s[2] \in Source /\ Items(s[2]) \in Seq(Handle)
         /\ Position(s) \in DOMAIN Items(s[2]) /\ Position(s) \in Nat
         /\ s[3] = Items(s[2])[Position(s)]
<1>1. s[2] \in Source /\ s \in ScansOf(s[2])
  BY ScanSource
<1>2. Items(s[2]) \in Seq(Handle)
  BY <1>1 DEF Source, Items, PipelineAssumption, Members
<1>3. s[3] \in Members(Items(s[2]))
  BY <1>1 DEF ScansOf
<1>4. Position(s) \in DOMAIN Items(s[2]) /\ s[3] = Items(s[2])[Position(s)]
  BY <1>3 DEF Members, Position
<1> QED
  BY <1>1, <1>2, <1>4

(* A lane is finite: its scans are of one engine and one list of handles.  *)
LEMMA LaneFinite ==
  ASSUME PipelineAssumption, NEW s \in Scan
  PROVE  IsFiniteSet(Lane[s])
<1> DEFINE D == DOMAIN Items(s[2])
           f == [r \in Lane[s] |-> Position(r)]
<1>1. IsFiniteSet(D)
  <2>1. Items(s[2]) \in Seq(Handle)
    BY ItemsOf
  <2>2. D = 1..Len(Items(s[2])) /\ Len(Items(s[2])) \in Nat
    BY <2>1
  <2> HIDE DEF D
  <2> QED
    BY <2>2, FS_Interval
<1>2. ASSUME NEW r \in Lane[s]
      PROVE  /\ Position(r) \in D
             /\ r = <<s[1], s[2], Items(s[2])[Position(r)]>>
  <2>1. r \in Scan /\ r[1] = s[1] /\ r[2] = s[2]
    BY DEF Lane
  <2>2. Position(r) \in D /\ r[3] = Items(s[2])[Position(r)]
    BY <2>1, ItemsOf
  <2>3. r = <<r[1], r[2], r[3]>>
    BY <2>1, ScanSource DEF ScansOf
  <2> QED
    BY <2>1, <2>2, <2>3
<1>3. \A q, r \in Lane[s] : Position(q) = Position(r) => q = r
  <2> SUFFICES ASSUME NEW q \in Lane[s], NEW r \in Lane[s], Position(q) = Position(r)
               PROVE  q = r
    OBVIOUS
  <2>1. /\ q = <<s[1], s[2], Items(s[2])[Position(q)]>>
        /\ r = <<s[1], s[2], Items(s[2])[Position(r)]>>
    BY <1>2
  <2> QED
    BY <2>1, Zenon
<1> HIDE DEF D
<1>4. f \in Injection(Lane[s], D)
  <2>1. f \in [Lane[s] -> D]
    BY <1>2
  <2>2. \A q, r \in Lane[s] : f[q] = f[r] => q = r
    BY <1>3
  <2> HIDE DEF f
  <2> QED
    BY <2>1, <2>2 DEF Injection, IsInjective
<1> QED
  BY <1>1, <1>4, FS_Injection

(* Of the scans of a lane that are at work, the first is admitted when it  *)
(* is its engine's turn.                                                   *)
LEMMA FirstAdmitted ==
  ASSUME PipelineAssumption, NEW s \in Scan, Live(s), InTurn(s),
         \A r \in Lane[s] : Live(r) => Position(s) <= Position(r)
  PROVE  Admitted(s)
<1> DEFINE Ahead == {r \in Lane[s] : Live(r) /\ Position(r) < Position(s)}
<1>1. Position(s) \in Nat /\ \A r \in Lane[s] : Position(r) \in Nat
  BY ItemsOf DEF Lane
<1>2. Ahead = {}
  BY <1>1
<1>3. Cardinality(Ahead) = 0
  BY <1>2, FS_EmptySet
<1>4. Room(s) \in Nat /\ Room(s) > 0
  <2>1. Cardinality(Lane[s]) \in Nat
    BY LaneFinite, FS_CardinalityType
  <2>2. CASE s[1] = "signals"
    <3>1. IsTask(s)
      BY <2>2 DEF IsTask
    <3>2. s \in Lane[s]
      BY <3>1 DEF Lane
    <3>3. Cardinality(Lane[s]) # 0
      BY <3>2, LaneFinite, FS_EmptySet
    <3> QED
      BY <2>1, <2>2, <3>3 DEF Room
  <2>3. CASE s[1] # "signals"
    BY <2>3 DEF Room, PipelineAssumption
  <2> QED
    BY <2>2, <2>3
<1> HIDE DEF Ahead
<1>5. Cardinality(Ahead) < Room(s)
  BY <1>3, <1>4
<1> QED
  BY <1>5 DEF Admitted, Ahead

LEMMA TaskAdmitted ==
  ASSUME PipelineAssumption, NEW s \in Scan, IsTask(s), Live(s)
  PROVE  \E r \in Scan : IsTask(r) /\ Admitted(r)
<1> DEFINE V == {r \in ScansOf(s[2]) : IsTask(r) /\ Live(r)}
           T == {Turn(r[1]) : r \in V}
<1>1. PICK f \in V : \A r \in V : Turn(f[1]) <= Turn(r[1])
  <2>1. s \in V
    BY ScanSource
  <2>2. T \in SUBSET Nat /\ T # {}
    BY <2>1 DEF Turn
  <2> HIDE DEF T
  <2>3. PICK m \in T : \A k \in T : m <= k
    BY <2>2, LeastOf
  <2> QED
    BY <2>3 DEF T
<1>2. f \in Scan /\ IsTask(f) /\ Live(f) /\ f[2] = s[2]
  BY ScanSource, ScanShape
<1> DEFINE W == {r \in Lane[f] : Live(r)}
           N == {Position(r) : r \in W}
<1>3. f \in W
  BY <1>2 DEF Lane
<1>4. N \in SUBSET Nat /\ N # {}
  BY <1>2, <1>3, ItemsOf DEF Lane
<1> HIDE DEF N
<1>5. PICK m \in N : \A k \in N : m <= k
  BY <1>4, LeastOf
<1>6. PICK r \in W : Position(r) = m
  BY DEF N
<1>7. r \in Scan /\ Live(r) /\ r[1] = f[1] /\ r[2] = f[2] /\ IsTask(r)
  BY <1>2 DEF Lane, IsTask
<1>8. \A q \in Lane[r] : Live(q) => Position(r) <= Position(q)
  <2> SUFFICES ASSUME NEW q \in Lane[r], Live(q) PROVE Position(r) <= Position(q)
    OBVIOUS
  <2>1. q \in W
    BY <1>2, <1>7 DEF Lane, IsTask
  <2> QED
    BY <1>5, <1>6, <2>1 DEF N
<1>9. InTurn(r)
  BY <1>1, <1>2, <1>7 DEF InTurn
<1> QED
  BY <1>7, <1>8, <1>9, FirstAdmitted

LEMMA ShardAdmitted ==
  ASSUME PipelineAssumption, NEW t \in Thread, NEW s \in Mine[t], Live(s)
  PROVE  \E r \in Mine[t] : Admitted(r)
<1> DEFINE W == {r \in Mine[t] : Live(r)}
           N == {Position(r) : r \in W}
<1>1. s \in W
  OBVIOUS
<1>2. N \in SUBSET Nat /\ N # {}
  BY <1>1, ItemsOf, MineFacts
<1> HIDE DEF N
<1>3. PICK m \in N : \A k \in N : m <= k
  BY <1>2, LeastOf
<1>4. PICK r \in W : Position(r) = m
  BY DEF N
<1>5. r \in Scan /\ ~IsTask(r) /\ Live(r) /\ r[2] = t[1] /\ InShard(t, Position(r))
  BY MineFacts DEF Mine
<1>6. \A q \in Lane[r] : Live(q) => Position(r) <= Position(q)
  <2> SUFFICES ASSUME NEW q \in Lane[r], Live(q) PROVE Position(r) <= Position(q)
    OBVIOUS
  <2>1. PICK u \in Thread : q \in Mine[u] /\ r \in Mine[u]
    BY <1>5 DEF Lane
  <2>2. u[1] = t[1]
    BY <1>5, <2>1, MineFacts
  <2>3. InShard(u, Position(q)) /\ InShard(u, Position(r)) /\ q \in ScansOf(u[1]) /\ ~IsTask(q)
    BY <2>1 DEF Mine
  <2>4. q \in Mine[t]
    BY <1>5, <2>2, <2>3 DEF Mine, InShard
  <2>5. q \in W
    BY <2>4
  <2> QED
    BY <1>3, <1>4, <2>5 DEF N
<1>7. InTurn(r)
  <2>1. Turn(r[1]) = 0
    BY <1>5 DEF IsTask, Turn
  <2>2. \A e : Turn(e) \in Nat
    BY DEF Turn
  <2> QED
    BY <2>1, <2>2 DEF InTurn
<1> QED
  BY <1>4, <1>5, <1>6, <1>7, FirstAdmitted

LEMMA AnnouncedStays ==
  ASSUME InOrder, [Next]_vars, NEW t \in Thread, Announced(t)
  PROVE  Announced(t)'
<1>1. CASE Queues
  <2>1. doneEvents' = doneEvents
    BY <1>1 DEF Queues
  <2>2. \A i \in DOMAIN calls : i \in DOMAIN calls' /\ calls'[i] = calls[i]
    BY <1>1, QueueEnd DEF Queues, Posts
  <2> QED
    BY <2>1, <2>2 DEF Announced
<1>2. CASE LoopCall
  <2>1. doneEvents \subseteq doneEvents'
    BY <1>2 DEF LoopCall
  <2>2. ASSUME NEW i \in DOMAIN calls, calls[i].call = "done_event", calls[i].by = t
        PROVE  Announced(t)'
    <3>1. CASE i = 1
      <4>1. Head(calls).call = "done_event" /\ Head(calls).by = t
        BY <1>2, <2>2, <3>1, QueueTail
      <4> QED
        BY <1>2, <4>1 DEF LoopCall, Announced
    <3>2. CASE i # 1
      BY <1>2, <2>2, <3>2, QueueTail DEF Announced
    <3> QED
      BY <3>1, <3>2
  <2> QED
    BY <2>1, <2>2 DEF Announced
<1> QED
  BY <1>1, <1>2, QueueKinds

(* A thread starts with its variants, and ends with its done_event.        *)
Starts(n) == NextVariants(n) /\ \A m \in DOMAIN Usernames : Later(m) => m >= n

ThreadsMove ==
  \/ UNCHANGED thread
  \/ \E n \in Nat \ {0} : Starts(n)
  \/ \E t \in Thread : ThreadEnd(t)

LEMMA ThreadKinds ==
  ASSUME PipelineAssumption, Typed, [Next]_vars
  PROVE  ThreadsMove
<1>1. CASE ScanOver
  <2>1. NextVariants(1)
    BY <1>1 DEF ScanOver
  <2>2. \A m \in DOMAIN Usernames : m >= 1
    BY DEF PipelineAssumption
  <2> QED
    BY <2>1, <2>2 DEF ThreadsMove, Starts
<1>2. CASE VariantsOver
  <2>1. NextVariants(at + 1) /\ at + 1 \in Nat \ {0} /\ stage = "variants"
    BY <1>2 DEF VariantsOver, Typed
  <2>2. \A m \in DOMAIN Usernames : Later(m) => m >= at + 1
    BY <2>1 DEF PipelineAssumption, Later, Typed
  <2> QED
    BY <2>1, <2>2 DEF ThreadsMove, Starts
<1>3. CASE \/ CandidatesOver \/ EnrichOver \/ Return \/ Fail \/ Cancel \/ OnRunDone \/ LoopCall
           \/ UNCHANGED vars \/ \E p \in Pivot : PivotStep(p)
  BY <1>3 DEF CandidatesOver, EnrichOver, Return, Fail, Cancel, OnRunDone, LoopCall, PivotStep,
              vars, workVars, ThreadsMove
<1>4. ASSUME NEW t \in Thread, ThreadStep(t)
      PROVE  ThreadsMove
  BY <1>4 DEF ThreadStep, ThreadScans, Again, ThreadClose, ThreadRaise, Report, ThreadsMove
<1>5. ASSUME NEW s \in Scan, TaskStep(s)
      PROVE  ThreadsMove
  BY <1>5 DEF TaskStep, Again, TaskClose, TaskRaise, Report, ThreadsMove
<1> QED
  BY <1>1, <1>2, <1>3, <1>4, <1>5 DEF Next, Progress, RunStep

LEMMA EndIsAnnounced ==
  ASSUME PipelineAssumption, Typed, InOrder, [Next]_vars,
         \A t \in Thread : thread[t] = "ended" => Announced(t)
  PROVE  \A t \in Thread : thread'[t] = "ended" => Announced(t)'
<1> SUFFICES ASSUME NEW t \in Thread, thread'[t] = "ended"
             PROVE  Announced(t)'
  OBVIOUS
<1>1. CASE thread[t] = "ended"
  BY <1>1, AnnouncedStays
<1>2. CASE thread[t] # "ended"
  <2>1. ASSUME NEW n \in Nat \ {0}, Starts(n) PROVE FALSE
    BY <1>2, <2>1 DEF Starts, NextVariants, StartVariants
  <2>2. PICK u \in Thread : ThreadEnd(u)
    BY <1>2, <2>1, ThreadKinds DEF ThreadsMove
  <2>3. u = t
    BY <1>2, <2>2 DEF ThreadEnd, Typed
  <2> DEFINE c == [call |-> "done_event", by |-> t]
  <2>4. calls' = Append(calls, c)
    BY <2>2, <2>3 DEF ThreadEnd, Post
  <2>5. c.call = "done_event" /\ c.by = t
    OBVIOUS
  <2> HIDE DEF c
  <2>6. PICK i \in DOMAIN calls' : calls'[i] = c
    BY <2>4, QueueEnd
  <2> QED
    BY <2>5, <2>6 DEF Announced
<1> QED
  BY <1>1, <1>2

LEMMA IdleStep ==
  ASSUME PipelineAssumption, Typed, IdleThreads, [Next]_vars
  PROVE  IdleThreads'
<1>1. ASSUME NEW n \in Nat \ {0}, Starts(n)
      PROVE  IdleThreads'
  <2> SUFFICES ASSUME NEW t \in Thread, thread'[t] = "idle"
               PROVE  \E m \in DOMAIN Usernames : Usernames[m] = t[1] /\ Later(m)'
    BY DEF IdleThreads
  <2>1. thread[t] = "idle" /\ (n \in DOMAIN Usernames => t[1] # Usernames[n])
    BY <1>1 DEF Starts, NextVariants, StartVariants
  <2>2. PICK m \in DOMAIN Usernames : Usernames[m] = t[1] /\ Later(m)
    BY <2>1 DEF IdleThreads
  <2>3. /\ DOMAIN Usernames = 1..Len(Usernames) /\ Len(Usernames) \in Nat
        /\ m >= n /\ n >= 1
    BY <1>1, <2>2 DEF PipelineAssumption, Starts
  <2>4. CASE n \in DOMAIN Usernames
    <3>1. m > n
      BY <2>1, <2>2, <2>3, <2>4
    <3>2. stage' = "variants" /\ at' = n
      BY <1>1, <2>4 DEF Starts, NextVariants
    <3> QED
      BY <2>2, <3>1, <3>2 DEF Later
  <2>5. CASE n \notin DOMAIN Usernames
    BY <2>2, <2>3, <2>5
  <2> QED
    BY <2>4, <2>5
<1>2. CASE ~\E n \in Nat \ {0} : Starts(n)
  <2>1. \A t \in Thread : thread'[t] = "idle" => thread[t] = "idle"
    BY <1>2, ThreadKinds DEF ThreadsMove, ThreadEnd, Typed
  <2>2. \A n \in DOMAIN Usernames : Later(n) => Later(n)'
    <3>1. CASE WorkStep
      BY <3>1 DEF WorkStep, Later
    <3>2. CASE CandidatesOver \/ EnrichOver
      BY <3>2 DEF CandidatesOver, EnrichOver, Later
    <3>3. CASE ScanOver
      <4>1. NextVariants(1) /\ \A m \in DOMAIN Usernames : m >= 1
        BY <3>3 DEF ScanOver, PipelineAssumption
      <4> QED
        BY <1>2, <4>1 DEF Starts
    <3>4. CASE VariantsOver
      <4>1. NextVariants(at + 1) /\ at + 1 \in Nat \ {0} /\ stage = "variants"
        BY <3>4 DEF VariantsOver, Typed
      <4>2. \A m \in DOMAIN Usernames : Later(m) => m >= at + 1
        BY <4>1 DEF PipelineAssumption, Later, Typed
      <4> QED
        BY <1>2, <4>1, <4>2 DEF Starts
    <3> QED
      BY <3>1, <3>2, <3>3, <3>4, StepKinds
  <2> QED
    BY <2>1, <2>2 DEF IdleThreads
<1> QED
  BY <1>1, <1>2

LEMMA PivotsStep ==
  ASSUME [Next]_vars, Typed, \A p \in Pivot : pivot[p] = "cancelled" => fate # "running"
  PROVE  \A p \in Pivot : pivot'[p] = "cancelled" => fate' # "running"
<1>1. CASE ScanOver \/ VariantsOver \/ CandidatesOver \/ EnrichOver
  BY <1>1 DEF ScanOver, VariantsOver, CandidatesOver, EnrichOver
<1>2. CASE Return \/ Fail \/ Cancel
  BY <1>2 DEF Return, Fail, Cancel, End
<1>3. CASE OnRunDone
  BY <1>3 DEF OnRunDone
<1>4. CASE LoopCall \/ UNCHANGED vars
  BY <1>4 DEF LoopCall, vars, runVars
<1>5. ASSUME NEW t \in Thread, ThreadStep(t)
      PROVE  UNCHANGED <<pivot, fate>>
  BY <1>5 DEF ThreadStep, ThreadEnd, ThreadScans, Again, ThreadClose, ThreadRaise, Report, runVars
<1>6. ASSUME NEW s \in Scan, TaskStep(s)
      PROVE  UNCHANGED <<pivot, fate>>
  BY <1>6 DEF TaskStep, Again, TaskClose, TaskRaise, Report, runVars
<1>7. ASSUME NEW q \in Pivot, PivotStep(q)
      PROVE  \A p \in Pivot : pivot'[p] = "cancelled" => fate' # "running"
  BY <1>7 DEF PivotStep, runVars, Typed
<1> QED
  BY <1>1, <1>2, <1>3, <1>4, <1>5, <1>6, <1>7 DEF Next, Progress, RunStep

LEMMA AwaitedStep ==
  ASSUME PipelineAssumption, Typed, InOrder, Awaited, [Next]_vars
  PROVE  Awaited'
<1>1. \A t \in Thread : thread'[t] = "ended" => Announced(t)'
  BY EndIsAnnounced DEF Awaited
<1>2. IdleThreads'
  BY IdleStep DEF Awaited
<1>3. \A p \in Pivot : pivot'[p] = "cancelled" => fate' # "running"
  BY PivotsStep DEF Awaited
<1> QED
  BY <1>1, <1>2, <1>3 DEF Awaited

(* The pivots are awaited in a fixed order: of those that raised, the      *)
(* first comes behind pivots that are done.                                *)
LEMMA FirstBreaks ==
  ASSUME PipelineAssumption, \A p \in Pivot : pivot[p] \in {"done", "raised"}
  PROVE  PivotBroke \/ \A p \in Pivot : pivot[p] = "done"
<1> DEFINE order == <<"email", "domain", "broker", "phone">>
           S == {i \in 1..4 : order[i] \in Pivot /\ pivot[order[i]] = "raised"}
<1>1. \A p \in Pivot : \E i \in 1..4 : order[i] = p
  <2>1. \A p \in Pivot : p \in {"email", "domain", "broker", "phone"}
    BY DEF PipelineAssumption
  <2>2. order[1] = "email" /\ order[2] = "domain" /\ order[3] = "broker" /\ order[4] = "phone"
    OBVIOUS
  <2>3. 1 \in 1..4 /\ 2 \in 1..4 /\ 3 \in 1..4 /\ 4 \in 1..4
    OBVIOUS
  <2> HIDE DEF order
  <2> QED
    BY <2>1, <2>2, <2>3, Zenon
<1>2. \A i, j \in 1..4 : order[i] = order[j] => i = j
  OBVIOUS
<1>3. DOMAIN order = 1..4
  OBVIOUS
<1>4. ASSUME NEW n \in 1..4
      PROVE  Before(order[n]) = {order[i] : i \in 1..(n - 1)} \intersect Pivot
  <2>1. (CHOOSE i \in DOMAIN order : order[i] = order[n]) = n
    BY <1>2, <1>3
  <2> QED
    BY <2>1 DEF Before
<1> HIDE DEF order
<1>5. CASE S = {}
  <2> SUFFICES ASSUME NEW p \in Pivot PROVE pivot[p] = "done"
    OBVIOUS
  <2>1. PICK i \in 1..4 : order[i] = p
    BY <1>1
  <2>2. i \notin S
    BY <1>5
  <2> QED
    BY <2>1, <2>2
<1>6. CASE S # {}
  <2> HIDE DEF S
  <2>0. S \in SUBSET Nat
    BY DEF S
  <2>1. PICK m \in S : \A k \in S : m <= k
    BY <1>6, <2>0, LeastOf
  <2> USE DEF S
  <2>2. m \in 1..4 /\ order[m] \in Pivot /\ pivot[order[m]] = "raised"
    OBVIOUS
  <2>3. ASSUME NEW q \in Before(order[m]) PROVE pivot[q] = "done"
    <3>1. PICK i \in 1..(m - 1) : q = order[i]
      BY <1>4, <2>2
    <3>2. q \in Pivot /\ i \in 1..4 /\ i < m
      BY <1>4, <2>2, <3>1
    <3>3. i \notin S
      BY <2>1, <3>2
    <3> QED
      BY <3>1, <3>2, <3>3
  <2> QED
    BY <2>2, <2>3 DEF PivotBroke
<1> QED
  BY <1>5, <1>6

(* Nothing is at work that could not go on, so where nothing can go on     *)
(* every thread has ended and is known to have, up to those of variants    *)
(* whose turn has not come.                                                *)
LEMMA AtRest ==
  ASSUME PipelineAssumption, Typed, InOrder, Awaited, ~CanGoOn
  PROVE  /\ \A s \in Scan : ~Live(s)
         /\ \A t \in Thread : thread[t] # "alive"
         /\ \A t \in Thread : t \in doneEvents \/
              \E n \in DOMAIN Usernames : Usernames[n] = t[1] /\ Later(n)
<1>1. ASSUME NEW t \in Thread PROVE thread[t] # "alive"
  <2> SUFFICES ASSUME thread[t] = "alive" PROVE FALSE
    OBVIOUS
  <2>1. CASE \E s \in Mine[t] : Live(s)
    BY <2>1, ShardAdmitted DEF CanGoOn, Runnable
  <2>2. CASE \A s \in Mine[t] : ~Live(s)
    BY <2>2 DEF CanGoOn, Runnable, MayEnd
  <2> QED
    BY <2>1, <2>2
<1>2. ASSUME NEW s \in Scan PROVE ~Live(s)
  <2>1. CASE IsTask(s)
    BY <2>1, TaskAdmitted DEF CanGoOn
  <2>2. CASE ~IsTask(s)
    <3>1. PICK t \in Thread : s \in Mine[t]
      BY <2>2, Covered
    <3>2. CASE thread[t] = "ended"
      BY <3>1, <3>2 DEF InOrder, Rested
    <3>3. CASE thread[t] = "idle"
      <4>1. PICK n \in DOMAIN Usernames : Usernames[n] = t[1] /\ Later(n)
        BY <3>3 DEF Awaited, IdleThreads
      <4>2. s \in ScansOf(Usernames[n])
        BY <3>1, <4>1 DEF Mine
      <4>3. scan[s] = "idle"
        BY <4>1, <4>2 DEF InOrder, Untouched
      <4> QED
        BY <4>3 DEF Live
    <3> QED
      BY <1>1, <3>2, <3>3 DEF Typed
  <2> QED
    BY <2>1, <2>2
<1>3. ASSUME NEW t \in Thread
      PROVE  t \in doneEvents \/ \E n \in DOMAIN Usernames : Usernames[n] = t[1] /\ Later(n)
  <2>1. calls = <<>>
    BY DEF CanGoOn
  <2>2. DOMAIN calls = {}
    BY <2>1
  <2>3. thread[t] \in {"idle", "ended"}
    BY <1>1 DEF Typed
  <2> QED
    BY <2>2, <2>3 DEF Awaited, IdleThreads, Announced
<1> QED
  BY <1>1, <1>2, <1>3

(* What a run waits for comes: with all it started at rest, it can go on.  *)
LEMMA RunGoesOn ==
  ASSUME PipelineAssumption, Distinct, Typed, InOrder, Past, Awaited, ~CanGoOn,
         stage \in {"scan", "variants", "candidates", "enrich", "pivots"}
  PROVE  fate # "running"
<1> SUFFICES ASSUME fate = "running" PROVE FALSE
  OBVIOUS
<1>1. ~RunMayGoOn
  BY DEF CanGoOn
<1>2. /\ \A s \in Scan : ~Live(s)
      /\ \A t \in Thread : t \in doneEvents \/
           \E n \in DOMAIN Usernames : Usernames[n] = t[1] /\ Later(n)
  BY AtRest
<1>3. ASSUME NEW src \in Source, \A n \in DOMAIN Usernames : Usernames[n] = src => ~Later(n)
      PROVE  Over(src)
  BY <1>2, <1>3, ScanShape DEF Over
<1>4. \A n \in DOMAIN Usernames : Usernames[n] \in Source /\ Usernames[n] \notin {"base", "name"}
  BY DEF Source, Members, Distinct
<1>5. CASE stage = "scan"
  BY <1>1, <1>3, <1>4, <1>5 DEF RunMayGoOn, Source
<1>6. CASE stage = "variants"
  <2>1. at \in DOMAIN Usernames
    BY <1>6 DEF Past
  <2>2. ASSUME NEW n \in DOMAIN Usernames, Usernames[n] = Usernames[at] PROVE ~Later(n)
    <3>1. n = at
      BY <2>1, <2>2 DEF Distinct
    <3> QED
      BY <1>6, <3>1 DEF Later, Typed
  <2> QED
    BY <1>1, <1>3, <1>4, <1>6, <2>1, <2>2 DEF RunMayGoOn
<1>7. CASE stage = "candidates"
  BY <1>1, <1>3, <1>4, <1>7 DEF RunMayGoOn, Source
<1>8. CASE stage = "enrich"
  BY <1>1, <1>8 DEF RunMayGoOn
<1>9. CASE stage = "pivots"
  <2>1. \A p \in Pivot : pivot[p] \in {"done", "raised"}
    BY DEF CanGoOn, Awaited, Typed
  <2> QED
    BY <1>1, <1>9, <2>1, FirstBreaks DEF RunMayGoOn
<1> QED
  BY <1>5, <1>6, <1>7, <1>8, <1>9

Stages == stage \in {"scan", "variants", "candidates", "enrich", "pivots"}

LEMMA StagesStep ==
  ASSUME Typed, Stages, [Next]_vars
  PROVE  Stages'
BY StepKinds DEF Stages, WorkStep, ScanOver, VariantsOver, CandidatesOver, EnrichOver, NextVariants

(* pipeline.run_pipeline, wait_all and the finally of _sherlock_worker:    *)
(* whatever raises, is cancelled or outlives the run, something can go on  *)
(* until the run is over and its done-callback called, the loop's queue is *)
(* empty, and no thread or scan of the run is at work.                     *)
THEOREM NeverStuck == ASSUME Distinct PROVE Spec => []NothingHangs
<1> DEFINE Inv == Typed /\ InOrder /\ Past /\ Awaited /\ Stages
<1>1. Init => Inv
  <2>1. Init => Past /\ Stages
    BY DEF Init, Past, Stages
  <2>2. Init => Awaited
    <3> SUFFICES ASSUME Init PROVE Awaited
      OBVIOUS
    <3>1. ASSUME NEW t \in Thread, thread[t] = "idle"
          PROVE  \E n \in DOMAIN Usernames : Usernames[n] = t[1] /\ Later(n)
      <4>1. KindOf(t[1]) = "variant" /\ stage = "scan"
        BY <3>1 DEF Init
      <4>2. t[1] \in Source
        BY DEF Thread
      <4> QED
        BY <4>1, <4>2 DEF KindOf, Source, Members, Later
    <3>2. \A t \in Thread : thread[t] # "ended"
      BY DEF Init
    <3>3. \A p \in Pivot : pivot[p] # "cancelled"
      BY DEF Init
    <3> QED
      BY <3>1, <3>2, <3>3 DEF Awaited, IdleThreads
  <2> QED
    BY <2>1, <2>2, TypedInit, InOrderInit, PipelineAssumption
<1>2. Inv /\ [Next]_vars => Inv'
  BY TypedStep, InOrderStep, PastStep, AwaitedStep, StagesStep, PipelineAssumption
<1>3. Inv => NothingHangs
  <2> SUFFICES ASSUME Inv, ~CanGoOn PROVE Quiet
    BY DEF NothingHangs
  <2>1. fate # "running"
    BY RunGoesOn, PipelineAssumption DEF Stages
  <2>2. settled /\ calls = <<>>
    BY <2>1 DEF CanGoOn
  <2> QED
    BY <2>2, AtRest, PipelineAssumption DEF Quiet
<1> HIDE DEF Inv
<1>4. Spec => []Inv
  BY <1>1, <1>2, PTL DEF Spec
<1> QED
  BY <1>3, <1>4, PTL

-----------------------------------------------------------------------------
(* What each step uses up.                                                 *)
Lefts == left \in [Scan -> SUBSET Site]

LEMMA LeftsStep ==
  ASSUME Lefts, [Next]_vars
  PROVE  Lefts'
<1>1. CASE \/ RunStep \/ Cancel \/ OnRunDone \/ LoopCall \/ UNCHANGED vars
           \/ (\E t \in Thread : ThreadEnd(t)) \/ \E p \in Pivot : PivotStep(p)
  BY <1>1 DEF RunStep, Cancel, OnRunDone, LoopCall, ThreadEnd, PivotStep, ScanOver, VariantsOver,
              CandidatesOver, EnrichOver, Return, Fail, vars, workVars, Lefts
<1>2. ASSUME NEW s \in Scan,
             \/ Again(s) \/ Close(s) \/ TaskRaise(s)
             \/ \E site \in Site, found \in BOOLEAN : Report(s, site, found)
      PROVE  Lefts'
  BY <1>2 DEF Again, Close, TaskRaise, Report, Lefts
<1>3. ASSUME NEW t \in Thread, NEW s \in Mine[t], ThreadScans(t, s)
      PROVE  Lefts'
  <2>1. CASE ThreadRaise(t, s)
    BY <2>1 DEF ThreadRaise, Lefts
  <2> QED
    BY <1>2, <1>3, <2>1, MineFacts DEF ThreadScans, ThreadClose
<1>4. ASSUME NEW s \in Scan, TaskStep(s)
      PROVE  Lefts'
  BY <1>2, <1>4 DEF TaskStep, TaskClose
<1> QED
  BY <1>1, <1>3, <1>4 DEF Next, Progress, ThreadStep

LEMMA StartUsesUp ==
  ASSUME PipelineAssumption, Typed, InOrder, NEW n \in Nat \ {0}, NextVariants(n),
         stage = "scan" \/ (stage = "variants" /\ n = at + 1),
         UNCHANGED <<fate, settled, left, pivot>>
  PROVE  UsesUpWork
<1>1. at \in Nat
  BY DEF Typed
<1>2. StageMoves
  <2>1. \/ stage' = "variants" /\ at' = n
        \/ stage' = "candidates"
    BY DEF NextVariants
  <2> QED
    BY <1>1, <2>1 DEF StageMoves, StageRank
<1>3. CASE n \notin DOMAIN Usernames
  <2>1. UNCHANGED <<scan, thread>>
    BY <1>3 DEF NextVariants
  <2> QED
    BY <1>2, <2>1 DEF UsesUpWork, RunMoves
<1>4. CASE n \in DOMAIN Usernames
  <2>1. Later(n)
    BY <1>1 DEF Later
  <2>2. ASSUME NEW s \in Scan
        PROVE  ScanMoves(s) \/ (scan'[s] = scan[s] /\ left'[s] = left[s])
    <3>1. scan'[s] = IF s[2] = Usernames[n] THEN "open" ELSE scan[s]
      BY <1>4 DEF NextVariants, StartVariants
    <3>2. s[2] = Usernames[n] => scan[s] = "idle"
      BY <1>4, <2>1, ScanSource DEF InOrder, Untouched
    <3> QED
      BY <3>1, <3>2 DEF ScanMoves, ScanRank
  <2>3. ASSUME NEW t \in Thread
        PROVE  ThreadMoves(t) \/ thread'[t] = thread[t]
    <3>1. thread'[t] = IF t[1] = Usernames[n] THEN "alive" ELSE thread[t]
      BY <1>4 DEF NextVariants, StartVariants
    <3>2. t[1] = Usernames[n] => thread[t] = "idle"
      BY <1>4, <2>1 DEF InOrder, Untouched
    <3> QED
      BY <3>1, <3>2 DEF ThreadMoves, ThreadRank
  <2> QED
    BY <1>2, <2>2, <2>3 DEF UsesUpWork, RunMoves
<1> QED
  BY <1>3, <1>4

(* A scan at work that comes to rest has moved on.                         *)
LEMMA RestMoves ==
  ASSUME Typed, NEW s \in Scan, Live(s),
         scan'[s] \in {"closed", "raised", "dropped", "cancelled"}
  PROVE  ScanMoves(s)
BY DEF Typed, Live, ScanMoves, ScanRank

LEMMA EndUsesUp ==
  ASSUME Typed, Cancel \/ OnRunDone
  PROVE  UsesUpWork
<1>1. UNCHANGED <<stage, at, left, thread>>
  BY DEF Cancel, OnRunDone, End
<1>2. ASSUME NEW s \in Scan
      PROVE  ScanMoves(s) \/ (scan'[s] = scan[s] /\ left'[s] = left[s])
  <2>1. scan'[s] = scan[s] \/ (Live(s) /\ scan'[s] = "cancelled")
    BY DEF Cancel, OnRunDone
  <2> QED
    BY <1>1, <2>1, RestMoves
<1>3. ASSUME NEW p \in Pivot
      PROVE  PivotMoves(p) \/ pivot'[p] = pivot[p]
  BY DEF Cancel, OnRunDone, PivotMoves
<1>4. CASE Cancel
  <2>1. fate = "running" /\ fate' # "running" /\ UNCHANGED settled
    BY <1>4 DEF Cancel, End
  <2> QED
    BY <1>1, <1>2, <1>3, <2>1 DEF UsesUpWork, RunMoves
<1>5. CASE OnRunDone
  <2>1. ~settled /\ settled' /\ UNCHANGED fate
    BY <1>5 DEF OnRunDone
  <2> QED
    BY <1>1, <1>2, <1>3, <2>1 DEF UsesUpWork, RunMoves
<1> QED
  BY <1>4, <1>5

(* One scan reports, is scanned again, closes or raises.                   *)
LEMMA ScanUsesUp ==
  ASSUME Typed, Lefts, NEW s \in Scan, Live(s),
         \/ Again(s) \/ Close(s) \/ TaskRaise(s)
         \/ \E site \in Site, found \in BOOLEAN : Report(s, site, found)
  PROVE  /\ ScanMoves(s)
         /\ \A r \in Scan : r # s => scan'[r] = scan[r] /\ left'[r] = left[r]
<1>1. CASE Again(s)
  BY <1>1 DEF Again, ScanMoves, ScanRank, Typed, Lefts
<1>2. CASE Close(s)
  <2>1. scan'[s] = "closed" /\ \A r \in Scan : r # s => scan'[r] = scan[r] /\ left'[r] = left[r]
    BY <1>2 DEF Close, Typed, Lefts
  <2> QED
    BY <2>1, RestMoves
<1>3. CASE TaskRaise(s)
  BY <1>3 DEF TaskRaise, ScanMoves, Typed, Lefts
<1>4. CASE \E site \in Site, found \in BOOLEAN : Report(s, site, found)
  BY <1>4 DEF Report, ScanMoves, Typed, Lefts
<1> QED
  BY <1>1, <1>2, <1>3, <1>4

LEMMA RaiseUsesUp ==
  ASSUME Typed, Lefts, NEW t \in Thread, NEW s \in Mine[t], ThreadRaise(t, s)
  PROVE  /\ ScanMoves(s)
         /\ \A r \in Scan : ScanMoves(r) \/ (scan'[r] = scan[r] /\ left'[r] = left[r])
<1>1. s \in Scan /\ Live(s)
  BY MineFacts DEF ThreadRaise, Live
<1>2. /\ scan'[s] = "raised"
      /\ \A r \in Scan : scan'[r] = scan[r] \/ (Live(r) /\ scan'[r] \in {"raised", "dropped"})
      /\ \A r \in Scan : r # s => left'[r] = left[r]
  BY <1>1 DEF ThreadRaise, Lefts
<1>3. ScanMoves(s)
  BY <1>1, <1>2, RestMoves
<1> QED
  BY <1>2, <1>3, RestMoves

LEMMA WorkUsesUp ==
  ASSUME UNCHANGED <<stage, at, fate, settled, thread, pivot>>, NEW s \in Scan, ScanMoves(s),
         \A r \in Scan : ScanMoves(r) \/ (scan'[r] = scan[r] /\ left'[r] = left[r])
  PROVE  UsesUpWork
BY DEF UsesUpWork

(* pipeline.run_pipeline: a run never goes back.  Each of its steps, the   *)
(* one that cancels it included, moves its stage, its end, a thread, a     *)
(* scan or a pivot on, or shortens what a scan has still to report or,     *)
(* with all of this as it was, the loop's queue; none undoes another's     *)
(* work.  A scan is scanned again once, no variant's scans start twice.    *)
THEOREM WorkIsUsedUp == ASSUME Distinct PROVE Spec => NothingRepeats
<1> DEFINE Inv == Typed /\ InOrder /\ Lefts
<1>1. Init => Inv
  BY TypedInit, InOrderInit, PipelineAssumption DEF Init, Lefts
<1>2. Inv /\ [Next]_vars => Inv'
  BY TypedStep, InOrderStep, LeftsStep, PipelineAssumption
<1>3. Inv /\ [Next]_vars => [UsesUpWork]_vars
  <2> SUFFICES ASSUME Inv, Next PROVE UsesUpWork
    OBVIOUS
  <2>1. CASE ScanOver
    <3>1. NextVariants(1) /\ stage = "scan" /\ UNCHANGED <<fate, settled, left, pivot>>
      BY <2>1 DEF ScanOver
    <3> QED
      BY <3>1, StartUsesUp, PipelineAssumption
  <2>2. CASE VariantsOver
    <3>1. NextVariants(at + 1) /\ stage = "variants" /\ UNCHANGED <<fate, settled, left, pivot>>
      BY <2>2 DEF VariantsOver
    <3>2. at + 1 \in Nat \ {0}
      BY DEF Typed
    <3> QED
      BY <3>1, <3>2, StartUsesUp, PipelineAssumption
  <2>3. CASE CandidatesOver \/ EnrichOver
    BY <2>3 DEF CandidatesOver, EnrichOver, workVars, UsesUpWork, RunMoves, StageMoves, StageRank
  <2>4. CASE Return \/ Fail
    BY <2>4 DEF Return, Fail, End, workVars, UsesUpWork, RunMoves
  <2>5. CASE Cancel \/ OnRunDone
    BY <2>5, EndUsesUp
  <2>6. CASE LoopCall
    BY <2>6 DEF LoopCall, runVars, workVars, UsesUpWork
  <2>7. ASSUME NEW t \in Thread, ThreadEnd(t)
        PROVE  UsesUpWork
    <3>1. UNCHANGED <<stage, at, fate, settled, scan, left, pivot>>
      BY <2>7 DEF ThreadEnd, runVars
    <3>2. ThreadMoves(t) /\ \A u \in Thread : u # t => thread'[u] = thread[u]
      BY <2>7 DEF ThreadEnd, MayEnd, ThreadMoves, ThreadRank, Typed
    <3> QED
      BY <3>1, <3>2 DEF UsesUpWork
  <2>8. ASSUME NEW t \in Thread, NEW s \in Mine[t], ThreadScans(t, s)
        PROVE  UsesUpWork
    <3>1. UNCHANGED <<stage, at, fate, settled, thread, pivot>>
      BY <2>8 DEF ThreadScans, Again, ThreadClose, ThreadRaise, Report, runVars
    <3>2. s \in Scan /\ Live(s)
      BY <2>8, MineFacts, AdmittedLive DEF ThreadScans
    <3>3. CASE ThreadRaise(t, s)
      BY <3>1, <3>2, <3>3, RaiseUsesUp, WorkUsesUp
    <3>4. CASE ~ThreadRaise(t, s)
      <4>1. \/ Again(s) \/ Close(s)
            \/ \E site \in Site, found \in BOOLEAN : Report(s, site, found)
        BY <2>8, <3>4 DEF ThreadScans, ThreadClose
      <4>2. /\ ScanMoves(s)
            /\ \A r \in Scan : r # s => scan'[r] = scan[r] /\ left'[r] = left[r]
        BY <3>2, <4>1, ScanUsesUp
      <4> QED
        BY <3>1, <3>2, <4>2, WorkUsesUp
    <3> QED
      BY <3>3, <3>4
  <2>9. ASSUME NEW s \in Scan, TaskStep(s)
        PROVE  UsesUpWork
    <3>1. UNCHANGED <<stage, at, fate, settled, thread, pivot>>
      BY <2>9 DEF TaskStep, Again, TaskClose, TaskRaise, Report, runVars
    <3>2. Live(s)
      BY <2>9, AdmittedLive DEF TaskStep
    <3>3. \/ Again(s) \/ Close(s) \/ TaskRaise(s)
          \/ \E site \in Site, found \in BOOLEAN : Report(s, site, found)
      BY <2>9 DEF TaskStep, TaskClose
    <3>4. /\ ScanMoves(s)
          /\ \A r \in Scan : r # s => scan'[r] = scan[r] /\ left'[r] = left[r]
      BY <3>2, <3>3, ScanUsesUp
    <3> QED
      BY <3>1, <3>4, WorkUsesUp
  <2>10. ASSUME NEW p \in Pivot, PivotStep(p)
         PROVE  UsesUpWork
    <3>1. UNCHANGED <<stage, at, fate, settled, scan, left, thread>>
      BY <2>10 DEF PivotStep, runVars, workVars
    <3>2. PivotMoves(p) /\ \A q \in Pivot : q # p => pivot'[q] = pivot[q]
      BY <2>10 DEF PivotStep, PivotMoves, Typed
    <3> QED
      BY <3>1, <3>2 DEF UsesUpWork
  <2> QED
    BY <2>1, <2>2, <2>3, <2>4, <2>5, <2>6, <2>7, <2>8, <2>9, <2>10
       DEF Next, Progress, RunStep, ThreadStep
<1> HIDE DEF Inv
<1>4. Spec => []Inv
  BY <1>1, <1>2, PTL DEF Spec
<1>5. [][Next]_vars /\ []Inv => [][UsesUpWork]_vars
  BY <1>3, PTL
<1> QED
  BY <1>4, <1>5, PTL DEF Spec, NothingRepeats

-----------------------------------------------------------------------------
(* What the run has gathered.  A row is in a list from its first engine    *)
(* on; what a thread posted, or a row holds, was reported; the snapshot is *)
(* taken once, at the end of the candidates.                               *)
Groups == {"none", "base", "variant", "name"}
Listed ==
  /\ group \in [Key -> Groups]
  /\ \A k \in Key : engines[k] # {} => group[k] # "none"
Reported(c) == c.call = "found" => <<c.by, c.site>> \in reported
Truthful ==
  /\ \A i \in DOMAIN calls : Reported(calls[i])
  /\ Filed(Key) \subseteq Known
NotYet == ~Summed => snapshot = {}
InHand == Recorded /\ Listed /\ Truthful /\ NotYet

(* The kinds of step, as far as accounts go.                               *)
Finds(s, site) ==
  /\ ~Summed /\ UNCHANGED <<stage, fate, snapshot>>
  /\ reported' = reported \union {<<s, site>>}
  /\ \/ UNCHANGED <<engines, group>>
     \/ HandleFound(s, site)
Files(s, site) ==
  /\ ~Summed /\ UNCHANGED <<stage, fate, snapshot, reported>>
  /\ HandleFound(s, site) /\ <<s, site>> \in reported
Ends ==
  /\ fate = "running" /\ fate' \in {"returned", "failed", "cancelled"}
  /\ fate' # "cancelled" => Summed
  /\ UNCHANGED <<stage, snapshot, reported, engines, group>>
Rests ==
  /\ UNCHANGED <<fate, snapshot, reported, engines, group>>
  /\ Summed' = Summed
GatherStep ==
  \/ \E s \in Scan, site \in Site : Finds(s, site) \/ Files(s, site)
  \/ CandidatesOver \/ Ends \/ Rests

LEMMA ReportGathers ==
  ASSUME NEW s \in Scan, NEW site \in Site, NEW found \in BOOLEAN, ~Summed,
         Report(s, site, found)
  PROVE  GatherStep
<1>1. UNCHANGED <<stage, fate, snapshot>>
  BY DEF Report, runVars
<1>2. CASE found
  <2>1. Finds(s, site)
    BY <1>1, <1>2 DEF Finds, Report
  <2> QED
    BY <2>1 DEF GatherStep
<1>3. CASE ~found
  <2>1. UNCHANGED <<reported, engines, group>>
    BY <1>3 DEF Report
  <2> QED
    BY <1>1, <2>1 DEF GatherStep, Rests, Summed
<1> QED
  BY <1>2, <1>3

LEMMA LoopGathers ==
  ASSUME InOrder, Truthful, LoopCall,
         Summed => \A i \in DOMAIN calls : calls[i].call # "found"
  PROVE  GatherStep
<1> DEFINE c == Head(calls)
<1>1. /\ 1 \in DOMAIN calls /\ c = calls[1] /\ c \in Call
      /\ UNCHANGED <<stage, fate, snapshot, reported>>
  BY DEF LoopCall, InOrder, Queued, runVars
<1>2. CASE c.call = "found"
  <2>1. c.by \in Scan /\ c.site \in Site
    BY <1>1, <1>2 DEF Call
  <2>2. HandleFound(c.by, c.site)
    BY <1>2 DEF LoopCall
  <2>3. <<c.by, c.site>> \in reported
    BY <1>1, <1>2 DEF Truthful, Reported
  <2>4. ~Summed
    BY <1>1, <1>2
  <2> HIDE DEF c
  <2>5. Files(c.by, c.site)
    BY <1>1, <2>2, <2>3, <2>4 DEF Files
  <2> QED
    BY <2>1, <2>5 DEF GatherStep
<1>3. CASE c.call # "found"
  <2>1. UNCHANGED <<engines, group>>
    BY <1>3 DEF LoopCall, rowVars
  <2> QED
    BY <1>1, <2>1 DEF GatherStep, Rests, Summed
<1> QED
  BY <1>2, <1>3

LEMMA StepGathers ==
  ASSUME PipelineAssumption, InOrder, Past, Truthful, [Next]_vars
  PROVE  GatherStep
<1>1. Summed => /\ \A s \in Scan : ~Live(s)
                /\ \A i \in DOMAIN calls : calls[i].call # "found"
  BY Drained DEF Summed
<1>2. CASE ScanOver \/ VariantsOver \/ EnrichOver
  <2>1. UNCHANGED <<fate, snapshot, reported, engines, group>>
    BY <1>2 DEF ScanOver, VariantsOver, EnrichOver, rowVars
  <2>2. Summed' = Summed
    BY <1>2 DEF ScanOver, VariantsOver, EnrichOver, NextVariants, Summed
  <2> QED
    BY <2>1, <2>2 DEF GatherStep, Rests
<1>3. CASE CandidatesOver
  BY <1>3 DEF GatherStep
<1>4. CASE Return \/ Fail \/ Cancel
  BY <1>4 DEF Return, Fail, Cancel, End, rowVars, Summed, GatherStep, Ends
<1>5. CASE OnRunDone
  BY <1>5 DEF OnRunDone, rowVars, Summed, GatherStep, Rests
<1>6. CASE LoopCall
  BY <1>1, <1>6, LoopGathers
<1>7. ASSUME NEW s \in Scan, NEW site \in Site, NEW found \in BOOLEAN, Report(s, site, found)
      PROVE  GatherStep
  BY <1>1, <1>7, ReportGathers DEF Report
<1>8. ASSUME NEW t \in Thread, NEW s \in Mine[t], ThreadScans(t, s)
      PROVE  GatherStep
  <2>1. CASE Again(s) \/ ThreadClose(t, s) \/ ThreadRaise(t, s)
    BY <2>1 DEF Again, ThreadClose, ThreadRaise, runVars, rowVars, Summed, GatherStep, Rests
  <2> QED
    BY <1>7, <1>8, <2>1, MineFacts DEF ThreadScans
<1>9. ASSUME NEW t \in Thread, ThreadEnd(t)
      PROVE  GatherStep
  BY <1>9 DEF ThreadEnd, runVars, rowVars, Summed, GatherStep, Rests
<1>10. ASSUME NEW s \in Scan, TaskStep(s)
       PROVE  GatherStep
  <2>1. CASE Again(s) \/ TaskClose(s) \/ TaskRaise(s)
    BY <2>1 DEF Again, TaskClose, TaskRaise, runVars, rowVars, Summed, GatherStep, Rests
  <2> QED
    BY <1>7, <1>10, <2>1 DEF TaskStep
<1>11. CASE (\E p \in Pivot : PivotStep(p)) \/ UNCHANGED vars
  BY <1>11 DEF PivotStep, vars, runVars, rowVars, Summed, GatherStep, Rests
<1> QED
  BY <1>2, <1>3, <1>4, <1>5, <1>6, <1>8, <1>9, <1>10, <1>11
     DEF Next, Progress, RunStep, ThreadStep

-----------------------------------------------------------------------------
(* What a step other than the loop's adds to the queue was reported.       *)
AddsTruth ==
  \/ UNCHANGED calls
  \/ \E c : calls' = Append(calls, c) /\ Reported(c)'

LEMMA QueueAdds ==
  ASSUME [Next]_vars
  PROVE  LoopCall \/ AddsTruth
<1>1. CASE RunStep \/ Cancel \/ OnRunDone
  BY <1>1 DEF RunStep, Cancel, OnRunDone, ScanOver, VariantsOver, CandidatesOver, EnrichOver,
              Return, Fail, End, loopVars, AddsTruth
<1>2. ASSUME NEW s, NEW site, NEW found, Report(s, site, found)
      PROVE  AddsTruth
  <2>1. CASE found /\ ~IsTask(s)
    <3> DEFINE c == [call |-> "found", by |-> s, site |-> site]
    <3>1. calls' = Append(calls, c) /\ <<c.by, c.site>> \in reported'
      BY <1>2, <2>1 DEF Report
    <3> HIDE DEF c
    <3>2. Reported(c)'
      BY <3>1 DEF Reported
    <3> QED
      BY <3>1, <3>2 DEF AddsTruth
  <2>2. CASE ~found \/ IsTask(s)
    BY <1>2, <2>2 DEF Report, AddsTruth
  <2> QED
    BY <2>1, <2>2
<1>3. ASSUME NEW call, call # "found", NEW s, Post(call, s)
      PROVE  AddsTruth
  <2> DEFINE c == [call |-> call, by |-> s]
  <2>1. calls' = Append(calls, c) /\ c.call # "found"
    BY <1>3 DEF Post
  <2> HIDE DEF c
  <2>2. Reported(c)'
    BY <2>1 DEF Reported
  <2> QED
    BY <2>1, <2>2 DEF AddsTruth
<1>4. ASSUME NEW t \in Thread, ThreadStep(t)
      PROVE  AddsTruth
  <2>1. CASE ThreadEnd(t)
    BY <1>3, <2>1 DEF ThreadEnd
  <2>2. ASSUME NEW s \in Mine[t], ThreadClose(t, s) \/ ThreadRaise(t, s)
        PROVE  AddsTruth
    BY <1>3, <2>2 DEF ThreadClose, ThreadRaise
  <2>3. ASSUME NEW s \in Mine[t], Again(s)
        PROVE  AddsTruth
    BY <2>3 DEF Again, loopVars, AddsTruth
  <2> QED
    BY <1>2, <1>4, <2>1, <2>2, <2>3 DEF ThreadStep, ThreadScans
<1>5. ASSUME NEW s \in Scan, TaskStep(s)
      PROVE  AddsTruth
  <2>1. CASE Again(s) \/ TaskClose(s) \/ TaskRaise(s)
    BY <2>1 DEF Again, TaskClose, TaskRaise, loopVars, AddsTruth
  <2> QED
    BY <1>2, <1>5, <2>1 DEF TaskStep
<1>6. CASE (\E p \in Pivot : PivotStep(p)) \/ UNCHANGED vars
  BY <1>6 DEF PivotStep, vars, loopVars, AddsTruth
<1> QED
  BY <1>1, <1>4, <1>5, <1>6 DEF Next, Progress

LEMMA QueueTruth ==
  ASSUME InOrder, \A i \in DOMAIN calls : Reported(calls[i]), [Next]_vars,
         reported \subseteq reported'
  PROVE  \A i \in DOMAIN calls' : Reported(calls[i])'
<1>1. \A c : Reported(c) => Reported(c)'
  BY DEF Reported
<1>2. CASE LoopCall
  BY <1>1, <1>2, QueueTail
<1>3. CASE UNCHANGED calls
  BY <1>1, <1>3
<1>4. ASSUME NEW c, calls' = Append(calls, c), Reported(c)'
      PROVE  \A i \in DOMAIN calls' : Reported(calls[i])'
  BY <1>1, <1>4, QueueEnd
<1> QED
  BY <1>2, <1>3, <1>4, QueueAdds DEF AddsTruth

LEMMA KnownAfter ==
  ASSUME NEW s, NEW site, reported' = reported \union {<<s, site>>}
  PROVE  Known' = Known \union {AccountOf(s, site)}
<1> DEFINE r == <<s, site>>
<1>1. r[1] = s /\ r[2] = site /\ reported' = reported \union {r}
  OBVIOUS
<1> HIDE DEF r
<1>2. Known' = {AccountOf(q[1], q[2]) : q \in reported \union {r}}
  BY <1>1 DEF Known
<1>3. \A a : a \in Known' <=> a \in Known \/ a = AccountOf(r[1], r[2])
  BY <1>2 DEF Known
<1> QED
  BY <1>1, <1>3

LEMMA FiledAre ==
  ASSUME NEW sets \in [Key -> EngineSets], NEW rows \in SUBSET Key
  PROVE  UNION {sets[k] \X {k} : k \in rows} = {a \in Engine \X rows : a[1] \in sets[a[2]]}
<1>1. \A k \in rows : sets[k] \subseteq Engine
  BY DEF EngineSets, Engine
<1>2. \A k \in rows : sets[k] \X {k} = {a \in Engine \X {k} : a[1] \in sets[k]}
  BY <1>1
<1> QED
  BY <1>1, <1>2

LEMMA FiledAfter ==
  ASSUME PipelineAssumption, engines \in [Key -> EngineSets], Listed,
         NEW s \in Scan, NEW site \in Site, HandleFound(s, site)
  PROVE  /\ AccountOf(s, site) \in Engine \X Key
         /\ Filed(Key)' = Filed(Key) \union {AccountOf(s, site)}
         /\ Listed'
<1> DEFINE k == <<s[3], site>>
<1>1. k \in Key /\ s[1] \in Engine /\ AccountOf(s, site) = <<s[1], k>>
  BY ScanParts DEF Key, Engine, AccountOf
<1>2. /\ engines' = [engines EXCEPT ![k] = @ \union {s[1]}]
      /\ group' = IF engines[k] = {} THEN [group EXCEPT ![k] = KindOf(s[2])] ELSE group
  BY DEF HandleFound
<1>3. KindOf(s[2]) \in Groups \ {"none"}
  BY DEF KindOf, Groups
<1> HIDE DEF k
<1>4. /\ engines'[k] = engines[k] \union {s[1]}
      /\ \A l \in Key : l # k => engines'[l] = engines[l]
  BY <1>1, <1>2
<1>5. Filed(Key)' = Filed(Key) \union {<<s[1], k>>}
  <2>1. engines' \in [Key -> EngineSets]
    BY FoundIsRecorded
  <2>2. Filed(Key)' = {a \in Engine \X Key : a[1] \in engines'[a[2]]}
    BY <2>1, FiledAre DEF Filed
  <2>3. Filed(Key) = {a \in Engine \X Key : a[1] \in engines[a[2]]}
    BY FiledAre DEF Filed
  <2> QED
    BY <1>1, <1>4, <2>2, <2>3
<1>6. group' \in [Key -> Groups]
  BY <1>1, <1>2, <1>3 DEF Listed, Groups
<1>7. \A l \in Key : engines'[l] # {} => group'[l] # "none"
  BY <1>1, <1>2, <1>3, <1>4 DEF Listed
<1> QED
  BY <1>1, <1>5, <1>6, <1>7 DEF Listed

LEMMA GatherAfter ==
  ASSUME GatherStep, ~(\E s \in Scan, site \in Site : Finds(s, site) \/ Files(s, site))
  PROVE  /\ UNCHANGED <<reported, engines, group>> /\ Known' = Known
         /\ Filed(Key)' = Filed(Key)
<1>1. UNCHANGED <<reported, engines, group>>
  BY DEF GatherStep, CandidatesOver, Ends, Rests, rowVars
<1> QED
  BY <1>1 DEF Known, Filed

LEMMA InHandStep ==
  ASSUME PipelineAssumption, InOrder, Past, InHand, [Next]_vars
  PROVE  InHand'
<1>1. GatherStep
  BY StepGathers DEF InHand
<1>2. Recorded'
  BY RecordedStep DEF InHand, InOrder
<1>3. NotYet'
  BY <1>1 DEF GatherStep, Finds, Files, CandidatesOver, Ends, Rests, Summed, InHand, NotYet
<1>4. reported \subseteq reported'
  BY <1>1 DEF GatherStep, Finds, Files, CandidatesOver, Ends, Rests
<1>5. \A i \in DOMAIN calls' : Reported(calls[i])'
  BY <1>4, QueueTruth DEF InHand, Truthful
<1>6. Listed' /\ (Filed(Key) \subseteq Known)'
  <2>1. ASSUME NEW s \in Scan, NEW site \in Site, Finds(s, site)
        PROVE  Listed' /\ Filed(Key)' \subseteq Known'
    <3>1. Known' = Known \union {AccountOf(s, site)}
      BY <2>1, KnownAfter DEF Finds
    <3>2. CASE UNCHANGED <<engines, group>>
      <4>1. Filed(Key)' = Filed(Key) /\ Listed'
        BY <3>2 DEF Filed, Listed, InHand
      <4> QED
        BY <3>1, <4>1 DEF InHand, Truthful
    <3>3. CASE HandleFound(s, site)
      BY <3>1, <3>3, FiledAfter DEF InHand, Recorded, Truthful
    <3> QED
      BY <2>1, <3>2, <3>3 DEF Finds
  <2>2. ASSUME NEW s \in Scan, NEW site \in Site, Files(s, site)
        PROVE  Listed' /\ Filed(Key)' \subseteq Known'
    <3>1. AccountOf(s, site) \in Known /\ Known' = Known
      <4>1. <<s, site>> \in reported /\ <<s, site>>[1] = s /\ <<s, site>>[2] = site
        BY <2>2 DEF Files
      <4>2. reported' = reported
        BY <2>2 DEF Files
      <4> QED
        BY <4>1, <4>2 DEF Known
    <3>2. HandleFound(s, site)
      BY <2>2 DEF Files
    <3> QED
      BY <3>1, <3>2, FiledAfter DEF InHand, Recorded, Truthful
  <2>3. CASE ~(\E s \in Scan, site \in Site : Finds(s, site) \/ Files(s, site))
    BY <1>1, <2>3, GatherAfter DEF InHand, Listed, Truthful
  <2> QED
    BY <2>1, <2>2, <2>3
<1> QED
  BY <1>2, <1>3, <1>5, <1>6 DEF InHand, Truthful

(* When the candidates are over, what is known is filed.                   *)
LEMMA AllFiled ==
  ASSUME PipelineAssumption, InOrder, Past, InHand, stage = "candidates", Over("name")
  PROVE  Filed(Key) = Known
<1>1. \A src \in Source : Over(src)
  BY DEF Past, Source, Members
<1>2. \A i \in DOMAIN calls : calls[i].call # "found"
  BY <1>1, AllOver
<1>3. ASSUME NEW r \in reported
      PROVE  AccountOf(r[1], r[2]) \in Filed(Key)
  <2>1. PICK s \in Scan, site \in Site : r = <<s, site>>
    BY DEF InHand, Recorded
  <2> DEFINE k == <<s[3], site>>
  <2>2. OnRecord(s, site, engines)
    BY <1>2, <2>1 DEF InHand, Recorded, OnItsWay
  <2>3. s[1] \in Engine /\ k \in Key /\ s[1] \in engines[k]
    BY <2>2, ScanParts DEF Engine, Key, OnRecord
  <2>4. AccountOf(r[1], r[2]) = <<s[1], k>>
    BY <2>1 DEF AccountOf
  <2>5. Filed(Key) = {a \in Engine \X Key : a[1] \in engines[a[2]]}
    BY FiledAre DEF Filed, InHand, Recorded
  <2> HIDE DEF k
  <2> QED
    BY <2>3, <2>4, <2>5
<1>4. Known \subseteq Filed(Key)
  BY <1>3 DEF Known
<1> QED
  BY <1>4 DEF InHand, Truthful

(* The sum is of what was filed when it was drawn up.                      *)
LEMMA BasisStays ==
  ASSUME InHand, GatherStep, ~CandidatesOver
  PROVE  Filed(snapshot)' = Filed(snapshot) /\ Summed' = Summed
<1>1. snapshot' = snapshot /\ Summed' = Summed
  BY DEF GatherStep, Finds, Files, Ends, Rests, Summed
<1>2. CASE Summed
  <2>1. engines' = engines
    BY <1>2 DEF GatherStep, Finds, Files, Ends, Rests
  <2> QED
    BY <1>1, <2>1 DEF Filed
<1>3. CASE ~Summed
  <2>1. snapshot = {}
    BY <1>3 DEF InHand, NotYet
  <2> QED
    BY <1>1, <2>1 DEF Filed
<1> QED
  BY <1>2, <1>3

LEMMA GatheringStep ==
  ASSUME PipelineAssumption, InOrder, Past, InHand, [Next]_vars
  PROVE  [Gathered!GatheringNext]_(Gathered!gatheringVars)
<1> USE DEF Gathered!GatheringNext, Gathered!gatheringVars
<1>1. GatherStep
  BY StepGathers DEF InHand
<1>2. CASE CandidatesOver
  <2>1. /\ ~Summed /\ Summed' /\ Filed(Key) = Known /\ fate = "running"
        /\ UNCHANGED <<fate, engines, reported>> /\ snapshot' = Rows
    BY <1>2, AllFiled DEF CandidatesOver, Summed, rowVars
  <2>2. Filed(Key)' = Filed(Key) /\ Known' = Known
    BY <2>1 DEF Filed, Known
  <2>3. Filed(snapshot)' = Filed(Key)
    <3>1. Filed(snapshot)' = {a \in Engine \X Rows : a[1] \in engines[a[2]]}
      BY <2>1, FiledAre DEF Filed, Rows, InHand, Recorded
    <3>2. Filed(Key) = {a \in Engine \X Key : a[1] \in engines[a[2]]}
      BY FiledAre DEF Filed, InHand, Recorded
    <3>3. \A k \in Key : engines[k] # {} => k \in Rows
      BY DEF Rows, InHand, Listed
    <3> QED
      BY <3>1, <3>2, <3>3 DEF Rows
  <2>4. Gathered!Sum
    BY <2>1, <2>2, <2>3 DEF Gathered!Sum
  <2> QED
    BY <2>4
<1>3. CASE ~CandidatesOver
  <2>1. Filed(snapshot)' = Filed(snapshot) /\ Summed' = Summed
    BY <1>1, <1>3, BasisStays
  <2>2. ASSUME NEW s \in Scan, NEW site \in Site, Finds(s, site)
        PROVE  [Gathered!GatheringNext]_(Gathered!gatheringVars)
    <3>1. Known' = Known \union {AccountOf(s, site)} /\ ~Summed /\ fate' = fate
      BY <2>2, KnownAfter DEF Finds
    <3>2. Filed(Key)' \in {Filed(Key), Filed(Key) \union {AccountOf(s, site)}}
      <4>1. CASE UNCHANGED engines
        BY <4>1 DEF Filed
      <4>2. CASE HandleFound(s, site)
        BY <4>2, FiledAfter DEF InHand, Recorded
      <4> QED
        BY <2>2, <4>1, <4>2 DEF Finds
    <3>3. AccountOf(s, site) \in Engine \X Key
      BY ScanParts DEF AccountOf, Engine, Key
    <3> DEFINE a == AccountOf(s, site)
    <3>4. a \in Engine \X Key /\ Known' = Known \union {a}
          /\ Filed(Key)' \in {Filed(Key), Filed(Key) \union {a}}
      BY <3>1, <3>2, <3>3
    <3> HIDE DEF a
    <3>5. CASE a \notin Known
      BY <2>1, <3>1, <3>4, <3>5 DEF Gathered!Discover
    <3>6. CASE a \in Known /\ Filed(Key)' # Filed(Key)
      <4>1. Known' = Known /\ a \notin Filed(Key) /\ Filed(Key)' = Filed(Key) \union {a}
        BY <3>4, <3>6
      <4> QED
        BY <2>1, <3>1, <3>4, <3>6, <4>1 DEF Gathered!File
    <3>7. CASE a \in Known /\ Filed(Key)' = Filed(Key)
      BY <2>1, <3>1, <3>4, <3>7
    <3> QED
      BY <3>5, <3>6, <3>7
  <2>3. ASSUME NEW s \in Scan, NEW site \in Site, Files(s, site)
        PROVE  [Gathered!GatheringNext]_(Gathered!gatheringVars)
    <3>1. /\ ~Summed /\ UNCHANGED <<fate, reported>> /\ HandleFound(s, site)
          /\ <<s, site>> \in reported /\ <<s, site>>[1] = s /\ <<s, site>>[2] = site
      BY <2>3 DEF Files
    <3>2. Known' = Known /\ AccountOf(s, site) \in Known
      BY <3>1 DEF Known
    <3>3. /\ Filed(Key)' = Filed(Key) \union {AccountOf(s, site)}
          /\ AccountOf(s, site) \in Engine \X Key
      BY <3>1, FiledAfter DEF InHand, Recorded
    <3>4. CASE AccountOf(s, site) \notin Filed(Key)
      BY <2>1, <3>1, <3>2, <3>3, <3>4 DEF Gathered!File
    <3>5. CASE AccountOf(s, site) \in Filed(Key)
      BY <2>1, <3>1, <3>2, <3>3, <3>5
    <3> QED
      BY <3>4, <3>5
  <2>4. CASE Ends
    <3>1. Known' = Known /\ Filed(Key)' = Filed(Key)
      BY <2>4 DEF Ends, Known, Filed
    <3>2. Gathered!Finish
      BY <2>1, <2>4, <3>1 DEF Ends, Gathered!Finish
    <3> QED
      BY <3>2
  <2>5. CASE Rests
    <3>1. Known' = Known /\ Filed(Key)' = Filed(Key) /\ fate' = fate
      BY <2>5 DEF Rests, Known, Filed
    <3> QED
      BY <2>1, <3>1
  <2> QED
    BY <1>1, <1>3, <2>2, <2>3, <2>4, <2>5 DEF GatherStep
<1> QED
  BY <1>2, <1>3

(* pipeline.run_pipeline as a whole: behind its stages, threads, tasks and *)
(* queue, a run lets accounts become known and files each, draws up its    *)
(* sum once, when all it will ever know is filed, returns or fails only    *)
(* with it, and may be cancelled at any time.                              *)
THEOREM GathersAll == ASSUME Distinct PROVE Spec => ImplementsGathering
<1> DEFINE Inv == Typed /\ InOrder /\ Past /\ InHand
<1>1. Init => Inv
  <2>1. Init => Recorded
    BY DEF Init, Recorded, EngineSets
  <2>2. Init => Past /\ NotYet
    BY DEF Init, Past, NotYet
  <2>3. Init => Listed /\ Truthful
    BY DEF Init, Listed, Groups, Truthful, Filed
  <2> QED
    BY <2>1, <2>2, <2>3, TypedInit, InOrderInit, PipelineAssumption DEF InHand
<1>2. Inv /\ [Next]_vars => Inv'
  BY TypedStep, InOrderStep, PastStep, InHandStep, PipelineAssumption
<1>3. Init => Gathered!GatheringInit
  <2>1. Init => Known = {} /\ Filed(Key) = {} /\ Filed(snapshot) = {}
    BY DEF Init, Known, Filed
  <2> QED
    BY <2>1 DEF Init, Summed, Gathered!GatheringInit
<1>4. Inv /\ [Next]_vars => [Gathered!GatheringNext]_(Gathered!gatheringVars)
  BY GatheringStep, PipelineAssumption
<1> HIDE DEF Inv
<1> QED
  BY <1>1, <1>2, <1>3, <1>4, PTL DEF Spec, ImplementsGathering, Gathered!GatheringSpec
=============================================================================
