------------------------------- MODULE Watchlist -------------------------------
(***************************************************************************)
(* The watchlist: the monitor task of recon/monitor.py, which picks due    *)
(* watches, re-scans them one after another and turns the difference to    *)
(* the stored signature into alert rows, and the endpoints of app.py that  *)
(* create, pause and delete watches while it runs.                         *)
(*                                                                         *)
(* The monitor works on the rows it read when it woke up.  A run is two    *)
(* transactions, the stamp and the result, with the light scan (the only   *)
(* await) between them; an endpoint, a crash or the clock can come there.  *)
(*                                                                         *)
(* Abstracted: what a watch looks for is the fixed set Key of accounts and *)
(* registrations (the signature keys), a scan is the keys it found and the *)
(* keys it got a decisive answer for, and time is counted from the stamp.  *)
(***************************************************************************)
EXTENDS Naturals, Sequences, FiniteSets

CONSTANTS
  MaxWatches,              \* bound: watches ever created
  Key,
  Client,                  \* threads serving a toggle request
  Idle,
  Interval,                \* interval_hours, in the clock's units
  MAX_WATCHES_PER_TICK,
  MaxLag,                  \* bound: units that pass between two wake-ups
  MaxFailures,             \* bound: crashes, failed stamps and failed runs
  MaxWritten               \* bound: results of a watch told apart

ASSUME WatchlistAssumption ==
  /\ MaxWatches \in Nat /\ Interval \in Nat \ {0}
  /\ MAX_WATCHES_PER_TICK \in Nat \ {0}
  /\ MaxLag \in Nat /\ MaxFailures \in Nat /\ MaxWritten \in Nat \ {0}
  /\ Idle \notin (1..MaxWatches) \X BOOLEAN

Watch == 1..MaxWatches     \* AUTOINCREMENT row ids

VARIABLES
  created,     \* how many ids were given out
  watches,     \* the rows of `watchlist`, by id
  enabled,
  ran,         \* last_run_at is set
  age,         \* time since last_run_at, counted up to the interval
  signature,   \* last_signature; NULL and {} read alike
  alerts,      \* rows of `watch_alerts`
  monitor,     \* where monitor_loop is
  batch,       \* the rows it read and still has to run, current one first
  toggling,    \* what a toggle request read before it writes
  lag,         \* time since the monitor last woke up
  failures,
  written,     \* history: results written for the watch
  verdict,     \* history: the last decisive answer on a key, in a written result
  baseline,    \* history: what the silent result found
  rest,        \* history: time since the watch was last scanned
  paused       \* history: an odd number of toggles were acknowledged

rowVars == <<created, watches, enabled, ran, age, signature>>
loopVars == <<monitor, batch, lag, rest>>
resultVars == <<signature, alerts, written, verdict, baseline>>
vars == <<rowVars, alerts, loopVars, toggling, failures, written, verdict,
          baseline, paused>>

Least(a, b) == IF a < b THEN a ELSE b

DueAlways(w) == w \in watches /\ enabled[w]      \* fault: the interval is ignored

(* _due_watches: the rows in id order, as the table scan yields them. *)
Due(w) == w \in watches /\ enabled[w] /\ (ran[w] => age[w] >= Interval)

Snapshot(w) == [watch |-> w, ran |-> ran[w], signature |-> signature[w]]

(* The first of them: due, in order, and what is due beside them comes     *)
(* later and does not fit in.                                              *)
DueWatches(ids) ==
  /\ \A i, j \in DOMAIN ids : Due(ids[i]) /\ (i < j => ids[i] < ids[j])
  /\ \A w \in Watch :
       Due(w) => \/ \E i \in DOMAIN ids : ids[i] = w
                 \/ /\ DOMAIN ids = 1..MAX_WATCHES_PER_TICK
                    /\ \A i \in DOMAIN ids : ids[i] < w
-----------------------------------------------------------------------------
Init ==
  /\ created = 0
  /\ watches = {}
  /\ enabled = [w \in Watch |-> TRUE]
  /\ ran = [w \in Watch |-> FALSE]
  /\ age = [w \in Watch |-> 0]
  /\ signature = [w \in Watch |-> {}]
  /\ alerts = {}
  /\ monitor = "asleep"
  /\ batch = <<>>
  /\ toggling = [c \in Client |-> Idle]
  /\ lag = 0
  /\ failures = 0
  /\ written = [w \in Watch |-> 0]
  /\ verdict = [w \in Watch |-> [k \in Key |-> "unknown"]]
  /\ baseline = [w \in Watch |-> {}]
  /\ rest = [w \in Watch |-> Interval]
  /\ paused = [w \in Watch |-> FALSE]

CreateWatch ==
  /\ created < MaxWatches
  /\ created' = created + 1
  /\ watches' = watches \union {created'}
  /\ UNCHANGED <<enabled, ran, age, signature, alerts, loopVars, toggling,
                 failures, written, verdict, baseline, paused>>

(* The columns of a row that is gone have the values of a new one. *)
RemoveRow(w) ==
  /\ watches' = watches \ {w}
  /\ enabled' = [enabled EXCEPT ![w] = TRUE]
  /\ ran' = [ran EXCEPT ![w] = FALSE]
  /\ age' = [age EXCEPT ![w] = 0]
  /\ signature' = [signature EXCEPT ![w] = {}]
  /\ baseline' = [baseline EXCEPT ![w] = {}]
  /\ paused' = [paused EXCEPT ![w] = FALSE]

(* delete_watch: the alerts and the row, in one transaction; the alerts of *)
(* a watch that is already deleted go too, although the answer is a 404.   *)
DeleteWatch(w) ==
  /\ w \in 1..created
  /\ RemoveRow(w)
  /\ alerts' = {a \in alerts : a.watch # w}
  /\ UNCHANGED <<created, loopVars, toggling, failures, written, verdict>>

(* toggle_watch reads the flag, then writes its opposite: the SELECT runs  *)
(* outside the UPDATE's transaction.                                       *)
ToggleRead(c, w) ==
  /\ toggling[c] = Idle
  /\ w \in watches
  /\ toggling' = [toggling EXCEPT ![c] = <<w, enabled[w]>>]
  /\ UNCHANGED <<rowVars, alerts, loopVars, failures, written, verdict, baseline,
                 paused>>

ToggleWrite(c) ==
  /\ toggling[c] # Idle
  /\ LET w == toggling[c][1]
     IN  IF w \in watches
         THEN /\ enabled' = [enabled EXCEPT ![w] = ~toggling[c][2]]
              /\ paused' = [paused EXCEPT ![w] = ~@]
         ELSE UNCHANGED <<enabled, paused>>
  /\ toggling' = [toggling EXCEPT ![c] = Idle]
  /\ UNCHANGED <<created, watches, ran, age, signature, alerts, loopVars, failures,
                 written, verdict, baseline>>

(* The clock. *)
Pass ==
  /\ monitor = "down" \/ lag < MaxLag
  /\ lag' = Least(lag + 1, MaxLag)
  /\ age' = [w \in Watch |-> IF w \in watches THEN Least(age[w] + 1, Interval) ELSE 0]
  /\ rest' = [w \in Watch |-> Least(rest[w] + 1, Interval)]
  /\ UNCHANGED <<created, watches, enabled, ran, monitor, batch, toggling,
                 failures, resultVars, paused>>
-----------------------------------------------------------------------------
(* The monitor wakes up and reads the due rows. *)
Tick ==
  /\ monitor = "asleep"
  /\ \E n \in 0..MAX_WATCHES_PER_TICK : \E ids \in [1..n -> Watch] :
       DueWatches(ids) /\ batch' = [i \in 1..n |-> Snapshot(ids[i])]
  /\ monitor' = IF batch' = <<>> THEN "asleep" ELSE "stamping"
  /\ lag' = 0
  /\ UNCHANGED <<rowVars, alerts, rest, toggling, failures, written, verdict,
                 baseline, paused>>

StampNothing ==                                \* fault: stamped by nobody
  /\ monitor = "stamping"
  /\ monitor' = "scanning"
  /\ rest' = [rest EXCEPT ![Head(batch).watch] = 0]
  /\ UNCHANGED <<rowVars, alerts, batch, lag, toggling, failures, written,
                 verdict, baseline, paused>>

StampWritesRow ==                              \* fault: the row read at wake-up is
  /\ monitor = "stamping"                      \* written back
  /\ LET w == Head(batch).watch
     IN  /\ w \in watches
         /\ ran' = [ran EXCEPT ![w] = TRUE] /\ age' = [age EXCEPT ![w] = 0]
         /\ enabled' = [enabled EXCEPT ![w] = TRUE]
         /\ rest' = [rest EXCEPT ![w] = 0]
  /\ monitor' = "scanning"
  /\ UNCHANGED <<created, watches, batch, lag, toggling, failures, resultVars,
                 paused>>

(* run_watch stamps last_run_at (a deleted row is not there to be stamped) *)
(* and starts the scan.                                                    *)
Stamp ==
  /\ monitor = "stamping"
  /\ LET w == Head(batch).watch
     IN  /\ IF w \in watches
            THEN ran' = [ran EXCEPT ![w] = TRUE] /\ age' = [age EXCEPT ![w] = 0]
            ELSE UNCHANGED <<ran, age>>
         /\ rest' = [rest EXCEPT ![w] = 0]
  /\ monitor' = "scanning"
  /\ UNCHANGED <<created, watches, enabled, batch, lag, toggling, failures,
                 resultVars, paused>>

(* On to the next watch of the batch, or back to sleep. *)
NextWatch ==
  /\ batch' = Tail(batch)
  /\ monitor' = IF batch' = <<>> THEN "asleep" ELSE "stamping"
  /\ UNCHANGED <<lag, rest>>

IsBaseline(snap) == ~snap.ran /\ snap.signature = {}

GoneUnchecked(old, found, checked) == old \ found               \* fault: defect 5
Gone(old, found, checked) == (old \ found) \intersect checked

NewIfChecked(old, found, checked) == (found \ old) \intersect checked   \* fault
New(old, found, checked) == found \ old

Verdict(was, k, found, checked) ==
  IF k \in found THEN "found"
  ELSE IF k \notin checked THEN was
  ELSE IF was \in {"found", "lost"} THEN "lost" ELSE "absent"

(* The alerts of one result.  The last three fields are history: how many  *)
(* results the watch had, what was known of the key before and after.      *)
AlertRows(w, kind, keys, found, checked) ==
  {[watch |-> w, kind |-> kind, key |-> k, nth |-> written[w],
    was |-> verdict[w][k], is |-> Verdict(verdict[w][k], k, found, checked)]
     : k \in keys}

(* The scan is over: diff against the signature read at wake-up, write the *)
(* alerts and the new signature in one transaction.  `found` need not be   *)
(* checked: a scan that dies keeps what it had already reported.           *)
WriteResult(found, checked) ==
  /\ monitor = "scanning"
  /\ LET snap == Head(batch)
         w == snap.watch
         silent == IsBaseline(snap)
     IN  /\ alerts' = IF silent THEN alerts
                      ELSE UNION {alerts,
                        AlertRows(w, "new", New(snap.signature, found, checked),
                                  found, checked),
                        AlertRows(w, "gone", Gone(snap.signature, found, checked),
                                  found, checked)}
         /\ signature' = IF w \in watches THEN [signature EXCEPT ![w] = found]
                         ELSE signature
         /\ baseline' = IF silent /\ w \in watches THEN [baseline EXCEPT ![w] = found]
                        ELSE baseline
         /\ verdict' = [verdict EXCEPT ![w] =
                          [k \in Key |-> Verdict(@[k], k, found, checked)]]
         /\ written' = [written EXCEPT ![w] = Least(@ + 1, MaxWritten)]
  /\ NextWatch
  /\ UNCHANGED <<created, watches, enabled, ran, age, toggling, failures, paused>>

(* An exception in run_watch, before or after the stamp, is logged and the *)
(* loop goes on.                                                           *)
RunFails ==
  /\ monitor \in {"stamping", "scanning"}
  /\ failures < MaxFailures
  /\ failures' = failures + 1
  /\ NextWatch
  /\ UNCHANGED <<rowVars, alerts, toggling, written, verdict, baseline, paused>>

(* The process dies, or shuts down and cancels the monitor. *)
Crash ==
  /\ monitor # "down"
  /\ failures < MaxFailures
  /\ failures' = failures + 1
  /\ monitor' = "down"
  /\ batch' = <<>>
  /\ toggling' = [c \in Client |-> Idle]
  /\ UNCHANGED <<rowVars, alerts, lag, rest, written, verdict, baseline, paused>>

Restart ==
  /\ monitor = "down"
  /\ monitor' = "asleep"
  /\ UNCHANGED <<rowVars, alerts, batch, lag, rest, toggling, failures, written,
                 verdict, baseline, paused>>

Monitor ==
  \/ Tick \/ Stamp \/ RunFails
  \/ \E found \in SUBSET Key, checked \in SUBSET Key : WriteResult(found, checked)

Endpoints ==
  \/ /\ monitor # "down"
     /\ \/ CreateWatch
        \/ \E w \in Watch : DeleteWatch(w)
        \/ \E c \in Client, w \in Watch : ToggleRead(c, w)
        \/ \E c \in Client : ToggleWrite(c)

Next == Monitor \/ Endpoints \/ Pass \/ Crash \/ Restart

Spec == Init /\ [][Next]_vars

(* The loop catches what a run raises and every request of a scan has a    *)
(* timeout, so the monitor goes on; the process is restarted.              *)
FairSpec == Spec /\ WF_vars(Monitor) /\ WF_vars(Restart) /\ WF_vars(Pass)
-----------------------------------------------------------------------------
Verdicts == {"unknown", "found", "absent", "lost"}
Alert == [watch: Watch, kind: {"new", "gone"}, key: Key, nth: 0..MaxWritten,
          was: Verdicts, is: Verdicts]

Snap == [watch: Watch, ran: BOOLEAN, signature: SUBSET Key]

TypeOK ==
  /\ created \in 0..MaxWatches
  /\ watches \subseteq 1..created
  /\ enabled \in [Watch -> BOOLEAN]
  /\ ran \in [Watch -> BOOLEAN]
  /\ age \in [Watch -> 0..Interval]
  /\ signature \in [Watch -> SUBSET Key]
  /\ alerts \subseteq Alert
  /\ monitor \in {"asleep", "stamping", "scanning", "down"}
  /\ batch \in Seq(Snap)
  /\ monitor \in {"stamping", "scanning"} <=> batch # <<>>
  /\ toggling \in [Client -> (Watch \X BOOLEAN) \union {Idle}]
  /\ lag \in 0..MaxLag
  /\ failures \in 0..MaxFailures
  /\ written \in [Watch -> 0..MaxWritten]
  /\ verdict \in [Watch -> [Key -> Verdicts]]
  /\ baseline \in [Watch -> SUBSET Key]
  /\ rest \in [Watch -> 0..Interval]
  /\ paused \in [Watch -> BOOLEAN]

(* The coverage rule over the life of a watch: a key reported gone was     *)
(* found by the last result that was decisive about it and is decisively   *)
(* absent now, however many scans skipped the site in between.             *)
GoneIsLost == \A a \in alerts : a.kind = "gone" => a.was = "found" /\ a.is = "lost"

(* Nothing slips into a signature unreported: what it holds was in the     *)
(* silent baseline or has an alert.  And "the first run of a watch         *)
(* establishes the baseline signature silently": the first result of a     *)
(* watch carries no alerts, unless an earlier run failed after its stamp.  *)
NewIsReported ==
  /\ failures = 0 => \A a \in alerts : a.nth > 0
  /\ \A w \in watches : \A k \in signature[w] \ baseline[w] :
    \E a \in alerts : a.watch = w /\ a.key = k /\ a.kind = "new"

(* A watch is not scanned again before its interval is over, also when the *)
(* process crashes or the run fails in between: what stamping up front is  *)
(* for ("so a crash doesn't hot-loop the same watch").                     *)
ScanStarts(w) ==
  monitor = "stamping" /\ monitor' = "scanning" /\ Head(batch).watch = w

IntervalKept == [][\A w \in Watch : ScanStarts(w) => rest[w] >= Interval]_vars

(* The monitor's writes do not undo the user's: a watch is enabled exactly *)
(* if it was toggled an even number of times (one client), and the alerts  *)
(* that outlive their watch come from the one run that was under way when  *)
(* it was deleted.                                                         *)
EditsStick ==
  /\ \A w \in watches : enabled[w] = ~paused[w]
  /\ \A a, b \in alerts : a.watch = b.watch /\ a.watch \notin watches => a.nth = b.nth

(* "Changes become alert rows": an account that was found and is now       *)
(* decisively absent was reported gone.                                    *)
GoneIsReported ==
  \A w \in watches, k \in Key :
    verdict[w][k] = "lost" =>
      \E a \in alerts : /\ a.watch = w /\ a.key = k /\ a.kind = "gone"
                        /\ \A b \in alerts : b.watch = w /\ b.key = k => b.nth <= a.nth

(* What one interval has room for: an id is picked at most once in it, and *)
(* the monitor wakes up at least Interval \div MaxLag times.  Nothing in    *)
(* the code asks for it: a user may create any number of watches.          *)
HasRoom ==
  /\ MaxLag \in 1..Interval
  /\ MaxWatches <= MAX_WATCHES_PER_TICK * (Interval \div MaxLag)

(* Each tick takes the first due watches by id.  As long as all of them     *)
(* have room in one interval, a due watch is scanned whatever its id,       *)
(* unless it is paused or deleted; beyond that the first ids are due again *)
(* before the last one's turn, and it starves.                             *)
DueIsScanned ==
  HasRoom =>
    \A w \in Watch : Due(w) ~> (rest[w] = 0 \/ w \notin watches \/ ~enabled[w])
=============================================================================
