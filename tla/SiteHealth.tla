------------------------------ MODULE SiteHealth ------------------------------
(***************************************************************************)
(* The circuit breaker of recon/router.py for one (site, engine): the row  *)
(* of `site_health`, the runs that filter on it when they start, buffer    *)
(* their observations, and fold them into it when they finish.             *)
(*                                                                         *)
(* Two batches can meet on the row.  record_batch reads a key with a       *)
(* SELECT and writes it with an upsert; under SQLite the write lock is     *)
(* taken by the first upsert of the batch, so the batch's first key is     *)
(* read before the lock and the later keys under it (under Postgres every  *)
(* key is read unlocked).  KeyFirst says in which runs this key is first.  *)
(*                                                                         *)
(* Abstracted: error classes (an observation is ok or not) and latency.    *)
(***************************************************************************)
EXTENDS Integers, Sequences, FiniteSets

CONSTANTS
  Run,                        \* full runs, quick scans, watchlist light scans
  KeyFirst,                   \* the runs that read this key before the write lock
  Nobody,
  WINDOW_SIZE,
  TRIP_CONSECUTIVE_FAILURES,
  TRIP_FAILURE_RATE,          \* in percent
  TRIP_RATE_WINDOW,
  TRIP_RATE_MIN_OBS,
  BASE_COOLDOWN,
  MAX_COOLDOWN,
  MaxClock,                   \* bound: the clock stops there
  MaxObservations,            \* bound: observations one run makes of the site
  MaxCommitted                \* bound: no run starts after so many are stored

ASSUME SiteHealthAssumption ==
  /\ KeyFirst \subseteq Run /\ Nobody \notin Run
  /\ TRIP_RATE_WINDOW \in Nat \ {0}
  /\ WINDOW_SIZE \in Nat /\ TRIP_RATE_WINDOW <= WINDOW_SIZE
  /\ TRIP_CONSECUTIVE_FAILURES \in Nat \ {0}
  /\ TRIP_FAILURE_RATE \in 0..100
  /\ TRIP_RATE_MIN_OBS \in Nat \ {0}
  /\ BASE_COOLDOWN \in Nat \ {0} /\ MAX_COOLDOWN \in Nat
  /\ BASE_COOLDOWN < MAX_COOLDOWN
  /\ MaxClock \in Nat /\ MaxObservations \in Nat /\ MaxCommitted \in Nat

VARIABLES
  health,      \* the committed row
  now,         \* wall clock, whole seconds
  phase,       \* where each run is
  buffer,      \* observations the run still has to fold
  loaded,      \* the state record_batch is folding into
  folded,      \* how many observations it has folded
  lock,        \* holder of the database's write lock, or Nobody
  committed    \* history: observations whose batch committed

runVars == <<phase, buffer, loaded, folded, lock>>
vars    == <<health, now, committed, runVars>>

Never == 0                                        \* circuit_open_until IS NULL
Least(a, b) == IF a < b THEN a ELSE b

LastOf(s, n) == IF Len(s) <= n THEN s ELSE SubSeq(s, Len(s) - n + 1, Len(s))

Failures(s) == Cardinality({i \in DOMAIN s : s[i] = 0})

ShouldTrip(consecutive, window) ==
  \/ consecutive >= TRIP_CONSECUTIVE_FAILURES
  \/ LET recent == LastOf(window, TRIP_RATE_WINDOW)
     IN  /\ Len(recent) >= TRIP_RATE_MIN_OBS
         /\ 100 * Failures(recent) > TRIP_FAILURE_RATE * Len(recent)

NextCooldown(current) == Least(2 * current, MAX_COOLDOWN)

(* `since` and `count` are history: when the circuit last left the closed  *)
(* state, and how many observations the state was computed from.           *)
BlankState == [window |-> <<>>, consec |-> 0, openUntil |-> Never,
               cooldown |-> BASE_COOLDOWN, since |-> Never, count |-> 0]

OpenAt(state, t) == state.openUntil > t

Counted(state, ok) ==
  [state EXCEPT !.window = LastOf(Append(@, IF ok THEN 1 ELSE 0), WINDOW_SIZE),
                !.consec = IF ok THEN 0 ELSE @ + 1,
                !.count = @ + 1]

SucceedKeepsCooldown(state) ==                        \* fault: ladder not reset
  [Counted(state, TRUE) EXCEPT !.openUntil = Never, !.since = Never]

SucceedKeepsOpen(state) == Counted(state, TRUE)       \* fault: stays tripped

(* Success closes the circuit and resets the cooldown ladder. *)
Succeed(state) ==
  [Counted(state, TRUE) EXCEPT !.openUntil = Never, !.since = Never,
                               !.cooldown = BASE_COOLDOWN]

Tripped(state, ts) ==
  [state EXCEPT !.openUntil = ts + state.cooldown,
                !.cooldown = NextCooldown(@),
                !.since = IF @ = Never THEN ts ELSE @]

FailStacking(state, ts) ==                            \* fault: trips while open
  LET counted == Counted(state, FALSE)
  IN  IF ShouldTrip(counted.consec, counted.window) THEN Tripped(counted, ts) ELSE counted

(* A failure counts always, and trips a circuit that is closed or half     *)
(* open at the time it was observed.                                       *)
Fail(state, ts) ==
  LET counted == Counted(state, FALSE)
  IN  IF ~OpenAt(state, ts) /\ ShouldTrip(counted.consec, counted.window)
      THEN Tripped(counted, ts) ELSE counted

Apply(state, obs) == IF obs.ok THEN Succeed(state) ELSE Fail(state, obs.ts)
-----------------------------------------------------------------------------
Init ==
  /\ health = BlankState
  /\ now = 1
  /\ phase = [r \in Run |-> "idle"]
  /\ buffer = [r \in Run |-> <<>>]
  /\ loaded = [r \in Run |-> BlankState]
  /\ folded = [r \in Run |-> 0]
  /\ lock = Nobody
  /\ committed = 0

Tick ==
  /\ now < MaxClock
  /\ now' = now + 1
  /\ UNCHANGED <<health, committed, runVars>>

(* filter_sites: a run leaves a site alone while its circuit is open.  (A   *)
(* run whose store disabled itself scans unrouted and never touches the    *)
(* row: it is not among Run.)                                              *)
StartRun(r) ==
  /\ phase[r] = "idle"
  /\ committed < MaxCommitted
  /\ ~OpenAt(health, now)
  /\ phase' = [phase EXCEPT ![r] = "scanning"]
  /\ UNCHANGED <<health, now, committed, buffer, loaded, folded, lock>>

Observe(r, ok) ==
  /\ phase[r] = "scanning"
  /\ Len(buffer[r]) < MaxObservations
  /\ buffer' = [buffer EXCEPT ![r] = Append(@, [ok |-> ok, ts |-> now])]
  /\ UNCHANGED <<health, now, committed, phase, loaded, folded, lock>>

(* The run is over: its buffer, the state it folded and its lock are gone. *)
EndRun(r) ==
  /\ phase' = [phase EXCEPT ![r] = "idle"]
  /\ buffer' = [buffer EXCEPT ![r] = <<>>]
  /\ loaded' = [loaded EXCEPT ![r] = BlankState]
  /\ folded' = [folded EXCEPT ![r] = 0]
  /\ lock' = IF lock = r THEN Nobody ELSE lock
  /\ UNCHANGED now

(* finish with nothing to flush: record_batch returns at once. *)
FinishEmpty(r) ==
  /\ phase[r] = "scanning"
  /\ buffer[r] = <<>>
  /\ EndRun(r)
  /\ UNCHANGED <<health, committed>>

LoadStateUnlocked(r) ==                      \* fault: every read outside the lock
  /\ phase[r] = "scanning"
  /\ buffer[r] # <<>>
  /\ loaded' = [loaded EXCEPT ![r] = health]
  /\ phase' = [phase EXCEPT ![r] = "folding"]
  /\ UNCHANGED <<health, now, committed, buffer, folded, lock>>

(* record_batch reaches the key: _load_state.  A later key of the batch is *)
(* read by the holder of the write lock.                                   *)
LoadState(r) ==
  /\ phase[r] = "scanning"
  /\ buffer[r] # <<>>
  /\ IF r \in KeyFirst THEN UNCHANGED lock ELSE lock = Nobody /\ lock' = r
  /\ loaded' = [loaded EXCEPT ![r] = health]
  /\ phase' = [phase EXCEPT ![r] = "folding"]
  /\ UNCHANGED <<health, now, committed, buffer, folded>>

(* One turn of `for obs in obs_list: self._apply(...)`. *)
FoldObservation(r) ==
  /\ phase[r] = "folding"
  /\ buffer[r] # <<>>
  /\ loaded' = [loaded EXCEPT ![r] = Apply(@, Head(buffer[r]))]
  /\ folded' = [folded EXCEPT ![r] = @ + 1]
  /\ buffer' = [buffer EXCEPT ![r] = Tail(@)]
  /\ UNCHANGED <<health, now, committed, phase, lock>>

(* _write_state and the commit: the upsert waits for the write lock. *)
WriteState(r) ==
  /\ phase[r] = "folding"
  /\ buffer[r] = <<>>
  /\ lock \in {r, Nobody}
  /\ health' = loaded[r]
  /\ committed' = committed + folded[r]
  /\ EndRun(r)

(* A database error (busy timeout, disk): the batch rolls back and the     *)
(* store disables itself.  A crash loses the run in the same way.          *)
RunLost(r) ==
  /\ phase[r] # "idle"
  /\ EndRun(r)
  /\ UNCHANGED <<health, committed>>

RunStep(r) ==
  \/ StartRun(r) \/ \E ok \in BOOLEAN : Observe(r, ok)
  \/ FinishEmpty(r) \/ LoadState(r) \/ FoldObservation(r) \/ WriteState(r)
  \/ RunLost(r)

Next == Tick \/ \E r \in Run : RunStep(r)

Spec == Init /\ [][Next]_vars
-----------------------------------------------------------------------------
State == [window: Seq({0, 1}), consec: Nat, openUntil: Nat, cooldown: Nat,
          since: Nat, count: Nat]
States == {health} \union {loaded[r] : r \in Run}

(* Types, and the bound on what one row remembers. *)
TypeOK ==
  /\ health \in State
  /\ now \in Nat
  /\ phase \in [Run -> {"idle", "scanning", "folding"}]
  /\ buffer \in [Run -> Seq([ok: BOOLEAN, ts: Nat])]
  /\ loaded \in [Run -> State]
  /\ folded \in [Run -> Nat]
  /\ lock \in Run \union {Nobody}
  /\ committed \in Nat
  /\ \A s \in States : Len(s.window) <= WINDOW_SIZE

(* A tripped circuit, open or half open, always has the history to trip    *)
(* again: this is what makes the docstring's "failure re-trips it with the *)
(* doubled cooldown" true although _apply only re-trips if should_trip.    *)
Reason(s) == s.openUntil # Never => ShouldTrip(s.consec, s.window)

TrippedForReason == \A s \in States : Reason(s)

(* The cooldown has left the bottom of the ladder exactly while the        *)
(* circuit is tripped: every close resets it, every trip moves it, and it  *)
(* never leaves [BASE_COOLDOWN, MAX_COOLDOWN].                             *)
Ladder(s) ==
  /\ s.cooldown \in BASE_COOLDOWN..MAX_COOLDOWN
  /\ s.openUntil = Never <=> s.cooldown = BASE_COOLDOWN
  /\ s.openUntil = Never <=> s.since = Never

LadderFollowsCircuit == \A s \in States : Ladder(s)

(* A high cooldown has been earned: a site benched for c seconds the next  *)
(* time has spent c - BASE_COOLDOWN on the bench since its circuit was     *)
(* last closed, however many failures late and concurrent runs report.     *)
Climb(s) == s.since # Never => s.openUntil + BASE_COOLDOWN >= s.since + s.cooldown

ClimbTakesTime == \A s \in States : Climb(s)

(* Nobody is benched for longer than MAX_COOLDOWN from now on. *)
Benched(s, t) == s.openUntil <= t + MAX_COOLDOWN

BenchBounded == \A s \in States : Benched(s, now)

(* consecutive_failures and the window tell the same story: the last       *)
(* `consec` observations failed and the one before them did not.           *)
Streak(s) ==
  LET n == Len(s.window)
      streak == Least(s.consec, n)
  IN  /\ \A i \in (n - streak + 1)..n : s.window[i] = 0
      /\ streak < n => s.window[n - streak] = 1

ConsecutiveMatchesWindow == \A s \in States : Streak(s)

(* What every state of the row satisfies at time t. *)
Sound(s, t) ==
  /\ s \in State
  /\ Len(s.window) <= WINDOW_SIZE
  /\ Ladder(s)
  /\ Climb(s)
  /\ Benched(s, t)
  /\ Reason(s)
  /\ Streak(s)

Observation(t) == [ok: BOOLEAN, ts: 1..t]

(* The inductive invariant: every state of the row is sound and every      *)
(* buffered observation was made in the past.                              *)
Simple ==
  /\ now \in Nat \ {0}
  /\ phase \in [Run -> {"idle", "scanning", "folding"}]
  /\ folded \in [Run -> Nat]
  /\ lock \in Run \union {Nobody}
  /\ committed \in Nat

Dated == buffer \in [Run -> Seq(Observation(now))]

AllSound ==
  /\ Sound(health, now)
  /\ loaded \in [Run -> State]
  /\ \A r \in Run : Sound(loaded[r], now)

IInv == Simple /\ Dated /\ AllSound

(* A batch that reads the row under the write lock is the only writer      *)
(* until it commits.                                                       *)
LockHolds(r) == lock = r /\ loaded[r].count = health.count + folded[r]

Ahead ==
  /\ \A r \in Run : phase[r] # "folding" => folded[r] = 0
  /\ \A r \in Run \ KeyFirst : phase[r] = "folding" => LockHolds(r)

(* record_batch, for such a batch, is "free of the lost-update race that   *)
(* concurrent per-observation writes would otherwise hit": the row grows   *)
(* by exactly what is committed, whatever runs finished since it was read. *)
CommitsLocked == committed' # committed /\ \E r \in Run \ KeyFirst : phase'[r] # phase[r]
GrowsByCommitted == health'.count - health.count = committed' - committed

LockedFoldKeepsAll == [][CommitsLocked => GrowsByCommitted]_vars

(* record_batch: "free of the lost-update race that concurrent             *)
(* per-observation writes would otherwise hit": the row reflects every     *)
(* observation whose batch committed.                                      *)
NoLostUpdate == health.count = committed
=============================================================================
