------------------------------ MODULE Enrichment ------------------------------
(***************************************************************************)
(* One enrichment phase (recon/enrich.py) over the shared retrieval state  *)
(* (recon/retrieval.py, recon/ladder.py): every found profile is answered  *)
(* from policy, from a platform's API, or from its page, with a control    *)
(* probe per host; a rate limit backs the host off.                        *)
(*                                                                         *)
(* All of it runs on the event loop.  A step is what happens between two   *)
(* suspensions: a contended lock, the semaphore, an answer.  A free lock   *)
(* or slot is taken without suspending, unless somebody waits for it.      *)
(* External: asyncio's locks, the network and the stealth tiers.           *)
(*                                                                         *)
(* An answer is what classify() can tell apart:                            *)
(*   page     2xx with content              shell    2xx, nothing visible, *)
(*                                                   or no account in it   *)
(*   gone     404, 410                      limited  429, 503, 403 out of  *)
(*   wall     401, 403, a header challenge           budget                *)
(*   walled   2xx whose body is a wall      refused  5xx, login redirect   *)
(*   reset    no response (not DNS)         none     a tier without answer *)
(* Abstracted: texts, the verifier's opinion of a page it can read, the    *)
(* counters of RetrievalStats, ssrf refusals (they go the way of refused). *)
(***************************************************************************)
EXTENDS Naturals, Sequences, FiniteSets

CONSTANTS
  Row, Host,
  Order,           \* the rows, most important first (_verify_priority)
  UrlOf, HostOf,
  Kind,            \* "denied" by policy, "adapter" (an API knows it) or "page"
  HasControl,      \* rows whose URL holds the handle
  Known,           \* adapter rows whose account discovery already confirmed
  Answer,          \* the answers of plain requests in this instance
  TierAnswer,      \* the answers of the stealth tiers
  RetryAfter,      \* values of that header, in ticks
  DEFAULT_BACKOFF,
  Stealth,         \* whether the ladder is enabled
  CONCURRENCY, STEALTH_BUDGET, VERIFY_BUDGET, CONTROL_MAX_ATTEMPTS

Classified == {"page", "shell", "gone", "limited", "wall", "walled", "refused", "reset"}

ASSUME EnrichmentAssumption ==
  /\ IsFiniteSet(Row) /\ Order \in Seq(Row)
  /\ HostOf \in [Row -> Host] /\ DOMAIN UrlOf = Row
  /\ Kind \in [Row -> {"denied", "adapter", "page"}]
  /\ HasControl \subseteq Row /\ Known \subseteq {r \in Row : Kind[r] = "adapter"}
  /\ RetryAfter \subseteq Nat \ {0} /\ DEFAULT_BACKOFF \in Nat \ {0}
  /\ Stealth \in BOOLEAN
  /\ Answer \subseteq Classified /\ TierAnswer \subseteq Classified \union {"none"}
  /\ CONCURRENCY \in Nat \ {0} /\ CONTROL_MAX_ATTEMPTS \in Nat \ {0}
  /\ {STEALTH_BUDGET, VERIFY_BUDGET} \subseteq Nat

VARIABLES
  at,              \* where each row's task is suspended
  late,            \* was_backing_off, from the lock until the request
  kept,            \* the answer a row holds while a tier works on a better one
  verdict,
  backoff,         \* ticks left of each host's backoff
  last,            \* last answer recorded for each host
  control,         \* control_cache: the host's answer for an unknown handle
  tries,           \* control_attempts
  browserLeft,     \* of the run's tier-3 budget
  asked,           \* history: rows of which a page or API request was sent
  told,            \* history: rows whose own request was answered with absence
  probes,          \* history: control requests sent to each host
  renders          \* history: tier-3 fetches started

rowVars == <<at, late, kept, verdict>>
hostVars == <<backoff, last>>
controlVars == <<control, tries, probes>>
vars == <<at, late, kept, verdict, backoff, last, control, tries, browserLeft,
          asked, told, probes, renders>>
-----------------------------------------------------------------------------
(* The targets: one row per URL, and no more fetches than the budget.      *)
Fresh(i) == \A j \in 1..(i - 1) : UrlOf[Order[j]] # UrlOf[Order[i]]
Fetched(i) == Fresh(i) /\ Kind[Order[i]] # "denied"
Budgeted(i) == Fetched(i) /\ Cardinality({j \in 1..(i - 1) : Fetched(j)}) < VERIFY_BUDGET
Target == {Order[i] : i \in {i \in DOMAIN Order : Fresh(i) /\ (Budgeted(i) \/ ~Fetched(i))}}
Skipped == {Order[i] : i \in {i \in DOMAIN Order : Fetched(i) /\ ~Budgeted(i)}}

NoVerdict == [is |-> "none"]
NotExamined == [is |-> "not_examined"]
Judged(c) == [is |-> "judged", control |-> c]
Indeterminate(c) == [is |-> "indeterminate", control |-> c]
Absent(c) == [is |-> "absent", control |-> c]
RateLimited(answer, fetched) == [is |-> "rate_limited", status |-> answer, fetched |-> fetched]

(* The run's HostState is shared: discovery may have backed a host off. *)
Init ==
  /\ at = [r \in Row |-> IF r \in Target THEN "new" ELSE "out"]
  /\ late = [r \in Row |-> FALSE]
  /\ kept = [r \in Row |-> "none"]
  /\ verdict = [r \in Row |-> IF r \in Skipped THEN NotExamined ELSE NoVerdict]
  /\ backoff \in [Host -> {0, DEFAULT_BACKOFF}]
  /\ last = [h \in Host |-> IF backoff[h] > 0 THEN "limited" ELSE "none"]
  /\ control = [h \in Host |-> "none"]
  /\ tries = [h \in Host |-> 0]
  /\ browserLeft = STEALTH_BUDGET
  /\ asked = {}
  /\ told = {}
  /\ probes = [h \in Host |-> 0]
  /\ renders = 0

Escalatable(answer) == answer \in {"wall", "walled", "reset"}
Readable(answer) == answer \in {"page", "shell", "gone", "walled"}
Rescue(answer) == answer \in {"page", "gone"}     \* ~should_escalate, with a page

(* Who holds what. *)
Main == {"get", "tls", "browser"}
HoldsSlot(r) == at[r] \in Main \union {"probing"}
Waits(r) == at[r] \in {"queued", "probeQueued"}

Peers(r) == {p \in Row : HostOf[p] = HostOf[r]}
HoldsHostForever(r) == Kind[r] = "page" /\ at[r] \notin {"out", "new"}  \* fault: never released
HoldsHost(r) == Kind[r] = "page" /\ at[r] \in Main \union {"queued", "shellTls", "shellBrowser"}
HoldsControl(r) == at[r] \in {"probeQueued", "probing"}
HostFreeRendering(r) ==      \* fault: the lock does not cover rendering a shell
  \A p \in Peers(r) : ~HoldsHost(p) \/ at[p] \in {"shellTls", "shellBrowser"}
HostFree(r) == \A p \in Peers(r) : ~HoldsHost(p)
ControlFree(r) == \A p \in Peers(r) : ~HoldsControl(p)
SlotFree == Cardinality({r \in Row : HoldsSlot(r)}) < CONCURRENCY
SlotAtOnce == SlotFree /\ \A r \in Row : ~Waits(r)

-----------------------------------------------------------------------------
Goto(r, where) == at' = [at EXCEPT ![r] = where]
Conclude(r, v) == Goto(r, "done") /\ verdict' = [verdict EXCEPT ![r] = v]
Record(h, answer) == last' = [last EXCEPT ![h] = answer]

(* HostState.backoff never shortens what is there. *)
BackOff(h, ticks) == backoff' = [backoff EXCEPT ![h] = IF ticks > @ THEN ticks ELSE @]

(* A rate limit: back off, keep its status, and be done with this host. *)
Limit(r, ticks) == BackOff(HostOf[r], ticks) /\ Record(HostOf[r], "limited")

(* What retrieval.fetch does with a host that backs off: no request; the   *)
(* result carries the last recorded status, which for a row becomes a      *)
(* rate-limit verdict and for an adapter goes through its own table.       *)
Unasked(r, wasLate) ==
  Conclude(r, IF Kind[r] = "page" THEN RateLimited(last[HostOf[r]], ~wasLate)
              ELSE IF last[HostOf[r]] = "gone" THEN Absent("none")
              ELSE Indeterminate("none"))

Send(r) == Goto(r, "get") /\ asked' = asked \union {r}

LaunchUnchecked(r, wasLate) ==         \* fault: trusts what was read before the wait
  /\ IF wasLate THEN Unasked(r, wasLate) /\ UNCHANGED asked
                ELSE Send(r) /\ UNCHANGED verdict
  /\ UNCHANGED <<kept, hostVars, controlVars, browserLeft, told, renders>>

Launch(r, wasLate) ==
  /\ IF backoff[HostOf[r]] > 0
     THEN Unasked(r, wasLate) /\ UNCHANGED asked
     ELSE Send(r) /\ UNCHANGED verdict
  /\ UNCHANGED <<kept, hostVars, controlVars, browserLeft, told, renders>>
-----------------------------------------------------------------------------
(* 1. Access policy: said, never fetched. *)
Denied(r) ==
  /\ at[r] = "new" /\ Kind[r] = "denied"
  /\ Conclude(r, NotExamined)
  /\ UNCHANGED <<late, kept, hostVars, controlVars, browserLeft, asked, told, renders>>

(* 2. The platform's API, under the semaphore but under no host lock. *)
AskAdapter(r) ==
  /\ at[r] = "new" /\ Kind[r] = "adapter" /\ SlotFree
  /\ IF r \in Known
     THEN /\ Conclude(r, Judged("none"))
          /\ UNCHANGED <<kept, hostVars, controlVars, browserLeft, asked, told, renders>>
     ELSE Launch(r, FALSE)
  /\ UNCHANGED late

(* Adapter.outcome: absent are the statuses that say so and, "shell" here, *)
(* a JSON document in which exists_when finds no account.                  *)
Denies(answer) == answer \in {"gone", "shell"}

AdapterAnswers(r, answer) ==
  /\ at[r] = "get" /\ Kind[r] = "adapter"
  /\ IF answer = "limited"
     THEN \E ticks \in RetryAfter \union {DEFAULT_BACKOFF} : Limit(r, ticks)
     ELSE Record(HostOf[r], answer) /\ UNCHANGED backoff
  /\ Conclude(r, CASE answer = "page" -> Judged("none")
                   [] Denies(answer) -> Absent("none")
                   [] OTHER -> Indeterminate("none"))
  /\ told' = IF Denies(answer) THEN told \union {r} ELSE told
  /\ UNCHANGED <<late, kept, controlVars, browserLeft, asked, renders>>

(* 3. The page: one row at a time per host.  Whether the host backs off is *)
(* read here for the verdict, and by retrieval.fetch once it has a slot.   *)
Enter(r) ==
  LET wasLate == backoff[HostOf[r]] > 0
  IN  /\ at[r] = "new" /\ Kind[r] = "page" /\ HostFree(r)
      /\ late' = [late EXCEPT ![r] = wasLate]
      /\ IF SlotAtOnce
         THEN Launch(r, wasLate)
         ELSE /\ Goto(r, "queued")
              /\ UNCHANGED <<kept, verdict, hostVars, controlVars, browserLeft,
                             asked, told, renders>>

GetSlot(r) ==
  /\ at[r] = "queued" /\ SlotFree
  /\ Launch(r, late[r])
  /\ UNCHANGED late

LimitRow(r, ticks) ==
  /\ Limit(r, ticks)
  /\ Conclude(r, RateLimited("limited", ~late[r]))
  /\ UNCHANGED <<kept, told>>

(* The row's page is known: record it, release the lock, go for a control. *)
Settle(r, answer) ==
  /\ Record(HostOf[r], answer)
  /\ kept' = [kept EXCEPT ![r] = answer]
  /\ told' = IF answer = "gone" THEN told \union {r} ELSE told
  /\ Goto(r, "probe")
  /\ UNCHANGED <<verdict, backoff>>

Climb(r, answer, tier) ==
  /\ kept' = [kept EXCEPT ![r] = answer]
  /\ Goto(r, tier)
  /\ UNCHANGED <<verdict, backoff, told>>

(* A block that a browser may pass runs the ladder, still in the slot; an  *)
(* empty shell is recorded and rendered after the slot is given back.      *)
PageAnswers(r, answer) ==
  /\ at[r] = "get" /\ Kind[r] = "page"
  /\ CASE answer = "limited" ->
            \E ticks \in RetryAfter \union {DEFAULT_BACKOFF} : LimitRow(r, ticks)
       [] Stealth /\ Escalatable(answer) -> Climb(r, answer, "tls") /\ UNCHANGED last
       [] Stealth /\ answer = "shell" -> Climb(r, "blank", "shellTls") /\ Record(HostOf[r], answer)
       [] OTHER -> Settle(r, answer)
  /\ UNCHANGED <<late, controlVars, browserLeft, asked, renders>>

(* The ladder's result; without one the plain result stays, which for an   *)
(* empty shell ("blank") is recorded already.                              *)
Adopt(r, answer) ==
  CASE answer = "limited" -> LimitRow(r, DEFAULT_BACKOFF)
    [] answer = "none" /\ kept[r] = "blank" ->
         /\ Goto(r, "probe")
         /\ kept' = [kept EXCEPT ![r] = "shell"]
         /\ UNCHANGED <<verdict, hostVars, told>>
    [] answer = "none" /\ kept[r] # "blank" -> Settle(r, kept[r])
    [] OTHER -> Settle(r, answer)

TierThreeLeft == browserLeft > 0
ChargeLater == UNCHANGED browserLeft   \* fault: charged when the render is over
Charge == browserLeft' = browserLeft - 1

(* Tier 2.  Without a rescue tier 3 follows while its budget lasts.        *)
TlsAnswers(r, answer) ==
  /\ at[r] \in {"tls", "shellTls"}
  /\ IF answer = "limited" \/ Rescue(answer) \/ ~TierThreeLeft
     THEN Adopt(r, answer) /\ UNCHANGED <<browserLeft, renders>>
     ELSE /\ Charge
          /\ renders' = renders + 1
          /\ Goto(r, IF at[r] = "tls" THEN "browser" ELSE "shellBrowser")
          /\ kept' = IF answer = "none" THEN kept ELSE [kept EXCEPT ![r] = answer]
          /\ UNCHANGED <<verdict, hostVars, told>>
  /\ UNCHANGED <<late, controlVars, asked>>

BrowserAnswers(r, answer) ==
  /\ at[r] \in {"browser", "shellBrowser"}
  /\ Adopt(r, answer)
  /\ UNCHANGED <<late, controlVars, browserLeft, asked, renders>>
-----------------------------------------------------------------------------
(* The verdict from the page kept and the control that could be had.       *)
Judge(r, c) ==
  Conclude(r, CASE kept[r] = "gone" -> Absent(c)
                [] Readable(kept[r]) /\ kept[r] # "gone" -> Judged(c)
                [] OTHER -> Indeterminate(c))

SendProbe(r) ==
  /\ Goto(r, "probing")
  /\ probes' = [probes EXCEPT ![HostOf[r]] = @ + 1]
  /\ UNCHANGED verdict

(* retrieval.fetch once more: a host that backs off by now is not asked.   *)
LaunchProbe(r) ==
  IF backoff[HostOf[r]] > 0
  THEN Judge(r, "failed") /\ UNCHANGED probes
  ELSE SendProbe(r)

(* control_for: the cached control, a failure without asking, or a probe.  *)
Probe(r) ==
  LET h == HostOf[r]
  IN  /\ at[r] = "probe"
      /\ \/ /\ r \notin HasControl
            /\ Judge(r, "none") /\ UNCHANGED <<tries, probes>>
         \/ /\ r \in HasControl /\ ControlFree(r) /\ control[h] # "none"
            /\ Judge(r, control[h]) /\ UNCHANGED <<tries, probes>>
         \/ /\ r \in HasControl /\ ControlFree(r) /\ control[h] = "none"
            /\ backoff[h] > 0 \/ tries[h] >= CONTROL_MAX_ATTEMPTS
            /\ Judge(r, "failed") /\ UNCHANGED <<tries, probes>>
         \/ /\ r \in HasControl /\ ControlFree(r) /\ control[h] = "none"
            /\ backoff[h] = 0 /\ tries[h] < CONTROL_MAX_ATTEMPTS
            /\ tries' = [tries EXCEPT ![h] = @ + 1]
            /\ IF SlotAtOnce THEN SendProbe(r)
                             ELSE Goto(r, "probeQueued") /\ UNCHANGED <<verdict, probes>>
      /\ UNCHANGED <<late, kept, hostVars, control, browserLeft, asked, told, renders>>

GetProbeSlot(r) ==
  /\ at[r] = "probeQueued" /\ SlotFree
  /\ LaunchProbe(r)
  /\ UNCHANGED <<late, kept, hostVars, control, tries, browserLeft, asked, told, renders>>

Usable(answer) == answer \in {"page", "shell", "gone"}

ProbeAnswers(r, answer) ==
  LET h == HostOf[r]
  IN  /\ at[r] = "probing"
      /\ IF answer = "limited"
         THEN \E ticks \in RetryAfter \union {DEFAULT_BACKOFF} : Limit(r, ticks)
         ELSE Record(h, answer) /\ UNCHANGED backoff
      /\ control' = IF Usable(answer) THEN [control EXCEPT ![h] = answer] ELSE control
      /\ Judge(r, IF Usable(answer) THEN answer ELSE "failed")
      /\ UNCHANGED <<late, kept, tries, probes, browserLeft, asked, told, renders>>

Tick ==
  /\ \E h \in Host : backoff[h] > 0
  /\ backoff' = [h \in Host |-> IF backoff[h] > 0 THEN backoff[h] - 1 ELSE 0]
  /\ UNCHANGED <<rowVars, last, controlVars, browserLeft, asked, told, renders>>
-----------------------------------------------------------------------------
TierNext(r) == \E answer \in TierAnswer : TlsAnswers(r, answer) \/ BrowserAnswers(r, answer)

RowNext(r) ==
  \/ Denied(r) \/ AskAdapter(r) \/ Enter(r) \/ GetSlot(r)
  \/ Probe(r) \/ GetProbeSlot(r)
  \/ TierNext(r)
  \/ \E answer \in Answer : PageAnswers(r, answer) \/ ProbeAnswers(r, answer)
  \/ \E answer \in Answer : AdapterAnswers(r, answer)

Next == (\E r \in Row : RowNext(r)) \/ Tick

Spec == Init /\ [][Next]_vars

(* The loop runs something while anything is ready, and requests and tiers *)
(* have timeouts.  No row is owed a turn of its own.                       *)
FairSpec == Spec /\ WF_vars(\E r \in Row : RowNext(r))
-----------------------------------------------------------------------------
Places == {"out", "new", "queued", "get", "tls", "browser", "shellTls", "shellBrowser",
           "probe", "probeQueued", "probing", "done"}
Answers == Classified \union {"none", "blank"}
Controls == {"none", "failed", "page", "shell", "gone"}
Verdicts ==
  [is : {"none", "not_examined"}]
    \union [is : {"judged", "indeterminate", "absent"}, control : Controls]
    \union [is : {"rate_limited"}, status : Answers, fetched : BOOLEAN]

TypeOK ==
  /\ at \in [Row -> Places] /\ late \in [Row -> BOOLEAN]
  /\ kept \in [Row -> Answers] /\ verdict \in [Row -> Verdicts]
  /\ backoff \in [Host -> Nat] /\ last \in [Host -> Answers]
  /\ control \in [Host -> {"none", "page", "shell", "gone"}]
  /\ tries \in [Host -> 0..CONTROL_MAX_ATTEMPTS] /\ browserLeft \in 0..STEALTH_BUDGET
  /\ asked \subseteq Row /\ told \subseteq Row
  /\ probes \in [Host -> Nat] /\ renders \in Nat

InFlight == {"get", "tls", "browser", "shellTls", "shellBrowser", "probing"}
Opens(r) == at'[r] # at[r] /\ at'[r] \in {"get", "probing"}

(* A host that asked to slow down gets no new conversation while it backs  *)
(* off: not from rows that waited for a lock or a slot since before the    *)
(* rate limit, not from control probes, not from adapters.                 *)
NoNewConversation == [][\A r \in Row : Opens(r) => backoff[HostOf[r]] = 0]_vars

(* "One fetch at a time per host": two rows' page requests, ladder and     *)
(* rendering included, never overlap on a host; and the rows of a host     *)
(* that were compared with a control were compared with the same one.      *)
OneFetchPerHost ==
  /\ \A r, p \in Row :
       /\ r # p /\ HostOf[r] = HostOf[p] /\ Kind[r] = "page" /\ Kind[p] = "page"
       => ~(at[r] \in InFlight \ {"probing"} /\ at[p] \in InFlight \ {"probing"})
  /\ \A r \in Row : verdict[r].is \in {"judged", "indeterminate", "absent"} =>
       verdict[r].control \in {"none", "failed", control[HostOf[r]]}

(* No more than CONCURRENCY requests of fetch() and of adapters at once,   *)
(* and no more browser fetches and requested rows than the run's budgets,  *)
(* nor more control probes than a host may be sent.                        *)
BoundsKept ==
  /\ Cardinality({r \in Row : at[r] \in {"get", "tls", "browser", "probing"}}) <= CONCURRENCY
  /\ renders <= STEALTH_BUDGET
  /\ Cardinality(asked) <= VERIFY_BUDGET
  /\ \A h \in Host : probes[h] <= CONTROL_MAX_ATTEMPTS

(* Every row that is to be examined ends with a verdict.                   *)
EveryTargetJudged == <>(\A r \in Target : verdict[r].is # "none")

(* retrieval.py: "blocked # absent"; nothing is called absent that its     *)
(* source did not call absent.                                             *)
AbsentWasTold == \A r \in Row : verdict[r].is = "absent" => r \in told

(* What a row waits for: nobody (its answer comes, or its time is up), or  *)
(* a lock or a slot that is free.                                          *)
CanGoOn(r) ==
  \/ at[r] \in InFlight
  \/ /\ at[r] = "new"
     /\ Kind[r] = "adapter" => SlotFree
     /\ Kind[r] = "page" => HostFree(r)
  \/ Waits(r) /\ SlotFree
  \/ at[r] = "probe" /\ (r \in HasControl => ControlFree(r))

(* The phase never comes to stand with every row waiting for another one's *)
(* lock or slot: some row can go on until each has its verdict.            *)
SomebodyGoesOn ==
  (\E r \in Row : CanGoOn(r)) \/ (\A r \in Target : verdict[r].is # "none")

(* Every step but the clock's is one row's, which moves forward and never  *)
(* back; a verdict is formed where a row ends, and stands.  With           *)
(* SomebodyGoesOn the phase ends as long as what can go on does.           *)
Stage(place) ==
  CASE place \in {"out", "new"} -> 0
    [] place = "queued" -> 1
    [] place = "get" -> 2
    [] place \in {"tls", "shellTls"} -> 3
    [] place \in {"browser", "shellBrowser"} -> 4
    [] place = "probe" -> 5
    [] place = "probeQueued" -> 6
    [] place = "probing" -> 7
    [] place = "done" -> 8

RowMoves(r) ==
  /\ Stage(at[r]) < Stage(at'[r])
  /\ \A p \in Row \ {r} : at'[p] = at[p] /\ verdict'[p] = verdict[p]
OnlyTimePasses ==
  UNCHANGED <<rowVars, last, controlVars, browserLeft, asked, told, renders>>
RowsMoveOn ==
  [][/\ (\E r \in Row : RowMoves(r)) \/ OnlyTimePasses
     /\ \A r \in Row : verdict[r].is # "none" => verdict'[r] = verdict[r]]_vars
=============================================================================
