--------------------------- MODULE Enrichment_proofs ---------------------------
(***************************************************************************)
(* Theorems about Enrichment, for any rows, hosts, kinds, answers, slots   *)
(* and budgets.                                                            *)
(***************************************************************************)
EXTENDS Enrichment, FiniteSetTheorems, TLAPS

(* TypeOK without the two variables whose changes every invariant is about. *)
RestTyped ==
  /\ late \in [Row -> BOOLEAN] /\ kept \in [Row -> Answers]
  /\ backoff \in [Host -> Nat] /\ last \in [Host -> Answers]
  /\ control \in [Host -> {"none", "page", "shell", "gone"}]
  /\ tries \in [Host -> 0..CONTROL_MAX_ATTEMPTS] /\ browserLeft \in 0..STEALTH_BUDGET
  /\ asked \subseteq Row /\ told \subseteq Row
  /\ probes \in [Host -> Nat] /\ renders \in Nat

(* An opinion was formed with no control, or with the host's.              *)
Agrees(v, c) ==
  v.is \in {"judged", "indeterminate", "absent"} => v.control \in {"none", "failed", c}

(* What a step of a row does to it: it moves, and may get a verdict.       *)
Moves(r, places) == \E x \in places : at' = [at EXCEPT ![r] = x]
Concludes(r, c) ==
  \E v \in Verdicts : Agrees(v, c) /\ verdict' = [verdict EXCEPT ![r] = v]
Judges(r, c) == verdict' = verdict \/ Concludes(r, c)

(* Only pages wait, climb and probe; only what may be fetched is fetched.  *)
Paged ==
  \A r \in Row : /\ at[r] \notin {"out", "new", "get", "done"} => Kind[r] = "page"
                 /\ at[r] = "get" => Kind[r] # "denied"

(* What its move takes: a free lock or slot for one it did not have, and a *)
(* host that does not back off for a new conversation.                     *)
Enters(r) ==
  /\ at[r] # "out" /\ at'[r] # "out"
  /\ at'[r] \notin {"new", "get", "done"} => Kind[r] = "page"
  /\ at'[r] = "get" => Kind[r] # "denied"
  /\ HoldsHost(r)' => HoldsHost(r) \/ HostFree(r)
  /\ HoldsSlot(r)' => HoldsSlot(r) \/ SlotFree
  /\ HoldsControl(r)' => HoldsControl(r) \/ (ControlFree(r) /\ control[HostOf[r]] = "none")
  /\ Opens(r) => backoff[HostOf[r]] = 0

(* What it spends.                                                         *)
Spends(r) ==
  /\ \/ control' = control
     \/ /\ at[r] = "probing" /\ at'[r] = "done"
        /\ \E a \in Controls : control' = [control EXCEPT ![HostOf[r]] = a]
  /\ asked' = asked \/ (asked' = asked \union {r} /\ Kind[r] # "denied")
  /\ renders' + browserLeft' = renders + browserLeft
  /\ \/ UNCHANGED <<tries, probes>> /\ at'[r] # "probeQueued"
     \/ /\ ControlFree(r) /\ tries' = [tries EXCEPT ![HostOf[r]] = @ + 1]
        /\ \/ at'[r] = "probeQueued" /\ probes' = probes
           \/ at'[r] = "probing" /\ probes' = [probes EXCEPT ![HostOf[r]] = @ + 1]
     \/ /\ at[r] = "probeQueued" /\ at'[r] = "probing" /\ tries' = tries
        /\ probes' = [probes EXCEPT ![HostOf[r]] = @ + 1]

LEMMA VerdictTypes ==
  /\ NoVerdict \in Verdicts /\ NotExamined \in Verdicts
  /\ \A c \in Controls : Judged(c) \in Verdicts /\ Indeterminate(c) \in Verdicts
                           /\ Absent(c) \in Verdicts
  /\ \A a \in Answers, f \in BOOLEAN : RateLimited(a, f) \in Verdicts
BY DEF Verdicts, NoVerdict, NotExamined, Judged, Indeterminate, Absent, RateLimited

LEMMA VerdictAgrees ==
  ASSUME NEW c
  PROVE  /\ Agrees(NoVerdict, c) /\ Agrees(NotExamined, c)
         /\ \A d \in {"none", "failed", c} : Agrees(Judged(d), c) /\ Agrees(Indeterminate(d), c)
                                              /\ Agrees(Absent(d), c)
         /\ \A a, f : Agrees(RateLimited(a, f), c)
BY DEF Agrees, NoVerdict, NotExamined, Judged, Indeterminate, Absent, RateLimited

LEMMA BackOffType ==
  ASSUME EnrichmentAssumption, TypeOK, NEW h \in Host, NEW ticks \in RetryAfter \union {DEFAULT_BACKOFF},
         BackOff(h, ticks)
  PROVE  backoff' \in [Host -> Nat]
<1>1. ticks \in Nat
  BY DEF EnrichmentAssumption
<1>2. backoff' = [backoff EXCEPT ![h] = IF ticks > backoff[h] THEN ticks ELSE backoff[h]]
  BY DEF BackOff
<1> QED
  BY <1>1, <1>2 DEF TypeOK

(* Launching a request: it is sent to a host that does not back off.       *)
LEMMA LaunchMoves ==
  ASSUME EnrichmentAssumption, TypeOK, NEW r \in Row, NEW wasLate \in BOOLEAN, Launch(r, wasLate)
  PROVE  /\ \/ /\ at' = [at EXCEPT ![r] = "done"] /\ asked' = asked
               /\ Concludes(r, control[HostOf[r]])
            \/ /\ at' = [at EXCEPT ![r] = "get"] /\ asked' = asked \union {r}
               /\ backoff[HostOf[r]] = 0 /\ verdict' = verdict
         /\ UNCHANGED <<kept, hostVars, controlVars, browserLeft, told, renders>>
<1>0. HostOf[r] \in Host /\ last[HostOf[r]] \in Answers /\ backoff[HostOf[r]] \in Nat
  BY DEF EnrichmentAssumption, TypeOK
<1>1. UNCHANGED <<kept, hostVars, controlVars, browserLeft, told, renders>>
  BY DEF Launch
<1>2. CASE backoff[HostOf[r]] > 0
  <2> DEFINE v == IF Kind[r] = "page" THEN RateLimited(last[HostOf[r]], ~wasLate)
                  ELSE IF last[HostOf[r]] = "gone" THEN Absent("none")
                  ELSE Indeterminate("none")
  <2>1. at' = [at EXCEPT ![r] = "done"] /\ asked' = asked /\ verdict' = [verdict EXCEPT ![r] = v]
    BY <1>2 DEF Launch, Unasked, Conclude, Goto
  <2>2. v \in Verdicts
    BY <1>0, VerdictTypes DEF Controls
  <2>3. Agrees(v, control[HostOf[r]])
    BY VerdictAgrees
  <2> QED
    BY <1>1, <2>1, <2>2, <2>3 DEF Concludes
<1>3. CASE ~(backoff[HostOf[r]] > 0)
  BY <1>0, <1>1, <1>3 DEF Launch, Send, Goto
<1> QED
  BY <1>2, <1>3

(* The verdict from the page kept.                                         *)
LEMMA JudgeMoves ==
  ASSUME TypeOK, NEW r \in Row, NEW d \in Controls, NEW c, d \in {"none", "failed", c}, Judge(r, d)
  PROVE  at' = [at EXCEPT ![r] = "done"] /\ Concludes(r, c)
<1> DEFINE v == CASE kept[r] = "gone" -> Absent(d)
                  [] Readable(kept[r]) /\ kept[r] # "gone" -> Judged(d)
                  [] OTHER -> Indeterminate(d)
<1>1. at' = [at EXCEPT ![r] = "done"] /\ verdict' = [verdict EXCEPT ![r] = v]
  BY DEF Judge, Conclude, Goto
<1>2. v \in {Absent(d), Judged(d), Indeterminate(d)}
  OBVIOUS
<1> HIDE DEF v
<1>3. v \in Verdicts /\ Agrees(v, c)
  BY <1>2, VerdictTypes, VerdictAgrees
<1> QED
  BY <1>1, <1>3 DEF Concludes

(* What an answer leaves of a row: it is limited, or goes for a control.   *)
LEMMA LimitMoves ==
  ASSUME EnrichmentAssumption, TypeOK, NEW r \in Row,
         NEW ticks \in RetryAfter \union {DEFAULT_BACKOFF}, LimitRow(r, ticks)
  PROVE  /\ at' = [at EXCEPT ![r] = "done"] /\ \A c : Concludes(r, c)
         /\ backoff' \in [Host -> Nat] /\ last' \in [Host -> Answers]
         /\ UNCHANGED <<kept, told>>
<1>0. HostOf[r] \in Host
  BY DEF EnrichmentAssumption
<1>1. backoff' \in [Host -> Nat]
  BY <1>0, BackOffType DEF LimitRow, Limit
<1>2. last' \in [Host -> Answers]
  BY <1>0 DEF LimitRow, Limit, Record, TypeOK, Answers, Classified
<1>3. /\ at' = [at EXCEPT ![r] = "done"] /\ UNCHANGED <<kept, told>>
      /\ verdict' = [verdict EXCEPT ![r] = RateLimited("limited", ~late[r])]
  BY DEF LimitRow, Conclude, Goto
<1>4. RateLimited("limited", ~late[r]) \in Verdicts
  BY VerdictTypes DEF Answers, Classified
<1> QED
  BY <1>1, <1>2, <1>3, <1>4, VerdictAgrees DEF Concludes

LEMMA AdoptMoves ==
  ASSUME EnrichmentAssumption, TypeOK, NEW r \in Row, NEW answer \in Answers, Adopt(r, answer)
  PROVE  /\ \/ at' = [at EXCEPT ![r] = "done"] /\ \A c : Concludes(r, c)
            \/ at' = [at EXCEPT ![r] = "probe"] /\ verdict' = verdict
         /\ backoff' \in [Host -> Nat] /\ last' \in [Host -> Answers]
         /\ kept' \in [Row -> Answers] /\ told' \subseteq Row
<1>0. HostOf[r] \in Host /\ kept[r] \in Answers /\ "shell" \in Answers
  BY DEF EnrichmentAssumption, TypeOK, Answers, Classified
<1>1. ASSUME NEW a \in Answers, Settle(r, a)
      PROVE  /\ at' = [at EXCEPT ![r] = "probe"] /\ verdict' = verdict
             /\ backoff' \in [Host -> Nat] /\ last' \in [Host -> Answers]
             /\ kept' \in [Row -> Answers] /\ told' \subseteq Row
  BY <1>0, <1>1 DEF Settle, Goto, Record, TypeOK
<1>2. CASE answer = "limited"
  <2>1. LimitRow(r, DEFAULT_BACKOFF)
    BY <1>2 DEF Adopt
  <2> QED
    BY <2>1, LimitMoves DEF TypeOK
<1>3. CASE answer = "none" /\ kept[r] = "blank"
  <2>1. /\ at' = [at EXCEPT ![r] = "probe"] /\ kept' = [kept EXCEPT ![r] = "shell"]
        /\ UNCHANGED <<verdict, hostVars, told>>
    BY <1>3 DEF Adopt, Goto
  <2> QED
    BY <1>0, <2>1 DEF TypeOK, hostVars
<1>4. CASE answer = "none" /\ kept[r] # "blank"
  <2>1. Settle(r, kept[r])
    BY <1>4 DEF Adopt
  <2> QED
    BY <1>0, <1>1, <2>1
<1>5. CASE answer \notin {"limited", "none"}
  <2>1. Settle(r, answer)
    BY <1>5 DEF Adopt
  <2> QED
    BY <1>1, <2>1
<1> QED
  BY <1>2, <1>3, <1>4, <1>5
-----------------------------------------------------------------------------
(* The actions of a row, one by one.                                       *)
StepFacts(r) ==
  RestTyped' /\ Moves(r, Places) /\ Judges(r, control'[HostOf[r]]) /\ Enters(r) /\ Spends(r)

(* A row that only moves on between places that hold nothing new.          *)
LEMMA MoveOn ==
  ASSUME EnrichmentAssumption, TypeOK, Paged, NEW r \in Row,
         NEW x \in {"done", "probe"}, at' = [at EXCEPT ![r] = x], at[r] # "out",
         x = "probe" => Kind[r] = "page",
         UNCHANGED <<control, asked, renders, browserLeft, tries, probes>>,
         Judges(r, control[HostOf[r]]), RestTyped'
  PROVE  StepFacts(r)
<1>1. at'[r] = x /\ Moves(r, Places)
  BY DEF TypeOK, Moves, Places
<1>2. Enters(r)
  BY <1>1 DEF Enters, HoldsHost, HoldsSlot, HoldsControl, Opens, Main
<1>3. Spends(r)
  BY <1>1 DEF Spends
<1> QED
  BY <1>1, <1>2, <1>3 DEF StepFacts

LEMMA DeniedStep ==
  ASSUME EnrichmentAssumption, TypeOK, Paged, NEW r \in Row, Denied(r)
  PROVE  StepFacts(r)
<1>1. /\ at[r] = "new" /\ at' = [at EXCEPT ![r] = "done"]
      /\ verdict' = [verdict EXCEPT ![r] = NotExamined]
      /\ UNCHANGED <<late, kept, hostVars, controlVars, browserLeft, asked, told, renders>>
  BY DEF Denied, Conclude, Goto
<1>2. Judges(r, control[HostOf[r]])
  BY <1>1, VerdictTypes, VerdictAgrees DEF Judges, Concludes
<1>3. RestTyped'
  BY <1>1 DEF RestTyped, TypeOK, hostVars, controlVars
<1> QED
  BY <1>1, <1>2, <1>3, MoveOn DEF controlVars

(* A request, launched by a row that may have one.                         *)
LEMMA LaunchStep ==
  ASSUME EnrichmentAssumption, TypeOK, Paged, NEW r \in Row, NEW wasLate \in BOOLEAN,
         Launch(r, wasLate), late' \in [Row -> BOOLEAN], at[r] # "out", SlotFree,
         Kind[r] # "denied", HoldsHost(r) \/ HostFree(r) \/ Kind[r] # "page"
  PROVE  StepFacts(r)
<1>1. UNCHANGED <<kept, hostVars, controlVars, browserLeft, told, renders>>
  BY LaunchMoves
<1>2. CASE /\ at' = [at EXCEPT ![r] = "done"] /\ asked' = asked
           /\ Concludes(r, control[HostOf[r]])
  <2>1. RestTyped'
    BY <1>1, <1>2 DEF RestTyped, TypeOK, hostVars, controlVars
  <2> QED
    BY <1>1, <1>2, <2>1, MoveOn DEF controlVars, Judges
<1>3. CASE /\ at' = [at EXCEPT ![r] = "get"] /\ asked' = asked \union {r}
           /\ backoff[HostOf[r]] = 0 /\ verdict' = verdict
  <2>1. RestTyped'
    BY <1>1, <1>3 DEF RestTyped, TypeOK, hostVars, controlVars
  <2>2. at'[r] = "get" /\ Moves(r, Places)
    BY <1>3 DEF Moves, Places, TypeOK
  <2>3. Enters(r)
    BY <1>3, <2>2 DEF Enters, HoldsHost, HoldsControl
  <2>4. Spends(r)
    BY <1>1, <1>3, <2>2 DEF Spends, controlVars
  <2> QED
    BY <1>3, <2>1, <2>2, <2>3, <2>4 DEF StepFacts, Judges
<1> QED
  BY <1>2, <1>3, LaunchMoves

LEMMA AdapterStep ==
  ASSUME EnrichmentAssumption, TypeOK, Paged, NEW r \in Row, AskAdapter(r)
  PROVE  StepFacts(r)
<1>1. at[r] = "new" /\ Kind[r] = "adapter" /\ SlotFree /\ late' = late
  BY DEF AskAdapter
<1>2. CASE r \in Known
  <2>1. /\ at' = [at EXCEPT ![r] = "done"] /\ verdict' = [verdict EXCEPT ![r] = Judged("none")]
        /\ UNCHANGED <<kept, hostVars, controlVars, browserLeft, asked, told, renders>>
    BY <1>2 DEF AskAdapter, Conclude, Goto
  <2>2. Judges(r, control[HostOf[r]])
    BY <2>1, VerdictTypes, VerdictAgrees DEF Judges, Concludes, Controls
  <2>3. RestTyped'
    BY <1>1, <2>1 DEF RestTyped, TypeOK, hostVars, controlVars
  <2> QED
    BY <1>1, <2>1, <2>2, <2>3, MoveOn DEF controlVars
<1>3. CASE r \notin Known
  <2>1. Launch(r, FALSE)
    BY <1>3 DEF AskAdapter
  <2>2. late' \in [Row -> BOOLEAN]
    BY <1>1 DEF TypeOK
  <2> QED
    BY <1>1, <2>1, <2>2, LaunchStep
<1> QED
  BY <1>2, <1>3

LEMMA LimitTypes ==
  ASSUME EnrichmentAssumption, TypeOK, NEW r \in Row,
         NEW ticks \in RetryAfter \union {DEFAULT_BACKOFF}, Limit(r, ticks)
  PROVE  backoff' \in [Host -> Nat] /\ last' \in [Host -> Answers]
<1>0. HostOf[r] \in Host
  BY DEF EnrichmentAssumption
<1>1. backoff' \in [Host -> Nat]
  BY <1>0, BackOffType DEF Limit
<1>2. last' \in [Host -> Answers]
  BY <1>0 DEF Limit, Record, TypeOK, Answers, Classified
<1> QED
  BY <1>1, <1>2

LEMMA AdapterAnswersStep ==
  ASSUME EnrichmentAssumption, TypeOK, Paged, NEW r \in Row, NEW answer \in Answers,
         AdapterAnswers(r, answer)
  PROVE  StepFacts(r)
<1> DEFINE v == CASE answer = "page" -> Judged("none")
                  [] Denies(answer) -> Absent("none")
                  [] OTHER -> Indeterminate("none")
<1>1. /\ at[r] = "get" /\ at' = [at EXCEPT ![r] = "done"] /\ verdict' = [verdict EXCEPT ![r] = v]
      /\ told' = IF Denies(answer) THEN told \union {r} ELSE told
      /\ UNCHANGED <<late, kept, controlVars, browserLeft, asked, renders>>
  BY DEF AdapterAnswers, Conclude, Goto
<1>2. backoff' \in [Host -> Nat] /\ last' \in [Host -> Answers]
  <2>1. CASE answer = "limited"
    BY <2>1, LimitTypes DEF AdapterAnswers
  <2>2. CASE answer # "limited"
    BY <2>2 DEF AdapterAnswers, Record, TypeOK
  <2> QED
    BY <2>1, <2>2
<1>3. v \in {Judged("none"), Absent("none"), Indeterminate("none")}
  OBVIOUS
<1> HIDE DEF v
<1>4. Judges(r, control[HostOf[r]])
  BY <1>1, <1>3, VerdictTypes, VerdictAgrees DEF Judges, Concludes, Controls
<1>5. RestTyped'
  BY <1>1, <1>2 DEF RestTyped, TypeOK, controlVars
<1> QED
  BY <1>1, <1>4, <1>5, MoveOn DEF controlVars

LEMMA EnterStep ==
  ASSUME EnrichmentAssumption, TypeOK, Paged, NEW r \in Row, Enter(r)
  PROVE  StepFacts(r)
<1> DEFINE wasLate == backoff[HostOf[r]] > 0
<1>1. /\ at[r] = "new" /\ Kind[r] = "page" /\ HostFree(r)
      /\ late' = [late EXCEPT ![r] = wasLate]
  BY DEF Enter
<1>2. late' \in [Row -> BOOLEAN]
  BY <1>1 DEF TypeOK
<1>3. CASE SlotAtOnce
  <2>1. Launch(r, wasLate) /\ SlotFree
    BY <1>3 DEF Enter, SlotAtOnce
  <2> QED
    BY <1>1, <1>2, <2>1, LaunchStep
<1>4. CASE ~SlotAtOnce
  <2>1. /\ at' = [at EXCEPT ![r] = "queued"]
        /\ UNCHANGED <<kept, verdict, hostVars, controlVars, browserLeft, asked, told, renders>>
    BY <1>4 DEF Enter, Goto
  <2>2. at'[r] = "queued" /\ Moves(r, Places)
    BY <2>1 DEF Moves, Places, TypeOK
  <2>3. RestTyped'
    BY <1>2, <2>1 DEF RestTyped, TypeOK, hostVars, controlVars
  <2>4. Enters(r)
    BY <1>1, <2>2 DEF Enters, HoldsSlot, HoldsControl, Opens, Main
  <2>5. Spends(r)
    BY <2>1, <2>2 DEF Spends, controlVars
  <2> QED
    BY <2>1, <2>2, <2>3, <2>4, <2>5 DEF StepFacts, Judges
<1> QED
  BY <1>3, <1>4

LEMMA GetSlotStep ==
  ASSUME EnrichmentAssumption, TypeOK, Paged, NEW r \in Row, GetSlot(r)
  PROVE  StepFacts(r)
<1>1. at[r] = "queued" /\ SlotFree /\ Launch(r, late[r]) /\ late' = late
  BY DEF GetSlot
<1>2. Kind[r] = "page" /\ HoldsHost(r)
  BY <1>1 DEF Paged, HoldsHost
<1>3. late[r] \in BOOLEAN /\ late' \in [Row -> BOOLEAN]
  BY <1>1 DEF TypeOK
<1> QED
  BY <1>1, <1>2, <1>3, LaunchStep

(* A row that climbs to a tier keeps what it holds.                        *)
LEMMA ClimbStep ==
  ASSUME EnrichmentAssumption, TypeOK, Paged, NEW r \in Row, Kind[r] = "page",
         NEW x \in {"tls", "browser", "shellTls", "shellBrowser"}, at' = [at EXCEPT ![r] = x],
         at[r] \in {"get", "tls", "shellTls"},
         at[r] = "shellTls" => x = "shellBrowser",
         UNCHANGED <<verdict, control, asked, tries, probes>>,
         renders' + browserLeft' = renders + browserLeft, RestTyped'
  PROVE  StepFacts(r)
<1>1. at'[r] = x /\ Moves(r, Places)
  BY DEF TypeOK, Moves, Places
<1>2. Enters(r)
  BY <1>1 DEF Enters, HoldsHost, HoldsSlot, HoldsControl, Opens, Main
<1>3. Spends(r)
  BY <1>1 DEF Spends
<1> QED
  BY <1>1, <1>2, <1>3 DEF StepFacts, Judges

LEMMA PageAnswersStep ==
  ASSUME EnrichmentAssumption, TypeOK, Paged, NEW r \in Row, NEW answer \in Answers,
         PageAnswers(r, answer)
  PROVE  StepFacts(r)
<1>0. HostOf[r] \in Host /\ "blank" \in Answers
  BY DEF EnrichmentAssumption, Answers
<1>1. /\ at[r] = "get" /\ Kind[r] = "page"
      /\ UNCHANGED <<late, controlVars, browserLeft, asked, renders>>
  BY DEF PageAnswers
<1>2. CASE answer = "limited"
  <2>1. PICK ticks \in RetryAfter \union {DEFAULT_BACKOFF} : LimitRow(r, ticks)
    BY <1>2 DEF PageAnswers, Escalatable
  <2>2. /\ at' = [at EXCEPT ![r] = "done"] /\ Judges(r, control[HostOf[r]])
        /\ backoff' \in [Host -> Nat] /\ last' \in [Host -> Answers] /\ UNCHANGED <<kept, told>>
    BY <2>1, LimitMoves DEF Judges
  <2>3. RestTyped'
    BY <1>1, <2>2 DEF RestTyped, TypeOK, controlVars
  <2> QED
    BY <1>1, <2>2, <2>3, MoveOn DEF controlVars
<1>3. CASE answer # "limited" /\ Stealth /\ Escalatable(answer)
  <2>1. Climb(r, answer, "tls") /\ last' = last
    BY <1>3 DEF PageAnswers, Escalatable
  <2>2. /\ kept' = [kept EXCEPT ![r] = answer] /\ at' = [at EXCEPT ![r] = "tls"]
        /\ UNCHANGED <<verdict, backoff, told>>
    BY <2>1 DEF Climb, Goto
  <2>3. RestTyped'
    BY <1>1, <2>1, <2>2 DEF RestTyped, TypeOK, controlVars
  <2> QED
    BY <1>1, <2>2, <2>3, ClimbStep DEF controlVars
<1>4. CASE answer = "shell" /\ Stealth
  <2>1. Climb(r, "blank", "shellTls") /\ Record(HostOf[r], answer)
    BY <1>4 DEF PageAnswers, Escalatable
  <2>2. /\ kept' = [kept EXCEPT ![r] = "blank"] /\ at' = [at EXCEPT ![r] = "shellTls"]
        /\ UNCHANGED <<verdict, backoff, told>> /\ last' = [last EXCEPT ![HostOf[r]] = answer]
    BY <2>1 DEF Climb, Goto, Record
  <2>3. RestTyped'
    BY <1>0, <1>1, <2>2 DEF RestTyped, TypeOK, controlVars
  <2> QED
    BY <1>1, <2>2, <2>3, ClimbStep DEF controlVars
<1>5. CASE answer # "limited" /\ ~(Stealth /\ (Escalatable(answer) \/ answer = "shell"))
  <2>1. Settle(r, answer)
    BY <1>5 DEF PageAnswers
  <2>2. /\ last' = [last EXCEPT ![HostOf[r]] = answer] /\ kept' = [kept EXCEPT ![r] = answer]
        /\ told' = IF answer = "gone" THEN told \union {r} ELSE told
        /\ at' = [at EXCEPT ![r] = "probe"] /\ UNCHANGED <<verdict, backoff>>
    BY <2>1 DEF Settle, Record, Goto
  <2>3. RestTyped'
    BY <1>0, <1>1, <2>2 DEF RestTyped, TypeOK, controlVars
  <2> QED
    BY <1>1, <2>2, <2>3, MoveOn DEF controlVars, Judges
<1> QED
  BY <1>2, <1>3, <1>4, <1>5

(* A tier's answer is adopted.                                             *)
LEMMA AdoptStep ==
  ASSUME EnrichmentAssumption, TypeOK, Paged, NEW r \in Row, NEW answer \in Answers,
         at[r] \in {"tls", "browser", "shellTls", "shellBrowser"}, Adopt(r, answer),
         UNCHANGED <<late, controlVars, browserLeft, asked, renders>>
  PROVE  StepFacts(r)
<1>1. Kind[r] = "page"
  BY DEF Paged
<1>2. RestTyped'
  BY AdoptMoves DEF RestTyped, TypeOK, controlVars
<1>3. \/ at' = [at EXCEPT ![r] = "done"] /\ Judges(r, control[HostOf[r]])
      \/ at' = [at EXCEPT ![r] = "probe"] /\ Judges(r, control[HostOf[r]])
  BY AdoptMoves DEF Judges
<1> QED
  BY <1>1, <1>2, <1>3, MoveOn DEF controlVars

LEMMA TlsStep ==
  ASSUME EnrichmentAssumption, TypeOK, Paged, NEW r \in Row, NEW answer \in Answers,
         TlsAnswers(r, answer)
  PROVE  StepFacts(r)
<1>1. at[r] \in {"tls", "shellTls"} /\ UNCHANGED <<late, controlVars, asked>>
  BY DEF TlsAnswers
<1>2. CASE answer = "limited" \/ Rescue(answer) \/ ~TierThreeLeft
  <2>1. Adopt(r, answer) /\ UNCHANGED <<browserLeft, renders>>
    BY <1>2 DEF TlsAnswers
  <2> QED
    BY <1>1, <2>1, AdoptStep
<1>3. CASE ~(answer = "limited" \/ Rescue(answer) \/ ~TierThreeLeft)
  <2> DEFINE x == IF at[r] = "tls" THEN "browser" ELSE "shellBrowser"
  <2>1. /\ browserLeft' = browserLeft - 1 /\ renders' = renders + 1 /\ browserLeft > 0
        /\ at' = [at EXCEPT ![r] = x]
        /\ kept' = IF answer = "none" THEN kept ELSE [kept EXCEPT ![r] = answer]
        /\ UNCHANGED <<verdict, hostVars, told>>
    BY <1>3 DEF TlsAnswers, Charge, Goto, TierThreeLeft
  <2>2. /\ browserLeft' \in 0..STEALTH_BUDGET /\ renders' \in Nat
        /\ renders' + browserLeft' = renders + browserLeft
    BY <2>1 DEF TypeOK, EnrichmentAssumption
  <2>3. kept' \in [Row -> Answers]
    BY <2>1 DEF TypeOK
  <2>4. RestTyped'
    BY <1>1, <2>1, <2>2, <2>3 DEF RestTyped, TypeOK, hostVars, controlVars
  <2>5. Kind[r] = "page"
    BY <1>1 DEF Paged
  <2> QED
    BY <1>1, <2>1, <2>2, <2>4, <2>5, ClimbStep DEF controlVars
<1> QED
  BY <1>2, <1>3

LEMMA BrowserStep ==
  ASSUME EnrichmentAssumption, TypeOK, Paged, NEW r \in Row, NEW answer \in Answers,
         BrowserAnswers(r, answer)
  PROVE  StepFacts(r)
BY AdoptStep DEF BrowserAnswers

(* The control probe: nobody else of the host is at one.                   *)
LEMMA ProbeStep ==
  ASSUME EnrichmentAssumption, TypeOK, Paged, NEW r \in Row, Probe(r)
  PROVE  StepFacts(r)
<1> DEFINE h == HostOf[r]
<1>0. h \in Host /\ Kind[r] = "page" /\ control[h] \in Controls
  BY DEF EnrichmentAssumption, Paged, Probe, TypeOK, Controls
<1>1. /\ at[r] = "probe"
      /\ UNCHANGED <<late, kept, hostVars, control, browserLeft, asked, told, renders>>
  BY DEF Probe
<1>2. ASSUME NEW d \in Controls, d \in {"none", "failed", control[h]}, Judge(r, d),
             UNCHANGED <<tries, probes>>
      PROVE  StepFacts(r)
  <2>1. at' = [at EXCEPT ![r] = "done"] /\ Judges(r, control[h])
    BY <1>2, JudgeMoves DEF Judges
  <2>2. RestTyped'
    BY <1>1, <1>2 DEF RestTyped, TypeOK, hostVars
  <2> QED
    BY <1>1, <1>2, <2>1, <2>2, MoveOn
<1>3. ASSUME ControlFree(r), control[h] = "none", backoff[h] = 0, tries[h] < CONTROL_MAX_ATTEMPTS,
             tries' = [tries EXCEPT ![h] = @ + 1],
             IF SlotAtOnce THEN SendProbe(r)
             ELSE Goto(r, "probeQueued") /\ UNCHANGED <<verdict, probes>>
      PROVE  StepFacts(r)
  <2> DEFINE x == IF SlotAtOnce THEN "probing" ELSE "probeQueued"
  <2>1. /\ at' = [at EXCEPT ![r] = x] /\ verdict' = verdict
        /\ probes' = IF SlotAtOnce THEN [probes EXCEPT ![h] = @ + 1] ELSE probes
    BY <1>3 DEF SendProbe, Goto
  <2>2. at'[r] = x /\ Moves(r, Places)
    BY <2>1 DEF TypeOK, Moves, Places
  <2>3. tries' \in [Host -> 0..CONTROL_MAX_ATTEMPTS]
    BY <1>0, <1>3 DEF TypeOK, EnrichmentAssumption
  <2>4. probes' \in [Host -> Nat]
    BY <1>0, <2>1 DEF TypeOK
  <2>5. RestTyped'
    BY <1>1, <2>3, <2>4 DEF RestTyped, TypeOK, hostVars
  <2>6. Enters(r)
    BY <1>0, <1>1, <1>3, <2>2 DEF Enters, HoldsHost, HoldsSlot, HoldsControl, Opens, Main, SlotAtOnce
  <2>7. Spends(r)
    BY <1>1, <1>3, <2>1, <2>2 DEF Spends
  <2> QED
    BY <2>1, <2>2, <2>5, <2>6, <2>7 DEF StepFacts, Judges
<1>4. \/ \E d \in {"none", "failed", control[h]} : Judge(r, d) /\ UNCHANGED <<tries, probes>>
      \/ /\ ControlFree(r) /\ control[h] = "none"
         /\ backoff[h] = 0 /\ tries[h] < CONTROL_MAX_ATTEMPTS
         /\ tries' = [tries EXCEPT ![h] = @ + 1]
         /\ IF SlotAtOnce THEN SendProbe(r)
            ELSE Goto(r, "probeQueued") /\ UNCHANGED <<verdict, probes>>
  BY DEF Probe
<1>5. {"none", "failed", control[h]} \subseteq Controls
  BY <1>0 DEF Controls
<1> QED
  BY <1>2, <1>3, <1>4, <1>5

LEMMA ProbeSlotStep ==
  ASSUME EnrichmentAssumption, TypeOK, Paged, NEW r \in Row, GetProbeSlot(r)
  PROVE  StepFacts(r)
<1>0. HostOf[r] \in Host /\ Kind[r] = "page"
  BY DEF EnrichmentAssumption, Paged, GetProbeSlot
<1>1. /\ at[r] = "probeQueued" /\ SlotFree
      /\ UNCHANGED <<late, kept, hostVars, control, tries, browserLeft, asked, told, renders>>
  BY DEF GetProbeSlot
<1>2. CASE backoff[HostOf[r]] > 0
  <2>1. Judge(r, "failed") /\ probes' = probes
    BY <1>2 DEF GetProbeSlot, LaunchProbe
  <2>2. at' = [at EXCEPT ![r] = "done"] /\ Judges(r, control[HostOf[r]])
    BY <2>1, JudgeMoves DEF Judges, Controls
  <2>3. RestTyped'
    BY <1>1, <2>1 DEF RestTyped, TypeOK, hostVars
  <2> QED
    BY <1>1, <2>1, <2>2, <2>3, MoveOn
<1>3. CASE ~(backoff[HostOf[r]] > 0)
  <2>1. /\ at' = [at EXCEPT ![r] = "probing"] /\ verdict' = verdict
        /\ probes' = [probes EXCEPT ![HostOf[r]] = @ + 1]
    BY <1>3 DEF GetProbeSlot, LaunchProbe, SendProbe, Goto
  <2>2. at'[r] = "probing" /\ Moves(r, Places)
    BY <2>1 DEF TypeOK, Moves, Places
  <2>3. RestTyped'
    BY <1>0, <1>1, <2>1 DEF RestTyped, TypeOK, hostVars
  <2>4. backoff[HostOf[r]] = 0
    BY <1>0, <1>3 DEF TypeOK
  <2>5. Enters(r)
    BY <1>0, <1>1, <2>2, <2>4 DEF Enters, HoldsHost, HoldsControl, Main
  <2>6. Spends(r)
    BY <1>1, <2>1, <2>2 DEF Spends
  <2> QED
    BY <2>1, <2>2, <2>3, <2>5, <2>6 DEF StepFacts, Judges
<1> QED
  BY <1>2, <1>3

LEMMA ProbeAnswersStep ==
  ASSUME EnrichmentAssumption, TypeOK, Paged, NEW r \in Row, NEW answer \in Answers,
         ProbeAnswers(r, answer)
  PROVE  StepFacts(r)
<1> DEFINE h == HostOf[r]
           d == IF Usable(answer) THEN answer ELSE "failed"
<1>0. h \in Host /\ control[h] \in {"none", "page", "shell", "gone"}
  BY DEF EnrichmentAssumption, TypeOK
<1>1. /\ at[r] = "probing" /\ Judge(r, d)
      /\ control' = IF Usable(answer) THEN [control EXCEPT ![h] = answer] ELSE control
      /\ UNCHANGED <<late, kept, tries, probes, browserLeft, asked, told, renders>>
  BY DEF ProbeAnswers
<1>2. backoff' \in [Host -> Nat] /\ last' \in [Host -> Answers]
  <2>1. CASE answer = "limited"
    BY <2>1, LimitTypes DEF ProbeAnswers
  <2>2. CASE answer # "limited"
    BY ZenonT(30), <1>0, <2>2 DEF ProbeAnswers, Record, TypeOK
  <2> QED
    BY <2>1, <2>2
<1>3. d \in Controls /\ d \in {"none", "failed", control'[h]}
  BY <1>0, <1>1 DEF Usable, Controls, TypeOK
<1>4. at' = [at EXCEPT ![r] = "done"] /\ Concludes(r, control'[h])
  BY <1>1, <1>3, JudgeMoves
<1>5. control' \in [Host -> {"none", "page", "shell", "gone"}]
  BY <1>0, <1>1 DEF Usable, TypeOK
<1>6. RestTyped'
  BY <1>1, <1>2, <1>5 DEF RestTyped, TypeOK
<1>7. at'[r] = "done" /\ Moves(r, Places)
  BY <1>4 DEF TypeOK, Moves, Places
<1>8. Enters(r)
  BY <1>1, <1>7 DEF Enters, HoldsHost, HoldsSlot, HoldsControl, Opens, Main
<1>9. Spends(r)
  <2>1. control' = control \/ \E a \in Controls : control' = [control EXCEPT ![h] = a]
    BY <1>1 DEF Usable, Controls
  <2>2. asked' = asked /\ renders' + browserLeft' = renders + browserLeft
    BY <1>1
  <2>3. UNCHANGED <<tries, probes>> /\ at'[r] # "probeQueued"
    BY <1>1, <1>7
  <2> QED
    BY <1>1, <1>7, <2>1, <2>2, <2>3 DEF Spends
<1> QED
  BY <1>4, <1>6, <1>7, <1>8, <1>9 DEF StepFacts, Judges

LEMMA RowStep ==
  ASSUME EnrichmentAssumption, TypeOK, Paged, NEW r \in Row, RowNext(r)
  PROVE  StepFacts(r)
<1>1. Answer \subseteq Answers /\ TierAnswer \subseteq Answers
  BY DEF EnrichmentAssumption, Answers
<1>2. CASE TierNext(r)
  BY <1>1, <1>2, TlsStep, BrowserStep DEF TierNext
<1>3. CASE \E answer \in Answer : PageAnswers(r, answer) \/ ProbeAnswers(r, answer)
  BY <1>1, <1>3, PageAnswersStep, ProbeAnswersStep
<1>4. CASE \E answer \in Answer : AdapterAnswers(r, answer)
  BY <1>1, <1>4, AdapterAnswersStep
<1> QED
  BY <1>2, <1>3, <1>4, DeniedStep, AdapterStep, EnterStep, GetSlotStep, ProbeStep, ProbeSlotStep
     DEF RowNext
-----------------------------------------------------------------------------
(* The inductive invariant, in its parts.                                  *)
(* The locks: one row of a host is at its page, and one at its control.    *)
Exclusive ==
  \A r, p \in Row : r # p /\ HostOf[r] = HostOf[p] =>
    ~(HoldsHost(r) /\ HoldsHost(p)) /\ ~(HoldsControl(r) /\ HoldsControl(p))

(* A control is probed only while the host has none, so that an opinion is *)
(* never of another control than the host's.                               *)
Unanswered == \A r \in Row : HoldsControl(r) => control[HostOf[r]] = "none"
Opined == \A r \in Row : Agrees(verdict[r], control[HostOf[r]])

InSlots == {r \in Row : HoldsSlot(r)}
SlotsKept == Cardinality(InSlots) <= CONCURRENCY
Rendered == renders + browserLeft = STEALTH_BUDGET

(* Requests are sent for the rows that were chosen.                        *)
ToFetch == {r \in Target : Kind[r] # "denied"}
Chosen == (\A r \in Row : at[r] # "out" => r \in Target) /\ asked \subseteq ToFetch

(* A probe that waits for a slot is an attempt not yet sent.               *)
Probed ==
  /\ \A h \in Host : probes[h] <= tries[h]
  /\ \A r \in Row : at[r] = "probeQueued" => probes[HostOf[r]] < tries[HostOf[r]]

IInv == /\ TypeOK /\ Paged /\ Exclusive /\ Unanswered /\ Opined
        /\ SlotsKept /\ Rendered /\ Chosen /\ Probed

LEMMA OrderTypes ==
  ASSUME EnrichmentAssumption
  PROVE  /\ Len(Order) \in Nat /\ DOMAIN Order = 1..Len(Order)
         /\ \A i \in DOMAIN Order : Order[i] \in Row
         /\ Target \subseteq Row /\ Skipped \subseteq Row
BY DEF EnrichmentAssumption, Target, Skipped

(* The fetched rows before the i-th of the order.                          *)
Earlier(i) == {j \in 1..(i - 1) : Fetched(j)}

LEMMA EarlierFinite ==
  ASSUME NEW i \in Nat
  PROVE  IsFiniteSet(Earlier(i)) /\ Cardinality(Earlier(i)) \in Nat
<1>1. IsFiniteSet(1..(i - 1))
  <2>1. 1 \in Int /\ i - 1 \in Int
    OBVIOUS
  <2> QED
    BY <2>1, FS_Interval
<1>2. Earlier(i) \in SUBSET (1..(i - 1))
  BY DEF Earlier
<1>3. IsFiniteSet(Earlier(i))
  BY <1>1, <1>2, FS_Subset
<1> QED
  BY <1>3, FS_CardinalityType

LEMMA EarlierGrows ==
  ASSUME NEW i \in Nat \ {0}, NEW k \in Nat, i < k, Fetched(i)
  PROVE  Cardinality(Earlier(i)) < Cardinality(Earlier(k))
<1>1. i \in Earlier(k) /\ i \notin Earlier(i)
  BY DEF Earlier
<1>2. Earlier(i) \subseteq Earlier(k)
  BY DEF Earlier
<1>3. Earlier(i) \union {i} \in SUBSET Earlier(k)
  BY <1>1, <1>2
<1>4. Cardinality(Earlier(i) \union {i}) = Cardinality(Earlier(i)) + 1
  BY <1>1, EarlierFinite, FS_AddElement
<1>5. Cardinality(Earlier(i) \union {i}) <= Cardinality(Earlier(k))
  BY <1>3, EarlierFinite, FS_Subset
<1>6. Cardinality(Earlier(i)) \in Nat /\ Cardinality(Earlier(k)) \in Nat
  BY EarlierFinite
<1> QED
  BY <1>4, <1>5, <1>6

(* No more rows are chosen for a fetch than the budget: a row's number     *)
(* among the fetched ones tells it from the others.                        *)
LEMMA BudgetBounds ==
  ASSUME EnrichmentAssumption
  PROVE  IsFiniteSet(ToFetch) /\ Cardinality(ToFetch) <= VERIFY_BUDGET
<1> DEFINE B == {i \in DOMAIN Order : Budgeted(i)}
           Number == 0..(VERIFY_BUDGET - 1)
           nth == [i \in B |-> Cardinality(Earlier(i))]
           where == [r \in ToFetch |-> CHOOSE i \in B : Order[i] = r]
<1>0. VERIFY_BUDGET \in Nat
  BY DEF EnrichmentAssumption
<1>1. \A i \in B : /\ i \in Nat \ {0} /\ Fetched(i)
                   /\ Cardinality(Earlier(i)) < VERIFY_BUDGET
  BY OrderTypes DEF Budgeted, Earlier
<1>2. \A r \in ToFetch : \E i \in B : Order[i] = r
  BY DEF ToFetch, Target, Fetched
<1>3. where \in [ToFetch -> B] /\ \A r \in ToFetch : Order[where[r]] = r
  BY <1>2
<1> HIDE DEF B
<1>4. \A i \in B : Cardinality(Earlier(i)) \in Number
  BY <1>0, <1>1, EarlierFinite
<1> HIDE DEF Number
<1>5. nth \in [B -> Number] /\ \A i \in B : nth[i] = Cardinality(Earlier(i))
  BY <1>4
<1> HIDE DEF nth, where
<1>6. ASSUME NEW i \in B, NEW k \in B, nth[i] = nth[k] PROVE i = k
  <2>1. i \in Nat \ {0} /\ k \in Nat \ {0} /\ Fetched(i) /\ Fetched(k)
    BY <1>1
  <2>2. /\ i < k => Cardinality(Earlier(i)) < Cardinality(Earlier(k))
        /\ k < i => Cardinality(Earlier(k)) < Cardinality(Earlier(i))
    BY <2>1, EarlierGrows
  <2>3. Cardinality(Earlier(i)) = Cardinality(Earlier(k)) /\ Cardinality(Earlier(i)) \in Nat
    BY <1>5, <1>6, <2>1, EarlierFinite
  <2> QED
    BY <2>1, <2>2, <2>3
<1>7. nth \in Injection(B, Number)
  BY <1>5, <1>6 DEF Injection, IsInjective
<1>8. IsFiniteSet(Number) /\ Cardinality(Number) = VERIFY_BUDGET
  <2>1. 0 \in Int /\ VERIFY_BUDGET - 1 \in Int
    BY <1>0
  <2>2. /\ IsFiniteSet(Number)
        /\ Cardinality(Number) = IF 0 > VERIFY_BUDGET - 1 THEN 0 ELSE (VERIFY_BUDGET - 1) - 0 + 1
    BY <2>1, FS_Interval DEF Number
  <2> QED
    BY <1>0, <2>2
<1>9. IsFiniteSet(B) /\ Cardinality(B) <= VERIFY_BUDGET
  BY <1>7, <1>8, FS_Injection
<1>10. where \in Injection(ToFetch, B)
  <2>1. \A r, p \in ToFetch : where[r] = where[p] => r = p
    BY <1>3
  <2> QED
    BY <1>3, <2>1 DEF Injection, IsInjective
<1>11. IsFiniteSet(ToFetch) /\ Cardinality(ToFetch) <= Cardinality(B)
  BY <1>9, <1>10, FS_Injection
<1>12. Cardinality(B) \in Nat /\ Cardinality(ToFetch) \in Nat
  BY <1>9, <1>11, FS_CardinalityType
<1> QED
  BY <1>0, <1>9, <1>11, <1>12
-----------------------------------------------------------------------------
LEMMA TypeInit == EnrichmentAssumption /\ Init => TypeOK /\ Paged
<1> SUFFICES ASSUME EnrichmentAssumption, Init
             PROVE  TypeOK /\ Paged
  OBVIOUS
<1>1. at \in [Row -> Places] /\ verdict \in [Row -> Verdicts]
  BY VerdictTypes DEF Init, Places
<1>2. RestTyped
  BY DEF Init, RestTyped, EnrichmentAssumption, Answers, Classified
<1>3. Paged
  BY DEF Init, Paged
<1> QED
  BY <1>1, <1>2, <1>3 DEF TypeOK, RestTyped

LEMMA PartsInit ==
  ASSUME EnrichmentAssumption, Init
  PROVE  Exclusive /\ Unanswered /\ Opined /\ SlotsKept /\ Rendered /\ Chosen /\ Probed
<1>1. \A r \in Row : ~HoldsHost(r) /\ ~HoldsControl(r) /\ ~HoldsSlot(r)
  BY DEF Init, HoldsHost, HoldsControl, HoldsSlot, Main
<1>2. Opined
  BY VerdictAgrees DEF Init, Opined
<1>3. SlotsKept
  <2>1. InSlots = {}
    BY <1>1 DEF InSlots
  <2> QED
    BY <2>1, FS_EmptySet DEF SlotsKept, EnrichmentAssumption
<1>4. Rendered
  BY DEF Init, Rendered, EnrichmentAssumption
<1>5. Chosen
  BY DEF Init, Chosen
<1>6. Probed
  BY DEF Init, Probed
<1> QED
  BY <1>1, <1>2, <1>3, <1>4, <1>5, <1>6 DEF Exclusive, Unanswered

(* A step of a row leaves the others where they are.                       *)
LEMMA OthersStay ==
  ASSUME TypeOK, NEW r \in Row, StepFacts(r)
  PROVE  /\ at' \in [Row -> Places] /\ verdict' \in [Row -> Verdicts]
         /\ \A p \in Row \ {r} : at'[p] = at[p] /\ verdict'[p] = verdict[p]
         /\ verdict'[r] = verdict[r] \/ Agrees(verdict'[r], control'[HostOf[r]])
<1>1. PICK x \in Places : at' = [at EXCEPT ![r] = x]
  BY DEF StepFacts, Moves
<1>2. at' \in [Row -> Places] /\ \A p \in Row \ {r} : at'[p] = at[p]
  BY <1>1 DEF TypeOK
<1>3. CASE verdict' = verdict
  BY <1>2, <1>3 DEF TypeOK
<1>4. CASE Concludes(r, control'[HostOf[r]])
  <2>1. PICK v \in Verdicts : Agrees(v, control'[HostOf[r]]) /\ verdict' = [verdict EXCEPT ![r] = v]
    BY <1>4 DEF Concludes
  <2>2. verdict'[r] = v /\ verdict' \in [Row -> Verdicts]
        /\ \A p \in Row \ {r} : verdict'[p] = verdict[p]
    BY <2>1 DEF TypeOK
  <2> QED
    BY <1>2, <2>1, <2>2
<1> QED
  BY <1>3, <1>4 DEF StepFacts, Judges

LEMMA TypeStep ==
  ASSUME EnrichmentAssumption, TypeOK, Paged, NEW r \in Row, StepFacts(r)
  PROVE  TypeOK' /\ Paged'
<1>1. TypeOK'
  BY OthersStay DEF StepFacts, RestTyped, TypeOK
<1>2. Paged'
  <2>1. /\ at'[r] \notin {"new", "get", "done"} => Kind[r] = "page"
        /\ at'[r] = "get" => Kind[r] # "denied"
    BY DEF StepFacts, Enters
  <2> QED
    BY <2>1, OthersStay DEF Paged
<1> QED
  BY <1>1, <1>2

LEMMA ExclusiveStep ==
  ASSUME TypeOK, Exclusive, NEW r \in Row, StepFacts(r)
  PROVE  Exclusive'
<1>1. \A p \in Row \ {r} : (HoldsHost(p)' <=> HoldsHost(p)) /\ (HoldsControl(p)' <=> HoldsControl(p))
  BY OthersStay DEF HoldsHost, HoldsControl
<1>2. /\ HoldsHost(r)' => HoldsHost(r) \/ HostFree(r)
      /\ HoldsControl(r)' => HoldsControl(r) \/ ControlFree(r)
  BY DEF StepFacts, Enters
<1>3. \A p \in Row \ {r} : HostOf[p] = HostOf[r] =>
        ~(HoldsHost(r)' /\ HoldsHost(p)) /\ ~(HoldsControl(r)' /\ HoldsControl(p))
  BY <1>2 DEF Exclusive, HostFree, ControlFree, Peers
<1> QED
  BY <1>1, <1>3 DEF Exclusive

LEMMA OpinionStep ==
  ASSUME EnrichmentAssumption, TypeOK, Exclusive, Unanswered, Opined, NEW r \in Row, StepFacts(r)
  PROVE  Unanswered' /\ Opined'
<1>0. HostOf \in [Row -> Host] /\ control \in [Host -> {"none", "page", "shell", "gone"}]
  BY DEF EnrichmentAssumption, TypeOK
<1>1. \A p \in Row \ {r} : /\ HoldsControl(p)' <=> HoldsControl(p)
                           /\ verdict'[p] = verdict[p]
  BY OthersStay DEF HoldsControl
<1>2. HoldsControl(r)' => control[HostOf[r]] = "none"
  BY DEF StepFacts, Enters, Unanswered
<1>3. verdict'[r] = verdict[r] \/ Agrees(verdict'[r], control'[HostOf[r]])
  BY OthersStay
<1>4. CASE control' = control
  <2>1. Unanswered'
    BY <1>1, <1>2, <1>4 DEF Unanswered
  <2>2. Opined'
    BY <1>1, <1>3, <1>4 DEF Opined
  <2> QED
    BY <2>1, <2>2
<1>5. CASE /\ at[r] = "probing" /\ at'[r] = "done"
           /\ \E a \in Controls : control' = [control EXCEPT ![HostOf[r]] = a]
  <2>1. HoldsControl(r) /\ ~HoldsControl(r)' /\ control[HostOf[r]] = "none"
    BY <1>5 DEF HoldsControl, Unanswered
  <2>2. \A h \in Host : h # HostOf[r] => control'[h] = control[h]
    BY <1>0, <1>5
  <2>3. \A p \in Row \ {r} : HostOf[p] = HostOf[r] => ~HoldsControl(p)
    BY <2>1 DEF Exclusive
  <2>4. Unanswered'
    BY <1>0, <1>1, <2>1, <2>2, <2>3 DEF Unanswered
  <2>5. \A v, c : Agrees(v, "none") => Agrees(v, c)
    BY DEF Agrees
  <2>6. \A p \in Row : HostOf[p] = HostOf[r] => Agrees(verdict[p], control'[HostOf[p]])
    BY <2>1, <2>5 DEF Opined
  <2>7. \A p \in Row : HostOf[p] # HostOf[r] => Agrees(verdict[p], control'[HostOf[p]])
    BY <1>0, <2>2 DEF Opined
  <2>8. Opined'
    BY <1>1, <1>3, <2>6, <2>7 DEF Opined
  <2> QED
    BY <2>4, <2>8
<1> QED
  BY <1>4, <1>5 DEF StepFacts, Spends

LEMMA SlotsStep ==
  ASSUME EnrichmentAssumption, TypeOK, SlotsKept, NEW r \in Row, StepFacts(r)
  PROVE  SlotsKept'
<1>1. InSlots' \subseteq InSlots \union {r}
  BY OthersStay DEF InSlots, HoldsSlot
<1>2. r \in InSlots' => r \in InSlots \/ Cardinality(InSlots) < CONCURRENCY
  BY DEF StepFacts, Enters, InSlots, SlotFree
<1>3. IsFiniteSet(InSlots) /\ Cardinality(InSlots) \in Nat /\ CONCURRENCY \in Nat
  <2>1. IsFiniteSet(Row) /\ InSlots \in SUBSET Row
    BY DEF EnrichmentAssumption, InSlots
  <2>2. IsFiniteSet(InSlots)
    BY <2>1, FS_Subset
  <2> QED
    BY <2>2, FS_CardinalityType DEF EnrichmentAssumption
<1>4. CASE InSlots' \subseteq InSlots
  <2>1. Cardinality(InSlots') <= Cardinality(InSlots) /\ Cardinality(InSlots') \in Nat
    BY <1>3, <1>4, FS_Subset, FS_CardinalityType
  <2> QED
    BY <1>3, <2>1 DEF SlotsKept
<1>5. CASE ~(InSlots' \subseteq InSlots)
  <2>1. r \in InSlots' /\ r \notin InSlots
    BY <1>1, <1>5
  <2>2. IsFiniteSet(InSlots \union {r}) /\ Cardinality(InSlots \union {r}) = Cardinality(InSlots) + 1
    BY <1>3, <2>1, FS_AddElement
  <2>3. IsFiniteSet(InSlots') /\ Cardinality(InSlots') <= Cardinality(InSlots \union {r})
    BY <1>1, <2>2, FS_Subset
  <2>4. Cardinality(InSlots') \in Nat
    BY <2>3, FS_CardinalityType
  <2>5. Cardinality(InSlots') <= CONCURRENCY
    BY <1>2, <1>3, <2>1, <2>2, <2>3, <2>4
  <2> QED
    BY <2>5 DEF SlotsKept
<1> QED
  BY <1>4, <1>5

LEMMA SpendStep ==
  ASSUME EnrichmentAssumption, TypeOK, Exclusive, Rendered, Chosen, Probed,
         NEW r \in Row, StepFacts(r)
  PROVE  Rendered' /\ Chosen' /\ Probed'
<1>1. Rendered'
  BY DEF StepFacts, Spends, Rendered
<1>2. Chosen'
  <2>1. r \in Target
    BY DEF StepFacts, Enters, Chosen
  <2>2. asked' \subseteq ToFetch
    BY <2>1 DEF StepFacts, Spends, Chosen, ToFetch
  <2>3. \A p \in Row : at'[p] # "out" => p \in Target
    BY <2>1, OthersStay DEF Chosen
  <2> QED
    BY <2>2, <2>3 DEF Chosen
<1>3. Probed'
  <2> DEFINE h == HostOf[r]
  <2>0. /\ h \in Host /\ HostOf \in [Row -> Host]
        /\ \A g \in Host : probes[g] \in Nat /\ tries[g] \in Nat
    BY DEF EnrichmentAssumption, TypeOK
  <2>1. \A p \in Row \ {r} : at'[p] = at[p]
    BY OthersStay
  <2>2. CASE UNCHANGED <<tries, probes>> /\ at'[r] # "probeQueued"
    BY <2>1, <2>2 DEF Probed
  <2>3. CASE /\ ControlFree(r) /\ tries' = [tries EXCEPT ![h] = @ + 1]
             /\ \/ at'[r] = "probeQueued" /\ probes' = probes
                \/ at'[r] = "probing" /\ probes' = [probes EXCEPT ![h] = @ + 1]
    <3>1. \A p \in Row \ {r} : at[p] = "probeQueued" => HostOf[p] # h
      BY <2>3 DEF ControlFree, Peers, HoldsControl
    <3>2. \A g \in Host : /\ tries'[g] = IF g = h THEN tries[g] + 1 ELSE tries[g]
                          /\ probes'[g] = IF g = h /\ at'[r] = "probing" THEN probes[g] + 1
                                          ELSE probes[g]
      BY SMTT(30), <2>0, <2>3 DEF TypeOK
    <3>3. \A g \in Host : probes'[g] <= tries'[g]
      BY SMTT(30), <2>0, <3>2 DEF Probed
    <3>4. at'[r] = "probeQueued" => probes'[h] < tries'[h]
      BY <2>0, <3>2 DEF Probed
    <3>5. \A p \in Row \ {r} : at'[p] = "probeQueued" => probes'[HostOf[p]] < tries'[HostOf[p]]
      BY <2>0, <2>1, <3>1, <3>2 DEF Probed
    <3> QED
      BY <3>3, <3>4, <3>5 DEF Probed
  <2>4. CASE /\ at[r] = "probeQueued" /\ at'[r] = "probing" /\ tries' = tries
             /\ probes' = [probes EXCEPT ![h] = @ + 1]
    <3>1. \A p \in Row \ {r} : at[p] = "probeQueued" => HostOf[p] # h
      BY <2>4 DEF Exclusive, HoldsControl
    <3>2. \A g \in Host : probes'[g] = IF g = h THEN probes[g] + 1 ELSE probes[g]
      BY <2>0, <2>4 DEF TypeOK
    <3>3. \A g \in Host : probes'[g] <= tries'[g]
      BY <2>0, <2>4, <3>2 DEF Probed
    <3>4. \A p \in Row \ {r} : at'[p] = "probeQueued" => probes'[HostOf[p]] < tries'[HostOf[p]]
      BY <2>0, <2>1, <2>4, <3>1, <3>2 DEF Probed
    <3> QED
      BY <2>4, <3>3, <3>4 DEF Probed
  <2> QED
    BY <2>2, <2>3, <2>4 DEF StepFacts, Spends
<1> QED
  BY <1>1, <1>2, <1>3
-----------------------------------------------------------------------------
LEMMA Stay ==
  ASSUME EnrichmentAssumption, IInv, Tick \/ UNCHANGED vars
  PROVE  IInv' /\ at' = at
<1>1. /\ UNCHANGED <<rowVars, last, controlVars, browserLeft, asked, told, renders>>
      /\ backoff' = [h \in Host |-> IF backoff[h] > 0 THEN backoff[h] - 1 ELSE 0] \/ backoff' = backoff
  BY DEF Tick, vars, rowVars, controlVars
<1>2. backoff' \in [Host -> Nat]
  BY SMTT(30), <1>1 DEF IInv, TypeOK
<1>3. TypeOK'
  BY <1>1, <1>2 DEF IInv, TypeOK, rowVars, controlVars
<1>4. Paged' /\ Exclusive' /\ Unanswered' /\ Opined'
  BY <1>1 DEF IInv, rowVars, controlVars, Paged, Exclusive, Unanswered, Opined, HoldsHost,
              HoldsControl
<1>5. SlotsKept' /\ Rendered' /\ Chosen' /\ Probed'
  BY <1>1 DEF IInv, rowVars, controlVars, SlotsKept, InSlots, HoldsSlot, Rendered, Chosen, Probed
<1> QED
  BY <1>1, <1>3, <1>4, <1>5 DEF IInv, rowVars

LEMMA Step == EnrichmentAssumption /\ IInv /\ [Next]_vars => IInv'
<1> SUFFICES ASSUME EnrichmentAssumption, IInv, [Next]_vars
             PROVE  IInv'
  OBVIOUS
<1>1. ASSUME NEW r \in Row, RowNext(r) PROVE IInv'
  <2>1. StepFacts(r)
    BY <1>1, RowStep DEF IInv
  <2> QED
    BY <2>1, TypeStep, ExclusiveStep, OpinionStep, SlotsStep, SpendStep DEF IInv
<1> QED
  BY <1>1, Stay DEF Next

(* The inductive invariant: locks and slots are held by one and by few,    *)
(* the counters account for what was started.                              *)
THEOREM Invariant ==
  ASSUME EnrichmentAssumption
  PROVE  Spec => []IInv
<1>1. Init => IInv
  BY TypeInit, PartsInit DEF IInv
<1> QED
  BY <1>1, Step, PTL DEF Spec

(* Every variable of the phase keeps its type (the locals of                *)
(* enrich_profiles and the shared RetrievalState).                         *)
THEOREM TypeCorrect ==
  ASSUME EnrichmentAssumption
  PROVE  Spec => []TypeOK
<1>1. IInv => TypeOK
  BY DEF IInv
<1> QED
  BY <1>1, Invariant, PTL

(* enrich_profiles.work's "one fetch at a time per host", for any rows and *)
(* hosts; and control_for's cache: the opinions on a host's rows share one *)
(* control, because nobody asks for another while one is on its way.       *)
THEOREM HostsAreFetchedOneByOne ==
  ASSUME EnrichmentAssumption
  PROVE  Spec => []OneFetchPerHost
<1>1. IInv => OneFetchPerHost
  <2> SUFFICES ASSUME IInv
               PROVE  OneFetchPerHost
    OBVIOUS
  <2>1. \A r \in Row : Kind[r] = "page" /\ at[r] \in InFlight \ {"probing"} => HoldsHost(r)
    BY DEF HoldsHost, Main, InFlight
  <2> QED
    BY <2>1 DEF IInv, Exclusive, Opined, Agrees, OneFetchPerHost
<1> QED
  BY <1>1, Invariant, PTL

(* The limits of a phase: the semaphore, the browser budget, the number of *)
(* profiles fetched and of controls tried, for all their values.           *)
THEOREM LimitsAreKept ==
  ASSUME EnrichmentAssumption
  PROVE  Spec => []BoundsKept
<1>1. IInv => BoundsKept
  <2> SUFFICES ASSUME IInv
               PROVE  BoundsKept
    OBVIOUS
  <2>1. {r \in Row : at[r] \in {"get", "tls", "browser", "probing"}} = InSlots
    BY DEF InSlots, HoldsSlot, Main
  <2>2. renders <= STEALTH_BUDGET
    BY DEF IInv, TypeOK, Rendered, EnrichmentAssumption
  <2>3. Cardinality(asked) <= VERIFY_BUDGET
    <3>1. IsFiniteSet(asked) /\ Cardinality(asked) <= Cardinality(ToFetch)
      BY BudgetBounds, FS_Subset DEF IInv, Chosen
    <3>2. Cardinality(asked) \in Nat /\ Cardinality(ToFetch) \in Nat /\ VERIFY_BUDGET \in Nat
      BY <3>1, BudgetBounds, FS_CardinalityType DEF EnrichmentAssumption
    <3> QED
      BY <3>1, <3>2, BudgetBounds
  <2>4. \A h \in Host : probes[h] <= CONTROL_MAX_ATTEMPTS
    BY DEF IInv, TypeOK, Probed, EnrichmentAssumption
  <2> QED
    BY <2>1, <2>2, <2>3, <2>4 DEF IInv, SlotsKept, BoundsKept
<1> QED
  BY <1>1, Invariant, PTL

(* retrieval.fetch tests the backoff where it launches the request, so no  *)
(* wait for a lock or a slot lets a conversation begin with a host that    *)
(* asked to slow down meanwhile.                                           *)
THEOREM BackoffIsRespected ==
  ASSUME EnrichmentAssumption
  PROVE  Spec => NoNewConversation
<1>1. IInv /\ [Next]_vars => [\A r \in Row : Opens(r) => backoff[HostOf[r]] = 0]_vars
  <2> SUFFICES ASSUME IInv, [Next]_vars, NEW r \in Row, Opens(r)
               PROVE  backoff[HostOf[r]] = 0
    OBVIOUS
  <2>1. at' # at
    BY DEF Opens
  <2>2. PICK p \in Row : RowNext(p)
    BY <2>1, Stay DEF Next
  <2>3. StepFacts(p)
    BY <2>2, RowStep DEF IInv
  <2>4. p = r
    BY <2>3, OthersStay DEF IInv, Opens
  <2> QED
    BY <2>3, <2>4 DEF StepFacts, Enters
<1> QED
  BY <1>1, Invariant, PTL DEF Spec, NoNewConversation

-----------------------------------------------------------------------------
(* The way of a row: what its step does to its place and its verdict.      *)
Turns(r) ==
  /\ Stage(at[r]) < Stage(at'[r])
  /\ IF at'[r] = "done" THEN verdict'[r].is # "none" ELSE verdict' = verdict

LEMMA Formed ==
  /\ NoVerdict.is = "none" /\ NotExamined.is # "none"
  /\ \A c : Judged(c).is # "none" /\ Indeterminate(c).is # "none" /\ Absent(c).is # "none"
  /\ \A a, f : RateLimited(a, f).is # "none"
BY DEF NoVerdict, NotExamined, Judged, Indeterminate, Absent, RateLimited

LEMMA Concluding ==
  ASSUME TypeOK, NEW r \in Row, NEW v, v.is # "none", Conclude(r, v), at[r] # "done"
  PROVE  Turns(r)
<1>1. at[r] \in Places /\ at' = [at EXCEPT ![r] = "done"] /\ verdict' = [verdict EXCEPT ![r] = v]
  BY DEF TypeOK, Conclude, Goto
<1>2. at'[r] = "done" /\ verdict'[r] = v
  BY <1>1 DEF TypeOK
<1>3. Stage(at[r]) < Stage("done")
  BY <1>1 DEF Places, Stage
<1> QED
  BY <1>2, <1>3 DEF Turns

LEMMA Going ==
  ASSUME TypeOK, NEW r \in Row, NEW x \in Places \ {"done"}, Goto(r, x), verdict' = verdict,
         Stage(at[r]) < Stage(x)
  PROVE  Turns(r)
<1>1. at'[r] = x
  BY DEF TypeOK, Goto
<1> QED
  BY <1>1 DEF Turns

LEMMA LaunchTurns ==
  ASSUME TypeOK, NEW r \in Row, NEW wasLate, Launch(r, wasLate), at[r] \in {"new", "queued"}
  PROVE  Turns(r)
<1>1. CASE backoff[HostOf[r]] > 0
  <2> DEFINE v == IF Kind[r] = "page" THEN RateLimited(last[HostOf[r]], ~wasLate)
                  ELSE IF last[HostOf[r]] = "gone" THEN Absent("none")
                  ELSE Indeterminate("none")
  <2>1. Conclude(r, v)
    BY <1>1 DEF Launch, Unasked
  <2>2. v.is # "none"
    BY Formed
  <2> HIDE DEF v
  <2> QED
    BY <2>1, <2>2, Concluding
<1>2. CASE ~(backoff[HostOf[r]] > 0)
  <2>1. Goto(r, "get") /\ verdict' = verdict
    BY <1>2 DEF Launch, Send
  <2>2. Stage(at[r]) < Stage("get")
    BY DEF Stage
  <2> QED
    BY <2>1, <2>2, Going DEF Places
<1> QED
  BY <1>1, <1>2

LEMMA JudgeTurns ==
  ASSUME TypeOK, NEW r \in Row, NEW c, Judge(r, c), at[r] # "done"
  PROVE  Turns(r)
<1> DEFINE v == CASE kept[r] = "gone" -> Absent(c)
                  [] Readable(kept[r]) /\ kept[r] # "gone" -> Judged(c)
                  [] OTHER -> Indeterminate(c)
<1>1. Conclude(r, v)
  BY DEF Judge
<1>2. v.is # "none"
  BY Formed
<1> HIDE DEF v
<1> QED
  BY <1>1, <1>2, Concluding

LEMMA LimitTurns ==
  ASSUME TypeOK, NEW r \in Row, NEW ticks, LimitRow(r, ticks), at[r] # "done"
  PROVE  Turns(r)
BY Formed, Concluding DEF LimitRow

LEMMA SettleTurns ==
  ASSUME TypeOK, NEW r \in Row, NEW answer, Settle(r, answer),
         at[r] \in {"get", "tls", "browser", "shellTls", "shellBrowser"}
  PROVE  Turns(r)
<1>1. Goto(r, "probe") /\ verdict' = verdict
  BY DEF Settle
<1>2. Stage(at[r]) < Stage("probe")
  BY DEF Stage
<1> QED
  BY <1>1, <1>2, Going DEF Places

LEMMA AdoptTurns ==
  ASSUME TypeOK, NEW r \in Row, NEW answer, Adopt(r, answer),
         at[r] \in {"tls", "browser", "shellTls", "shellBrowser"}
  PROVE  Turns(r)
<1>1. CASE answer = "limited"
  BY <1>1, LimitTurns DEF Adopt
<1>2. CASE answer = "none" /\ kept[r] = "blank"
  <2>1. Goto(r, "probe") /\ verdict' = verdict
    BY <1>2 DEF Adopt
  <2>2. Stage(at[r]) < Stage("probe")
    BY DEF Stage
  <2> QED
    BY <2>1, <2>2, Going DEF Places
<1>3. CASE answer # "limited" /\ ~(answer = "none" /\ kept[r] = "blank")
  <2>1. Settle(r, kept[r]) \/ Settle(r, answer)
    BY <1>3 DEF Adopt
  <2> QED
    BY <2>1, SettleTurns
<1> QED
  BY <1>1, <1>2, <1>3

LEMMA ProbeTurns ==
  ASSUME TypeOK, NEW r \in Row, Probe(r) \/ GetProbeSlot(r)
  PROVE  Turns(r)
<1>1. at[r] \in {"probe", "probeQueued"}
  BY DEF Probe, GetProbeSlot
<1>2. \/ \E c : Judge(r, c)
      \/ Goto(r, "probing") /\ verdict' = verdict
      \/ at[r] = "probe" /\ Goto(r, "probeQueued") /\ verdict' = verdict
  <2>1. CASE Probe(r)
    BY <2>1 DEF Probe, SendProbe
  <2>2. CASE GetProbeSlot(r)
    BY <2>2 DEF GetProbeSlot, LaunchProbe, SendProbe
  <2> QED
    BY <2>1, <2>2
<1>3. Stage(at[r]) < Stage("probing") /\ Stage("probe") < Stage("probeQueued")
  BY <1>1 DEF Stage
<1>4. {"probing", "probeQueued"} \subseteq Places \ {"done"}
  BY DEF Places
<1> QED
  BY <1>1, <1>2, <1>3, <1>4, JudgeTurns, Going

LEMMA PageTurns ==
  ASSUME TypeOK, NEW r \in Row, NEW answer, PageAnswers(r, answer)
  PROVE  Turns(r)
<1>1. at[r] = "get"
  BY DEF PageAnswers
<1>2. \/ \E ticks : LimitRow(r, ticks)
      \/ Goto(r, "tls") /\ verdict' = verdict
      \/ Goto(r, "shellTls") /\ verdict' = verdict
      \/ Settle(r, answer)
  <2>1. CASE answer = "limited"
    BY <2>1 DEF PageAnswers, Escalatable
  <2>2. CASE answer # "limited" /\ Stealth /\ Escalatable(answer)
    BY <2>2 DEF PageAnswers, Climb
  <2>3. CASE answer # "limited" /\ ~(Stealth /\ Escalatable(answer)) /\ Stealth /\ answer = "shell"
    BY <2>3 DEF PageAnswers, Climb
  <2>4. CASE answer # "limited" /\ ~(Stealth /\ Escalatable(answer)) /\ ~(Stealth /\ answer = "shell")
    BY <2>4 DEF PageAnswers
  <2> QED
    BY <2>1, <2>2, <2>3, <2>4
<1>3. Stage(at[r]) < Stage("tls") /\ Stage(at[r]) < Stage("shellTls")
  BY <1>1 DEF Stage
<1>4. {"tls", "shellTls"} \subseteq Places \ {"done"}
  BY DEF Places
<1> QED
  BY <1>1, <1>2, <1>3, <1>4, LimitTurns, SettleTurns, Going

LEMMA TierTurns ==
  ASSUME TypeOK, NEW r \in Row, NEW answer, TlsAnswers(r, answer) \/ BrowserAnswers(r, answer)
  PROVE  Turns(r)
<1>1. CASE Adopt(r, answer)
  BY <1>1, AdoptTurns DEF TlsAnswers, BrowserAnswers
<1>2. CASE ~Adopt(r, answer)
  <2>1. /\ at[r] \in {"tls", "shellTls"} /\ verdict' = verdict
        /\ Goto(r, IF at[r] = "tls" THEN "browser" ELSE "shellBrowser")
    BY <1>2 DEF TlsAnswers, BrowserAnswers
  <2>2. Stage(at[r]) < Stage("browser") /\ Stage(at[r]) < Stage("shellBrowser")
    BY <2>1 DEF Stage
  <2> QED
    BY <2>1, <2>2, Going DEF Places
<1> QED
  BY <1>1, <1>2

LEMMA RowTurns ==
  ASSUME TypeOK, NEW r \in Row, RowNext(r)
  PROVE  Turns(r)
<1>1. CASE Denied(r)
  BY <1>1, Formed, Concluding DEF Denied
<1>2. CASE AskAdapter(r)
  <2>1. CASE r \in Known
    BY <1>2, <2>1, Formed, Concluding DEF AskAdapter
  <2>2. CASE r \notin Known
    BY <1>2, <2>2, LaunchTurns DEF AskAdapter
  <2> QED
    BY <2>1, <2>2
<1>3. CASE Enter(r)
  <2>1. CASE SlotAtOnce
    BY <1>3, <2>1, LaunchTurns DEF Enter
  <2>2. CASE ~SlotAtOnce
    <3>1. at[r] = "new" /\ Goto(r, "queued") /\ verdict' = verdict
      BY <1>3, <2>2 DEF Enter
    <3>2. Stage("new") < Stage("queued")
      BY DEF Stage
    <3> QED
      BY <3>1, <3>2, Going DEF Places
  <2> QED
    BY <2>1, <2>2
<1>4. CASE GetSlot(r)
  BY <1>4, LaunchTurns DEF GetSlot
<1>5. ASSUME NEW answer, AdapterAnswers(r, answer)
      PROVE  Turns(r)
  <2> DEFINE v == CASE answer = "page" -> Judged("none")
                    [] Denies(answer) -> Absent("none")
                    [] OTHER -> Indeterminate("none")
  <2>1. at[r] = "get" /\ Conclude(r, v)
    BY <1>5 DEF AdapterAnswers
  <2>2. v.is # "none"
    BY Formed
  <2> HIDE DEF v
  <2> QED
    BY <2>1, <2>2, Concluding
<1>6. ASSUME NEW answer, ProbeAnswers(r, answer)
      PROVE  Turns(r)
  <2>1. at[r] = "probing" /\ \E c : Judge(r, c)
    BY <1>6 DEF ProbeAnswers
  <2> QED
    BY <2>1, JudgeTurns
<1> QED
  BY <1>1, <1>2, <1>3, <1>4, <1>5, <1>6, ProbeTurns, PageTurns, TierTurns DEF RowNext, TierNext

(* A row ends with its verdict and gets none before; what is to be         *)
(* examined is on its way.                                                 *)
OnTheWay ==
  \A r \in Row : /\ r \in Target => at[r] # "out"
                 /\ at[r] = "done" => verdict[r].is # "none"
                 /\ at[r] \notin {"out", "done"} => verdict[r].is = "none"

(* One row stands for a URL: what is skipped is no target.                 *)
LEMMA NoTargetIsSkipped ==
  ASSUME EnrichmentAssumption
  PROVE  \A r \in Target : r \notin Skipped
<1> SUFFICES ASSUME NEW i \in DOMAIN Order, NEW j \in DOMAIN Order, Order[i] = Order[j],
                    Fresh(i), Budgeted(i) \/ ~Fetched(i), Fetched(j), ~Budgeted(j)
             PROVE  FALSE
  BY DEF Target, Skipped
<1>1. i \in Nat \ {0} /\ j \in Nat \ {0}
  BY DEF EnrichmentAssumption
<1>2. ~(i < j) /\ ~(j < i)
  BY <1>1 DEF Fetched, Fresh
<1>3. i = j
  BY <1>1, <1>2
<1> QED
  BY <1>3

LEMMA OnTheWayInit == EnrichmentAssumption /\ Init => OnTheWay
<1> SUFFICES ASSUME EnrichmentAssumption, Init, NEW r \in Row
             PROVE  /\ r \in Target => at[r] # "out"
                    /\ at[r] = "done" => verdict[r].is # "none"
                    /\ at[r] \notin {"out", "done"} => verdict[r].is = "none"
  BY DEF OnTheWay
<1>1. at[r] = IF r \in Target THEN "new" ELSE "out"
  BY DEF Init
<1>2. r \in Target => verdict[r] = NoVerdict
  BY NoTargetIsSkipped DEF Init
<1> QED
  BY <1>1, <1>2, Formed

(* Nothing comes after the end, nor before the beginning.                  *)
LEMMA TurnsFrom ==
  ASSUME TypeOK, NEW r \in Row, Turns(r), StepFacts(r)
  PROVE  at[r] # "out" /\ at'[r] # "out" /\ at[r] # "done"
<1>1. at[r] # "out" /\ at'[r] # "out"
  BY DEF StepFacts, Enters
<1>2. at'[r] \in Places
  BY OthersStay
<1>3. ~(Stage("done") < Stage(at'[r]))
  BY <1>2 DEF Places, Stage
<1> QED
  BY <1>1, <1>3 DEF Turns

LEMMA OnTheWayStep ==
  ASSUME EnrichmentAssumption, IInv, OnTheWay, [Next]_vars
  PROVE  OnTheWay'
<1>1. ASSUME NEW r \in Row, RowNext(r)
      PROVE  OnTheWay'
  <2>1. Turns(r) /\ StepFacts(r)
    BY <1>1, RowTurns, RowStep DEF IInv
  <2>2. \A p \in Row \ {r} : at'[p] = at[p] /\ verdict'[p] = verdict[p]
    BY <2>1, OthersStay DEF IInv
  <2>3. at[r] # "out" /\ at'[r] # "out" /\ at[r] # "done"
    BY <2>1, TurnsFrom DEF IInv
  <2> QED
    BY <2>1, <2>2, <2>3 DEF OnTheWay, Turns
<1>2. CASE Tick \/ UNCHANGED vars
  <2>1. at' = at /\ verdict' = verdict
    BY <1>2 DEF Tick, vars, rowVars
  <2> QED
    BY <2>1 DEF OnTheWay
<1> QED
  BY <1>1, <1>2 DEF Next

THEOREM KeepsOnTheWay ==
  ASSUME EnrichmentAssumption
  PROVE  Spec => []OnTheWay
<1>1. EnrichmentAssumption
  OBVIOUS
<1>2. Init => OnTheWay
  BY OnTheWayInit
<1>3. IInv /\ OnTheWay /\ [Next]_vars => OnTheWay'
  BY OnTheWayStep
<1> QED
  BY <1>2, <1>3, Invariant, PTL DEF Spec

(* enrich_profiles takes the host's lock, then a slot, gives the slot back *)
(* to render a shell, and the host's back before it asks for the control's *)
(* lock and a slot again: no rows ever wait for one another in a circle.   *)
(* If none can go on, none is in flight, so that all slots and locks are   *)
(* free, so that nobody waits.                                             *)
THEOREM NoCircleOfWaiting ==
  ASSUME EnrichmentAssumption
  PROVE  Spec => []SomebodyGoesOn
<1>1. IInv /\ OnTheWay => SomebodyGoesOn
  <2> SUFFICES ASSUME IInv, OnTheWay, \A r \in Row : ~CanGoOn(r), NEW t \in Target
               PROVE  verdict[t].is # "none"
    BY DEF SomebodyGoesOn
  <2>1. \A r \in Row : at[r] \notin InFlight
    BY DEF CanGoOn
  <2>2. SlotFree
    <3>1. {r \in Row : HoldsSlot(r)} = {}
      BY <2>1 DEF HoldsSlot, Main, InFlight
    <3>2. Cardinality({r \in Row : HoldsSlot(r)}) = 0
      BY <3>1, FS_EmptySet
    <3> QED
      BY <3>2 DEF SlotFree, EnrichmentAssumption
  <2>3. \A r \in Row : ~Waits(r)
    BY <2>2 DEF CanGoOn
  <2>4. \A r \in Row : HostFree(r) /\ ControlFree(r)
    BY <2>1, <2>3 DEF HostFree, ControlFree, Peers, HoldsHost, HoldsControl, Main, Waits, InFlight
  <2>5. \A r \in Row : at[r] # "new" /\ at[r] # "probe"
    BY <2>2, <2>4 DEF CanGoOn
  <2>6. t \in Row
    BY DEF Target, EnrichmentAssumption
  <2>7. at[t] \in Places
    BY <2>6 DEF IInv, TypeOK
  <2>8. at[t] \in {"out", "done"}
    BY <2>1, <2>3, <2>5, <2>6, <2>7 DEF Places, InFlight, Waits
  <2> QED
    BY <2>6, <2>8 DEF OnTheWay
<1> QED
  BY <1>1, Invariant, KeepsOnTheWay, PTL

(* A row's task goes through fetch, ladder and control_for once, forward;  *)
(* its verdict is formed at the end and is never replaced.  So a phase has *)
(* at most as many steps as its rows have places to go through.            *)
THEOREM RowsOnlyMoveOn ==
  ASSUME EnrichmentAssumption
  PROVE  Spec => RowsMoveOn
<1>1. ASSUME IInv, OnTheWay, [Next]_vars
      PROVE  [/\ (\E r \in Row : RowMoves(r)) \/ OnlyTimePasses
              /\ \A r \in Row : verdict[r].is # "none" => verdict'[r] = verdict[r]]_vars
  <2>1. ASSUME NEW r \in Row, RowNext(r)
        PROVE  RowMoves(r) /\ \A p \in Row : verdict[p].is # "none" => verdict'[p] = verdict[p]
    <3>1. Turns(r) /\ StepFacts(r)
      BY <1>1, <2>1, RowTurns, RowStep DEF IInv
    <3>2. \A p \in Row \ {r} : at'[p] = at[p] /\ verdict'[p] = verdict[p]
      BY <1>1, <3>1, OthersStay DEF IInv
    <3>3. verdict[r].is = "none"
      BY <1>1, <3>1, TurnsFrom DEF IInv, OnTheWay
    <3> QED
      BY <3>1, <3>2, <3>3 DEF RowMoves, Turns
  <2>2. CASE Tick
    BY <2>2 DEF Tick, OnlyTimePasses, rowVars
  <2> QED
    BY <1>1, <2>1, <2>2 DEF Next
<1>2. IInv /\ OnTheWay /\ [Next]_vars =>
        [/\ (\E r \in Row : RowMoves(r)) \/ OnlyTimePasses
         /\ \A r \in Row : verdict[r].is # "none" => verdict'[r] = verdict[r]]_vars
  BY <1>1
<1> QED
  BY <1>2, Invariant, KeepsOnTheWay, PTL DEF Spec, RowsMoveOn
=============================================================================
