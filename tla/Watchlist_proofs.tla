--------------------------- MODULE Watchlist_proofs ---------------------------
(***************************************************************************)
(* Theorems about Watchlist, for any number of watches, any keys, any batch *)
(* size and interval.                                                      *)
(***************************************************************************)
EXTENDS Watchlist, SequenceTheorems, TLAPS

(* A row that is not there has the values of a new one. *)
Blank ==
  \A w \in Watch \ watches :
    /\ enabled[w] = TRUE /\ ran[w] = FALSE /\ age[w] = 0
    /\ signature[w] = {} /\ baseline[w] = {} /\ paused[w] = FALSE

(* The batch holds rows of its own, each with the signature its watch has  *)
(* had since; what is in a signature was found when it was last decided.   *)
Batched ==
  /\ \A i, j \in DOMAIN batch : i # j => batch[i].watch # batch[j].watch
  /\ \A i \in DOMAIN batch :
       /\ batch[i].watch <= created
       /\ batch[i].watch \in watches => batch[i].signature = signature[batch[i].watch]
       /\ \A k \in batch[i].signature : verdict[batch[i].watch][k] = "found"

Known == \A w \in Watch : \A k \in signature[w] : verdict[w][k] = "found"

(* Time since the last scan: never less than since the stamp; what waits   *)
(* in the batch has waited its interval.                                   *)
Rested ==
  /\ \A w \in watches : rest[w] >= IF ran[w] THEN age[w] ELSE Interval
  /\ \A w \in Watch : w > created => rest[w] = Interval
  /\ \A i \in DOMAIN batch : i > 1 \/ monitor = "stamping" => rest[batch[i].watch] = Interval

(* While nothing failed, a watch that was stamped has a result, or is being *)
(* scanned for it.                                                         *)
Scanned(w) == monitor = "scanning" /\ batch[1].watch = w
Resulted ==
  failures = 0 =>
    /\ \A w \in Watch : (ran[w] /\ ~Scanned(w)) \/ signature[w] # {} => written[w] > 0
    /\ \A i \in DOMAIN batch :
         batch[i].ran \/ batch[i].signature # {} => written[batch[i].watch] > 0
    /\ \A a \in alerts : a.nth > 0

Reported ==
  \A w \in watches : \A k \in signature[w] \ baseline[w] :
    \E a \in alerts : a.watch = w /\ a.key = k /\ a.kind = "new"

(* A deleted watch has no alerts while a run of it is still to end, and     *)
(* those of one result afterwards.                                         *)
Orphans ==
  /\ \A a \in alerts : a.watch <= created
  /\ \A i \in DOMAIN batch :
       batch[i].watch \notin watches => \A a \in alerts : a.watch # batch[i].watch
  /\ \A a, b \in alerts : a.watch = b.watch /\ a.watch \notin watches => a.nth = b.nth

(* One client: nobody toggles between its read and its write.              *)
OneClient == \A c, d \in Client : c = d
Toggled ==
  /\ \A w \in watches : enabled[w] = ~paused[w]
  /\ \A c \in Client : toggling[c] # Idle =>
       /\ toggling[c][1] <= created
       /\ toggling[c][1] \in watches => toggling[c][2] = enabled[toggling[c][1]]
-----------------------------------------------------------------------------
LEMMA BatchTypes ==
  ASSUME TypeOK
  PROVE  /\ Len(batch) \in Nat /\ DOMAIN batch = 1..Len(batch)
         /\ \A i \in DOMAIN batch : i \in Nat /\ batch[i] \in Snap
BY LenProperties, ElementOfSeq DEF TypeOK

(* The batch without its first row. *)
LEMMA BatchTail ==
  ASSUME TypeOK, monitor \in {"stamping", "scanning"}
  PROVE  /\ 1 \in DOMAIN batch /\ Head(batch) = batch[1]
         /\ Tail(batch) \in Seq(Snap)
         /\ \A i \in DOMAIN Tail(batch) :
              i \in Nat /\ i + 1 > 1 /\ i + 1 \in DOMAIN batch /\ Tail(batch)[i] = batch[i + 1]
<1>1. batch \in Seq(Snap) /\ batch # <<>>
  BY DEF TypeOK
<1> QED
  BY <1>1, HeadTailProperties, LenProperties

(* What the monitor reads when it wakes up: rows that are due, each once.  *)
LEMMA TickBatch ==
  ASSUME WatchlistAssumption, TypeOK, Tick
  PROVE  /\ batch' \in Seq(Snap)
         /\ \A i, j \in DOMAIN batch' : i # j => batch'[i].watch # batch'[j].watch
         /\ \A i \in DOMAIN batch' :
              \E w \in watches : Due(w) /\ batch'[i] = Snapshot(w)
<1>0. PICK n \in 0..MAX_WATCHES_PER_TICK : \E ids \in [1..n -> Watch] :
        DueWatches(ids) /\ batch' = [i \in 1..n |-> Snapshot(ids[i])]
  BY DEF Tick
<1>1. PICK ids \in [1..n -> Watch] :
        DueWatches(ids) /\ batch' = [i \in 1..n |-> Snapshot(ids[i])]
  BY <1>0
<1>2. \A i \in 1..n : Due(ids[i]) /\ ids[i] \in watches /\ Snapshot(ids[i]) \in Snap
  BY <1>1 DEF DueWatches, Due, Snapshot, Snap, TypeOK
<1>3. n \in Nat /\ batch' \in [1..n -> Snap]
  BY <1>1, <1>2 DEF WatchlistAssumption
<1>4. batch' \in Seq(Snap)
  BY <1>3, SeqDef
<1>5. \A i, j \in 1..n : i # j => ids[i] # ids[j]
  <2>1. \A i \in 1..n : ids[i] \in Nat
    BY <1>1 DEF Watch, WatchlistAssumption
  <2>2. DOMAIN ids = 1..n /\ \A i, j \in 1..n : i < j => ids[i] < ids[j]
    BY <1>1 DEF DueWatches
  <2> QED
    BY <1>3, <2>1, <2>2
<1> QED
  BY <1>1, <1>2, <1>3, <1>4, <1>5 DEF Snapshot
-----------------------------------------------------------------------------
LEMMA TypeInit == WatchlistAssumption /\ Init => TypeOK
BY EmptySeq DEF WatchlistAssumption, Init, TypeOK, Watch, Verdicts

LEMMA VerdictType ==
  ASSUME NEW was \in Verdicts, NEW k, NEW found, NEW checked
  PROVE  Verdict(was, k, found, checked) \in Verdicts
BY DEF Verdict, Verdicts

LEMMA AlertType ==
  ASSUME TypeOK, NEW w \in Watch, NEW kind \in {"new", "gone"}, NEW keys \in SUBSET Key,
         NEW found, NEW checked
  PROVE  AlertRows(w, kind, keys, found, checked) \subseteq Alert
<1> SUFFICES ASSUME NEW k \in keys
             PROVE  [watch |-> w, kind |-> kind, key |-> k, nth |-> written[w],
                     was |-> verdict[w][k], is |-> Verdict(verdict[w][k], k, found, checked)]
                      \in Alert
  BY DEF AlertRows
<1>1. verdict[w][k] \in Verdicts /\ written[w] \in 0..MaxWritten
  BY DEF TypeOK
<1> QED
  BY <1>1, VerdictType DEF Alert

LEMMA TypeStep ==
  ASSUME WatchlistAssumption, TypeOK, [Next]_vars
  PROVE  TypeOK'
<1> USE DEF WatchlistAssumption
<1>1. CASE CreateWatch
  BY <1>1 DEF CreateWatch, TypeOK, loopVars
<1>2. ASSUME NEW w \in Watch, DeleteWatch(w) PROVE TypeOK'
  BY SMTT(30), <1>2 DEF DeleteWatch, RemoveRow, TypeOK, loopVars
<1>3. ASSUME NEW c \in Client, NEW w \in Watch, ToggleRead(c, w) PROVE TypeOK'
  BY <1>3 DEF ToggleRead, TypeOK, loopVars, rowVars
<1>4. ASSUME NEW c \in Client, ToggleWrite(c) PROVE TypeOK'
  BY <1>4 DEF ToggleWrite, TypeOK, loopVars
<1>5. CASE Pass
  <2>1. lag' \in 0..MaxLag
    BY <1>5 DEF Pass, TypeOK, Least
  <2>2. age' \in [Watch -> 0..Interval]
    BY <1>5 DEF Pass, TypeOK, Least
  <2>3. rest' \in [Watch -> 0..Interval]
    BY <1>5 DEF Pass, TypeOK, Least
  <2> QED
    BY <1>5, <2>1, <2>2, <2>3 DEF Pass, TypeOK, resultVars
<1>6. CASE Tick
  <2>1. batch' \in Seq(Snap)
    BY <1>6, TickBatch
  <2>2. monitor' \in {"asleep", "stamping"} /\ (monitor' = "stamping" <=> batch' # <<>>)
    BY <1>6 DEF Tick
  <2>3. /\ lag' = 0
        /\ UNCHANGED <<rowVars, alerts, rest, toggling, failures, written, verdict, baseline, paused>>
    BY <1>6 DEF Tick
  <2> QED
    BY <2>1, <2>2, <2>3 DEF TypeOK, rowVars
<1>7. CASE Stamp
  <2>1. Head(batch).watch \in Watch
    BY <1>7, BatchTypes, BatchTail DEF Stamp, Snap
  <2>2. ran' \in [Watch -> BOOLEAN] /\ age' \in [Watch -> 0..Interval]
    <3>1. ran' = ran \/ ran' = [ran EXCEPT ![Head(batch).watch] = TRUE]
      BY <1>7 DEF Stamp
    <3>2. age' = age \/ age' = [age EXCEPT ![Head(batch).watch] = 0]
      BY <1>7 DEF Stamp
    <3>3. ran' \in [Watch -> BOOLEAN]
      BY <2>1, <3>1 DEF TypeOK
    <3>4. age \in [Watch -> 0..Interval] /\ 0 \in 0..Interval
      BY DEF TypeOK
    <3>5. age' \in [Watch -> 0..Interval]
      BY <2>1, <3>2, <3>4
    <3> QED
      BY <3>3, <3>5
  <2>3. rest' \in [Watch -> 0..Interval]
    <3>1. rest' = [rest EXCEPT ![Head(batch).watch] = 0]
      BY <1>7 DEF Stamp
    <3> QED
      BY <2>1, <3>1 DEF TypeOK
  <2>4. batch # <<>> /\ batch' = batch /\ monitor' = "scanning"
    BY <1>7 DEF Stamp, TypeOK
  <2>5. UNCHANGED <<created, watches, enabled, batch, lag, toggling, failures, resultVars, paused>>
    BY <1>7 DEF Stamp
  <2> QED
    BY <2>2, <2>3, <2>4, <2>5 DEF TypeOK, resultVars
<1>8. ASSUME NEW found \in SUBSET Key, NEW checked \in SUBSET Key, WriteResult(found, checked)
      PROVE  TypeOK'
  <2> DEFINE w == Head(batch).watch
             old == Head(batch).signature
  <2>1. w \in Watch /\ old \in SUBSET Key /\ Tail(batch) \in Seq(Snap)
    BY <1>8, BatchTypes, BatchTail DEF WriteResult, Snap
  <2>2. /\ AlertRows(w, "new", New(old, found, checked), found, checked) \subseteq Alert
        /\ AlertRows(w, "gone", Gone(old, found, checked), found, checked) \subseteq Alert
    BY <2>1, AlertType DEF New, Gone
  <2>3. alerts' \subseteq Alert
    BY <1>8, <2>2 DEF WriteResult, TypeOK
  <2>4. verdict' \in [Watch -> [Key -> Verdicts]]
    <3>1. \A k \in Key : Verdict(verdict[w][k], k, found, checked) \in Verdicts
      BY <2>1, VerdictType DEF TypeOK
    <3> QED
      BY <1>8, <2>1, <3>1 DEF WriteResult, TypeOK
  <2>5. written' \in [Watch -> 0..MaxWritten]
    BY <1>8, <2>1 DEF WriteResult, TypeOK, Least
  <2>6. signature' \in [Watch -> SUBSET Key] /\ baseline' \in [Watch -> SUBSET Key]
    BY <1>8, <2>1 DEF WriteResult, TypeOK
  <2>7. batch' \in Seq(Snap) /\ (monitor' \in {"stamping", "scanning"} <=> batch' # <<>>)
        /\ monitor' \in {"asleep", "stamping"}
    BY <1>8, <2>1 DEF WriteResult, NextWatch
  <2> QED
    BY <1>8, <2>3, <2>4, <2>5, <2>6, <2>7 DEF WriteResult, NextWatch, TypeOK
<1>9. CASE RunFails
  <2>1. batch' \in Seq(Snap)
    BY <1>9, BatchTail DEF RunFails, NextWatch
  <2> QED
    BY <1>9, <2>1 DEF RunFails, NextWatch, TypeOK, rowVars
<1>10. CASE Crash
  BY <1>10, EmptySeq DEF Crash, TypeOK, rowVars
<1>11. CASE Restart
  BY <1>11 DEF Restart, TypeOK, rowVars
<1>12. CASE UNCHANGED vars
  BY <1>12 DEF vars, rowVars, loopVars, TypeOK
<1> QED
  BY <1>1, <1>2, <1>3, <1>4, <1>5, <1>6, <1>7, <1>8, <1>9, <1>10, <1>11, <1>12
     DEF Next, Monitor, Endpoints

-----------------------------------------------------------------------------
(* What a result changes: the rows of the watch that heads the batch.      *)
LEMMA ResultFacts ==
  ASSUME WatchlistAssumption, TypeOK, NEW found \in SUBSET Key, NEW checked \in SUBSET Key,
         WriteResult(found, checked)
  PROVE  /\ monitor = "scanning" /\ batch[1].watch \in Watch
         /\ batch[1].signature \in SUBSET Key
         /\ 1 \in DOMAIN batch /\ batch' = Tail(batch)
         /\ \A v \in Watch :
              /\ signature'[v] = IF v = batch[1].watch /\ v \in watches THEN found
                                 ELSE signature[v]
              /\ baseline'[v] = IF v = batch[1].watch /\ v \in watches /\ ~batch[1].ran
                                   /\ batch[1].signature = {}
                                THEN found ELSE baseline[v]
              /\ v # batch[1].watch => written'[v] = written[v]
         /\ \A v \in Watch, k \in Key :
              verdict'[v][k] = IF v = batch[1].watch
                               THEN Verdict(verdict[v][k], k, found, checked)
                               ELSE verdict[v][k]
         /\ written'[batch[1].watch] > 0
         /\ UNCHANGED <<created, watches, enabled, ran, age, rest, toggling, failures, paused>>
<1> DEFINE w == batch[1].watch
<1>1. monitor = "scanning" /\ Head(batch) = batch[1] /\ 1 \in DOMAIN batch
  BY BatchTail DEF WriteResult
<1>2. w \in Watch /\ batch[1].signature \in SUBSET Key
  BY <1>1, BatchTypes DEF Snap
<1>3. /\ \A v \in Watch : v # w => written'[v] = written[v]
      /\ written'[w] > 0
  BY <1>1, <1>2 DEF WriteResult, TypeOK, Least, WatchlistAssumption
<1>4. \A v \in Watch : signature'[v] = IF v = w /\ v \in watches THEN found ELSE signature[v]
  <2>1. signature' = IF w \in watches THEN [signature EXCEPT ![w] = found] ELSE signature
    BY <1>1 DEF WriteResult
  <2> QED
    BY <2>1, <1>2 DEF TypeOK
<1>5. \A v \in Watch :
        baseline'[v] = IF v = w /\ v \in watches /\ ~batch[1].ran /\ batch[1].signature = {}
                       THEN found ELSE baseline[v]
  <2>1. baseline' = IF (~batch[1].ran /\ batch[1].signature = {}) /\ w \in watches
                    THEN [baseline EXCEPT ![w] = found] ELSE baseline
    BY <1>1 DEF WriteResult, IsBaseline
  <2> QED
    BY <2>1, <1>2 DEF TypeOK
<1>6. \A v \in Watch, k \in Key :
        verdict'[v][k] = IF v = w THEN Verdict(verdict[v][k], k, found, checked)
                         ELSE verdict[v][k]
  <2>1. verdict' = [verdict EXCEPT ![w] =
                      [k \in Key |-> Verdict(verdict[w][k], k, found, checked)]]
    BY <1>1 DEF WriteResult
  <2> QED
    BY <2>1, <1>2 DEF TypeOK
<1>7. /\ batch' = Tail(batch)
      /\ UNCHANGED <<created, watches, enabled, ran, age, rest, toggling, failures, paused>>
  BY DEF WriteResult, NextWatch
<1> QED
  BY <1>1, <1>2, <1>3, <1>4, <1>5, <1>6, <1>7

(* The alerts of a result. *)
LEMMA ResultAlerts ==
  ASSUME WatchlistAssumption, TypeOK, NEW found \in SUBSET Key, NEW checked \in SUBSET Key,
         WriteResult(found, checked)
  PROVE  /\ alerts \subseteq alerts'
         /\ \A a \in alerts' \ alerts :
              /\ a.watch = batch[1].watch /\ a.nth = written[batch[1].watch]
              /\ batch[1].ran \/ batch[1].signature # {}
              /\ a.kind = "gone" =>
                   /\ a.key \in batch[1].signature /\ a.key \notin found
                   /\ a.key \in checked
                   /\ a.was = verdict[batch[1].watch][a.key]
                   /\ a.is = Verdict(a.was, a.key, found, checked)
<1> DEFINE w == batch[1].watch
           old == batch[1].signature
           silent == ~batch[1].ran /\ old = {}
           news == AlertRows(w, "new", New(old, found, checked), found, checked)
           gones == AlertRows(w, "gone", Gone(old, found, checked), found, checked)
<1>1. Head(batch) = batch[1]
  BY BatchTail DEF WriteResult
<1>2. alerts' = IF silent THEN alerts ELSE UNION {alerts, news, gones}
  BY <1>1 DEF WriteResult, IsBaseline
<1>3. \A a \in news : a.watch = w /\ a.nth = written[w] /\ a.kind = "new"
  BY DEF AlertRows
<1>4. \A a \in gones :
        /\ a.watch = w /\ a.nth = written[w]
        /\ a.key \in old /\ a.key \notin found /\ a.key \in checked
        /\ a.was = verdict[w][a.key]
        /\ a.is = Verdict(verdict[w][a.key], a.key, found, checked)
  BY DEF AlertRows, Gone
<1> HIDE DEF news, gones
<1> QED
  BY <1>2, <1>3, <1>4

LEMMA NewAlerts ==
  ASSUME WatchlistAssumption, TypeOK, NEW found \in SUBSET Key, NEW checked \in SUBSET Key,
         WriteResult(found, checked), NEW k \in found \ batch[1].signature,
         batch[1].ran \/ batch[1].signature # {}
  PROVE  \E a \in alerts' : a.watch = batch[1].watch /\ a.key = k /\ a.kind = "new"
<1> DEFINE w == batch[1].watch
           old == batch[1].signature
           news == AlertRows(w, "new", New(old, found, checked), found, checked)
           gones == AlertRows(w, "gone", Gone(old, found, checked), found, checked)
           a == [watch |-> w, kind |-> "new", key |-> k, nth |-> written[w],
                 was |-> verdict[w][k], is |-> Verdict(verdict[w][k], k, found, checked)]
<1>1. Head(batch) = batch[1]
  BY BatchTail DEF WriteResult
<1>2. alerts' = UNION {alerts, news, gones}
  BY <1>1 DEF WriteResult, IsBaseline
<1>3. a \in news
  BY DEF AlertRows, New
<1>4. a.watch = w /\ a.key = k /\ a.kind = "new"
  OBVIOUS
<1> HIDE DEF a, news, gones
<1> QED
  BY <1>2, <1>3, <1>4
-----------------------------------------------------------------------------
LEMMA BlankStep ==
  ASSUME WatchlistAssumption, TypeOK, Blank, [Next]_vars
  PROVE  Blank'
<1>1. CASE CreateWatch
  BY <1>1 DEF CreateWatch, Blank
<1>2. ASSUME NEW w \in Watch, DeleteWatch(w) PROVE Blank'
  BY <1>2 DEF DeleteWatch, RemoveRow, Blank, TypeOK
<1>3. ASSUME NEW c \in Client, NEW w \in Watch, ToggleRead(c, w) PROVE Blank'
  BY <1>3 DEF ToggleRead, rowVars, Blank
<1>4. ASSUME NEW c \in Client, ToggleWrite(c) PROVE Blank'
  <2>1. \A w \in Watch \ watches : enabled'[w] = enabled[w] /\ paused'[w] = paused[w]
    <3>1. CASE toggling[c][1] \in watches
      BY <1>4, <3>1 DEF ToggleWrite, TypeOK
    <3>2. CASE toggling[c][1] \notin watches
      BY <1>4, <3>2 DEF ToggleWrite
    <3> QED
      BY <3>1, <3>2
  <2> QED
    BY <1>4, <2>1 DEF ToggleWrite, Blank
<1>5. CASE Pass
  BY <1>5 DEF Pass, resultVars, Blank
<1>6. CASE Stamp
  BY ZenonT(30), <1>6 DEF Stamp, resultVars, Blank, TypeOK
<1>7. ASSUME NEW found \in SUBSET Key, NEW checked \in SUBSET Key, WriteResult(found, checked)
      PROVE  Blank'
  <2>1. /\ UNCHANGED <<watches, enabled, ran, age, paused>>
        /\ \A w \in Watch \ watches :
             signature'[w] = signature[w] /\ baseline'[w] = baseline[w]
    BY <1>7, ResultFacts
  <2> QED
    BY <2>1 DEF Blank
<1>8. CASE Tick \/ RunFails \/ Crash \/ Restart \/ UNCHANGED vars
  BY <1>8 DEF Tick, RunFails, Crash, Restart, vars, rowVars, Blank
<1> QED
  BY <1>1, <1>2, <1>3, <1>4, <1>5, <1>6, <1>7, <1>8 DEF Next, Monitor, Endpoints

LEMMA KnownStep ==
  ASSUME WatchlistAssumption, TypeOK, Blank, Known, [Next]_vars
  PROVE  Known'
<1>1. ASSUME NEW w \in Watch, DeleteWatch(w) PROVE Known'
  BY <1>1 DEF DeleteWatch, RemoveRow, Known, TypeOK
<1>2. ASSUME NEW found \in SUBSET Key, NEW checked \in SUBSET Key, WriteResult(found, checked)
      PROVE  Known'
  <2>1. \A u \in Watch : signature'[u] = IF u = batch[1].watch /\ u \in watches THEN found
                                         ELSE signature[u]
    BY <1>2, ResultFacts
  <2>2. \A u \in Watch, j \in Key :
          verdict'[u][j] = IF u = batch[1].watch THEN Verdict(verdict[u][j], j, found, checked)
                           ELSE verdict[u][j]
    BY ZenonT(30), <1>2, ResultFacts
  <2>3. \A was, j : j \in found => Verdict(was, j, found, checked) = "found"
    BY DEF Verdict
  <2> SUFFICES ASSUME NEW v \in Watch, NEW k \in signature'[v]
               PROVE  verdict'[v][k] = "found"
    BY DEF Known
  <2>4. signature[v] \subseteq Key
    BY DEF TypeOK
  <2>5. CASE v = batch[1].watch /\ v \in watches
    BY <2>1, <2>2, <2>3, <2>5
  <2>6. CASE v = batch[1].watch /\ v \notin watches
    BY <2>1, <2>6 DEF Blank
  <2>7. CASE v # batch[1].watch
    BY <2>1, <2>2, <2>4, <2>7 DEF Known
  <2> QED
    BY <2>5, <2>6, <2>7
<1>3. CASE CreateWatch \/ Pass \/ Tick \/ Stamp \/ RunFails \/ Crash \/ Restart \/ UNCHANGED vars
  BY <1>3 DEF CreateWatch, Pass, Tick, Stamp, RunFails, Crash, Restart, vars, rowVars,
              resultVars, Known
<1>4. ASSUME NEW c \in Client, NEW w \in Watch, ToggleRead(c, w) PROVE Known'
  BY <1>4 DEF ToggleRead, rowVars, Known
<1>5. ASSUME NEW c \in Client, ToggleWrite(c) PROVE Known'
  BY <1>5 DEF ToggleWrite, Known
<1> QED
  BY <1>1, <1>2, <1>3, <1>4, <1>5 DEF Next, Monitor, Endpoints

(* A batch is only shortened while a run of it ends. *)
LEMMA TailBatched ==
  ASSUME TypeOK, Batched, monitor \in {"stamping", "scanning"}, batch' = Tail(batch)
  PROVE  /\ \A i, j \in DOMAIN batch' : i # j => batch'[i].watch # batch'[j].watch
         /\ \A i \in DOMAIN batch' :
              /\ i \in Nat /\ i + 1 > 1
              /\ i + 1 \in DOMAIN batch /\ batch'[i] = batch[i + 1]
              /\ batch'[i].watch # batch[1].watch
<1>1. 1 \in DOMAIN batch
      /\ \A i \in DOMAIN batch' :
           i \in Nat /\ i + 1 > 1 /\ i + 1 \in DOMAIN batch /\ batch'[i] = batch[i + 1]
  BY BatchTail
<1>2. \A i, j \in DOMAIN batch : i # j => batch[i].watch # batch[j].watch
  BY DEF Batched
<1>3. \A i, j \in DOMAIN batch' : i # j => i + 1 # j + 1
  BY <1>1
<1> QED
  BY <1>1, <1>2, <1>3

LEMMA BatchedStep ==
  ASSUME WatchlistAssumption, TypeOK, Blank, Known, Batched, [Next]_vars
  PROVE  Batched'
<1>0. \A i \in DOMAIN batch :
        /\ i \in Nat /\ batch[i].watch \in Watch /\ batch[i].signature \in SUBSET Key
        /\ batch[i].watch \in Nat
  BY BatchTypes DEF Snap, Watch, WatchlistAssumption
<1>t. created \in Nat
  BY DEF TypeOK, WatchlistAssumption
<1>1. CASE CreateWatch
  <2>1. /\ created' = created + 1 /\ watches' = watches \union {created + 1}
        /\ UNCHANGED <<batch, signature, verdict>>
    BY <1>1 DEF CreateWatch, loopVars
  <2>2. \A i \in DOMAIN batch : batch[i].watch # created + 1 /\ batch[i].watch <= created + 1
    BY <1>0, <1>t DEF Batched
  <2> QED
    BY <2>1, <2>2 DEF Batched
<1>2. ASSUME NEW w \in Watch, DeleteWatch(w) PROVE Batched'
  <2>1. /\ watches' = watches \ {w} /\ UNCHANGED <<created, batch, verdict>>
        /\ \A v \in Watch : v # w => signature'[v] = signature[v]
    BY <1>2 DEF DeleteWatch, RemoveRow, loopVars, TypeOK
  <2> QED
    BY <1>0, <2>1 DEF Batched
<1>3. CASE Tick
  <2>1. \A i, j \in DOMAIN batch' : i # j => batch'[i].watch # batch'[j].watch
    BY <1>3, TickBatch
  <2>2. ASSUME NEW i \in DOMAIN batch'
        PROVE  /\ batch'[i].watch <= created
               /\ batch'[i].signature = signature[batch'[i].watch]
               /\ \A k \in batch'[i].signature : verdict[batch'[i].watch][k] = "found"
    <3>1. PICK w \in watches : batch'[i] = Snapshot(w)
      BY <1>3, TickBatch
    <3>2. batch'[i].watch = w /\ batch'[i].signature = signature[w]
      BY <3>1 DEF Snapshot
    <3>3. w \in Watch /\ w <= created
      BY <1>t DEF TypeOK, Watch, WatchlistAssumption
    <3> QED
      BY <3>2, <3>3 DEF Known
  <2>3. UNCHANGED <<created, watches, signature, verdict>>
    BY <1>3 DEF Tick, rowVars
  <2> QED
    BY <2>1, <2>2, <2>3 DEF Batched
<1>4. ASSUME NEW found \in SUBSET Key, NEW checked \in SUBSET Key, WriteResult(found, checked)
      PROVE  Batched'
  <2>1. /\ \A v \in Watch : v # batch[1].watch => signature'[v] = signature[v]
        /\ \A v \in Watch, k \in Key : v # batch[1].watch => verdict'[v][k] = verdict[v][k]
        /\ UNCHANGED <<created, watches>>
        /\ batch' = Tail(batch) /\ monitor = "scanning"
    <3>1. \A v \in Watch : v # batch[1].watch => signature'[v] = signature[v]
      BY <1>4, ResultFacts
    <3>2. \A v \in Watch, k \in Key : v # batch[1].watch => verdict'[v][k] = verdict[v][k]
      <4>1. \A v \in Watch, k \in Key :
              verdict'[v][k] = IF v = batch[1].watch
                               THEN Verdict(verdict[v][k], k, found, checked)
                               ELSE verdict[v][k]
        BY ZenonT(30), <1>4, ResultFacts
      <4> QED
        BY <4>1
    <3>3. UNCHANGED <<created, watches>> /\ batch' = Tail(batch) /\ monitor = "scanning"
      BY <1>4, ResultFacts
    <3> QED
      BY <3>1, <3>2, <3>3
  <2>2. \A i, j \in DOMAIN batch' : i # j => batch'[i].watch # batch'[j].watch
    BY <2>1, TailBatched
  <2>3. \A i \in DOMAIN batch' : \E j \in DOMAIN batch :
          batch'[i] = batch[j] /\ batch[j].watch # batch[1].watch
    BY <2>1, TailBatched
  <2>4. ASSUME NEW i \in DOMAIN batch'
        PROVE  /\ batch'[i].watch <= created
               /\ batch'[i].watch \in watches => batch'[i].signature = signature'[batch'[i].watch]
               /\ \A k \in batch'[i].signature : verdict'[batch'[i].watch][k] = "found"
    <3>1. PICK j \in DOMAIN batch : batch'[i] = batch[j] /\ batch[j].watch # batch[1].watch
      BY <2>3
    <3>2. /\ batch[j].watch <= created
          /\ batch[j].watch \in watches => batch[j].signature = signature[batch[j].watch]
          /\ \A k \in batch[j].signature : verdict[batch[j].watch][k] = "found"
      BY DEF Batched
    <3> QED
      BY SMTT(30), <1>0, <2>1, <3>1, <3>2
  <2> QED
    BY <2>1, <2>2, <2>4 DEF Batched
<1>5. CASE RunFails
  <2>1. UNCHANGED <<created, watches, signature, verdict>>
        /\ batch' = Tail(batch) /\ monitor \in {"stamping", "scanning"}
    BY <1>5 DEF RunFails, NextWatch, rowVars
  <2>2. \A i, j \in DOMAIN batch' : i # j => batch'[i].watch # batch'[j].watch
    BY <2>1, TailBatched
  <2>3. \A i \in DOMAIN batch' : \E j \in DOMAIN batch : batch'[i] = batch[j]
    BY <2>1, TailBatched
  <2>4. ASSUME NEW i \in DOMAIN batch'
        PROVE  /\ batch'[i].watch <= created
               /\ batch'[i].watch \in watches => batch'[i].signature = signature[batch'[i].watch]
               /\ \A k \in batch'[i].signature : verdict[batch'[i].watch][k] = "found"
    <3>1. PICK j \in DOMAIN batch : batch'[i] = batch[j]
      BY <2>3
    <3> QED
      BY <3>1 DEF Batched
  <2> QED
    BY <2>1, <2>2, <2>4 DEF Batched
<1>6. CASE Crash
  BY <1>6 DEF Crash, Batched
<1>7. CASE Pass \/ Stamp \/ Restart \/ UNCHANGED vars
  BY <1>7 DEF Pass, Stamp, Restart, vars, rowVars, loopVars, resultVars, Batched
<1>8. ASSUME NEW c \in Client, NEW w \in Watch, ToggleRead(c, w) PROVE Batched'
  BY <1>8 DEF ToggleRead, rowVars, loopVars, Batched
<1>9. ASSUME NEW c \in Client, ToggleWrite(c) PROVE Batched'
  BY <1>9 DEF ToggleWrite, loopVars, Batched
<1> QED
  BY <1>1, <1>2, <1>3, <1>4, <1>5, <1>6, <1>7, <1>8, <1>9 DEF Next, Monitor, Endpoints

LEMMA RestedStep ==
  ASSUME WatchlistAssumption, TypeOK, Blank, Batched, Rested, [Next]_vars
  PROVE  Rested'
<1>0. /\ created \in Nat /\ Interval \in Nat
      /\ \A w \in Watch : w \in Nat /\ rest[w] \in 0..Interval /\ age[w] \in 0..Interval
      /\ \A w \in watches : w \in Watch /\ w <= created
  <2>1. created \in Nat /\ \A w \in watches : w \in Watch /\ w <= created
    BY DEF TypeOK, Watch, WatchlistAssumption
  <2>2. \A w \in Watch : rest[w] \in 0..Interval /\ age[w] \in 0..Interval
    BY DEF TypeOK
  <2> QED
    BY <2>1, <2>2 DEF Watch, WatchlistAssumption
<1>1. \A i \in DOMAIN batch : i \in Nat /\ batch[i].watch \in Watch
  BY BatchTypes DEF Snap
<1>2. CASE CreateWatch
  <2>1. /\ created' = created + 1 /\ watches' = watches \union {created + 1}
        /\ UNCHANGED <<batch, monitor, rest, ran, age>>
    BY <1>2 DEF CreateWatch, loopVars
  <2>2. created + 1 \in Watch
    BY <1>2, <1>0 DEF CreateWatch, Watch, WatchlistAssumption
  <2>3. created + 1 > created /\ created + 1 \notin watches
    BY <1>0
  <2>4. rest[created + 1] = Interval /\ ran[created + 1] = FALSE
    BY <2>2, <2>3 DEF Rested, Blank
  <2>5. \A w \in watches' : rest[w] >= IF ran[w] THEN age[w] ELSE Interval
    BY <2>1, <2>4, <1>0 DEF Rested
  <2>6. \A w \in Watch : w > created + 1 => rest[w] = Interval
    BY <1>0 DEF Rested
  <2> QED
    BY <2>1, <2>5, <2>6 DEF Rested
<1>3. ASSUME NEW w \in Watch, DeleteWatch(w) PROVE Rested'
  <2>1. /\ watches' = watches \ {w} /\ UNCHANGED <<created, batch, monitor, rest>>
        /\ \A v \in Watch : v # w => ran'[v] = ran[v] /\ age'[v] = age[v]
    BY <1>3 DEF DeleteWatch, RemoveRow, loopVars, TypeOK
  <2> QED
    BY <1>0, <2>1 DEF Rested
<1>4. CASE Pass
  <2>1. /\ UNCHANGED <<created, watches, ran, batch, monitor>>
        /\ \A w \in watches : age'[w] = Least(age[w] + 1, Interval)
        /\ \A w \in Watch : rest'[w] = Least(rest[w] + 1, Interval)
    BY <1>0, <1>4 DEF Pass
  <2>2. \A w \in watches : rest'[w] >= IF ran[w] THEN age'[w] ELSE Interval
    BY <1>0, <2>1 DEF Rested, Least
  <2>3. \A w \in Watch : rest[w] = Interval => rest'[w] = Interval
    BY <1>0, <2>1 DEF Least
  <2> QED
    BY <1>1, <2>1, <2>2, <2>3 DEF Rested
<1>5. CASE Tick
  <2>1. UNCHANGED <<created, watches, ran, age, rest>>
    BY <1>5 DEF Tick, rowVars
  <2>2. ASSUME NEW i \in DOMAIN batch' PROVE rest[batch'[i].watch] = Interval
    <3>1. PICK w \in watches : Due(w) /\ batch'[i] = Snapshot(w)
      BY <1>5, TickBatch
    <3>2. batch'[i].watch = w
      BY <3>1 DEF Snapshot
    <3>3. rest[w] >= Interval
      BY <1>0, <3>1 DEF Rested, Due
    <3> QED
      BY <1>0, <3>2, <3>3
  <2> QED
    BY <2>1, <2>2 DEF Rested
<1>6. CASE Stamp
  <2> DEFINE w == batch[1].watch
  <2>1. 1 \in DOMAIN batch /\ Head(batch) = batch[1] /\ w \in Watch /\ w <= created
    BY <1>1, <1>6, BatchTail DEF Stamp, Batched
  <2>2. /\ rest' = [rest EXCEPT ![w] = 0]
        /\ monitor' = "scanning" /\ UNCHANGED <<created, watches, batch>>
        /\ IF w \in watches
           THEN ran' = [ran EXCEPT ![w] = TRUE] /\ age' = [age EXCEPT ![w] = 0]
           ELSE UNCHANGED <<ran, age>>
    BY <1>6, <2>1 DEF Stamp
  <2>3. \A v \in Watch : rest'[v] = IF v = w THEN 0 ELSE rest[v]
    BY <2>1, <2>2 DEF TypeOK
  <2>4. \A v \in watches : IF v = w THEN ran'[v] /\ age'[v] = 0
                                     ELSE ran'[v] = ran[v] /\ age'[v] = age[v]
    BY <1>0, <2>1, <2>2 DEF TypeOK
  <2>5. \A v \in watches : rest'[v] >= IF ran'[v] THEN age'[v] ELSE Interval
    BY <1>0, <2>3, <2>4 DEF Rested
  <2>6. \A v \in Watch : v > created => rest'[v] = Interval
    BY <1>0, <2>1, <2>3 DEF Rested
  <2>7. \A i \in DOMAIN batch : i > 1 => rest'[batch[i].watch] = Interval
    BY <1>1, <2>1, <2>3 DEF Rested, Batched
  <2> QED
    BY <2>2, <2>5, <2>6, <2>7 DEF Rested
<1>7. ASSUME monitor \in {"stamping", "scanning"}, batch' = Tail(batch),
             UNCHANGED <<created, watches, ran, age, rest>>
      PROVE  Rested'
  <2>1. \A i \in DOMAIN batch' : i + 1 \in DOMAIN batch /\ i + 1 > 1 /\ batch'[i] = batch[i + 1]
    BY <1>7, BatchTail
  <2>2. \A i \in DOMAIN batch' : rest[batch'[i].watch] = Interval
    BY <2>1 DEF Rested
  <2> QED
    BY <1>7, <2>2 DEF Rested
<1>8. ASSUME NEW found \in SUBSET Key, NEW checked \in SUBSET Key, WriteResult(found, checked)
      PROVE  Rested'
  BY <1>7, <1>8, ResultFacts
<1>9. CASE RunFails
  BY <1>7, <1>9 DEF RunFails, NextWatch, rowVars
<1>10. CASE Crash
  <2>1. UNCHANGED <<created, watches, ran, age, rest>> /\ batch' = <<>>
    BY <1>10 DEF Crash, rowVars
  <2> QED
    BY <2>1 DEF Rested
<1>11. CASE Restart
  <2>1. UNCHANGED <<created, watches, ran, age, rest, batch>> /\ monitor' = "asleep"
    BY <1>11 DEF Restart, rowVars
  <2> QED
    BY <2>1 DEF Rested
<1>12. CASE UNCHANGED vars
  BY <1>12 DEF vars, rowVars, loopVars, Rested
<1>13. ASSUME NEW c \in Client, NEW w \in Watch, ToggleRead(c, w) PROVE Rested'
  BY <1>13 DEF ToggleRead, rowVars, loopVars, Rested
<1>14. ASSUME NEW c \in Client, ToggleWrite(c) PROVE Rested'
  BY <1>14 DEF ToggleWrite, loopVars, Rested
<1> QED
  BY <1>2, <1>3, <1>4, <1>5, <1>6, <1>8, <1>9, <1>10, <1>11, <1>12, <1>13, <1>14
     DEF Next, Monitor, Endpoints

LEMMA ResultedStep ==
  ASSUME WatchlistAssumption, TypeOK, Batched, Resulted, [Next]_vars
  PROVE  Resulted'
<1>0. /\ failures \in Nat /\ \A w \in Watch : written[w] \in Nat
      /\ \A i \in DOMAIN batch : i \in Nat /\ batch[i].watch \in Watch
  <2>1. failures \in Nat /\ \A w \in Watch : written[w] \in Nat
    BY DEF TypeOK, WatchlistAssumption
  <2> QED
    BY <2>1, BatchTypes DEF Snap
<1>1. CASE CreateWatch
  BY <1>1 DEF CreateWatch, loopVars, Resulted, Scanned
<1>2. ASSUME NEW w \in Watch, DeleteWatch(w) PROVE Resulted'
  <2>1. /\ UNCHANGED <<failures, written, batch, monitor>> /\ alerts' \subseteq alerts
        /\ \A v \in Watch : IF v = w THEN ran'[v] = FALSE /\ signature'[v] = {}
                            ELSE ran'[v] = ran[v] /\ signature'[v] = signature[v]
    BY <1>2 DEF DeleteWatch, RemoveRow, loopVars, TypeOK
  <2> QED
    BY <2>1 DEF Resulted, Scanned
<1>3. CASE Tick
  <2>1. UNCHANGED <<failures, ran, signature, written, alerts>> /\ monitor = "asleep"
        /\ monitor' # "scanning"
    BY <1>3 DEF Tick, rowVars
  <2>2. ASSUME failures = 0, NEW i \in DOMAIN batch', batch'[i].ran \/ batch'[i].signature # {}
        PROVE  written[batch'[i].watch] > 0
    <3>1. PICK w \in watches : batch'[i] = Snapshot(w)
      BY <1>3, TickBatch
    <3>2. batch'[i].watch = w /\ batch'[i].ran = ran[w] /\ batch'[i].signature = signature[w]
      BY <3>1 DEF Snapshot
    <3>3. w \in Watch
      BY DEF TypeOK, Watch, WatchlistAssumption
    <3> QED
      BY <2>1, <2>2, <3>2, <3>3 DEF Resulted, Scanned
  <2> QED
    BY <2>1, <2>2 DEF Resulted, Scanned
<1>4. CASE Stamp
  <2>1. 1 \in DOMAIN batch /\ Head(batch) = batch[1] /\ batch[1].watch \in Watch
    BY <1>0, <1>4, BatchTail DEF Stamp
  <2>2. /\ monitor = "stamping" /\ monitor' = "scanning"
        /\ UNCHANGED <<failures, signature, written, alerts, batch>>
        /\ ran' = ran \/ ran' = [ran EXCEPT ![batch[1].watch] = TRUE]
    BY <1>4, <2>1 DEF Stamp, resultVars
  <2>3. \A v \in Watch : v # batch[1].watch => ran'[v] = ran[v]
    BY <2>1, <2>2 DEF TypeOK
  <2> QED
    BY <2>2, <2>3 DEF Resulted, Scanned
<1>5. ASSUME NEW found \in SUBSET Key, NEW checked \in SUBSET Key, WriteResult(found, checked)
      PROVE  Resulted'
  <2>1. /\ monitor = "scanning" /\ batch' = Tail(batch) /\ 1 \in DOMAIN batch
        /\ UNCHANGED <<failures, ran>>
    BY <1>5, ResultFacts
  <2>2. \A v \in Watch : v # batch[1].watch =>
                           signature'[v] = signature[v] /\ written'[v] = written[v]
    BY <1>5, ResultFacts
  <2>3. written'[batch[1].watch] > 0
    BY <1>5, ResultFacts
  <2>4. \A a \in alerts' \ alerts :
          a.nth = written[batch[1].watch] /\ (batch[1].ran \/ batch[1].signature # {})
    BY <1>5, ResultAlerts
  <2>5. \A i \in DOMAIN batch' : /\ i + 1 \in DOMAIN batch /\ batch'[i] = batch[i + 1]
                                 /\ batch'[i].watch # batch[1].watch
    BY <2>1, TailBatched
  <2>6. \A v \in Watch : failures = 0 /\ (ran[v] \/ signature'[v] # {}) => written'[v] > 0
    BY <2>1, <2>2, <2>3 DEF Resulted, Scanned
  <2>7. \A i \in DOMAIN batch' : failures = 0 /\ (batch'[i].ran \/ batch'[i].signature # {})
          => written'[batch'[i].watch] > 0
    BY <1>0, <2>2, <2>5 DEF Resulted
  <2>8. failures = 0 => \A a \in alerts' : a.nth > 0
    BY <2>1, <2>4 DEF Resulted
  <2> QED
    BY <2>1, <2>6, <2>7, <2>8 DEF Resulted
<1>6. CASE RunFails \/ Crash
  <2>1. failures' = failures + 1
    BY <1>6 DEF RunFails, Crash
  <2>2. failures' # 0
    BY <1>0, <2>1
  <2> QED
    BY <2>2 DEF Resulted
<1>7. CASE Restart
  <2>1. UNCHANGED <<failures, ran, signature, written, alerts, batch>>
        /\ monitor = "down" /\ monitor' = "asleep"
    BY <1>7 DEF Restart, rowVars
  <2> QED
    BY <2>1 DEF Resulted, Scanned
<1>8. CASE Pass
  BY <1>8 DEF Pass, resultVars, Resulted, Scanned
<1>9. CASE UNCHANGED vars
  BY <1>9 DEF vars, rowVars, loopVars, Resulted, Scanned
<1>10. ASSUME NEW c \in Client, NEW w \in Watch, ToggleRead(c, w) PROVE Resulted'
  BY <1>10 DEF ToggleRead, rowVars, loopVars, Resulted, Scanned
<1>11. ASSUME NEW c \in Client, ToggleWrite(c) PROVE Resulted'
  BY <1>11 DEF ToggleWrite, loopVars, Resulted, Scanned
<1> QED
  BY <1>1, <1>2, <1>3, <1>4, <1>5, <1>6, <1>7, <1>8, <1>9, <1>10, <1>11
     DEF Next, Monitor, Endpoints

LEMMA ReportedStep ==
  ASSUME WatchlistAssumption, TypeOK, Blank, Batched, Reported, [Next]_vars
  PROVE  Reported'
<1>0. /\ created \in Nat /\ \A w \in watches : w \in Watch /\ w <= created
  BY DEF TypeOK, Watch, WatchlistAssumption
<1>1. CASE CreateWatch
  <2>1. /\ watches' = watches \union {created + 1}
        /\ UNCHANGED <<signature, baseline, alerts>>
    BY <1>1 DEF CreateWatch
  <2>2. signature[created + 1] = {}
    BY <1>0, <1>1 DEF CreateWatch, Blank, Watch, WatchlistAssumption
  <2> QED
    BY <2>1, <2>2 DEF Reported
<1>2. ASSUME NEW w \in Watch, DeleteWatch(w) PROVE Reported'
  <2>1. /\ watches' = watches \ {w} /\ alerts' = {a \in alerts : a.watch # w}
        /\ \A v \in Watch : v # w => signature'[v] = signature[v] /\ baseline'[v] = baseline[v]
    BY <1>2 DEF DeleteWatch, RemoveRow, TypeOK
  <2> QED
    BY <1>0, <2>1 DEF Reported
<1>3. ASSUME NEW found \in SUBSET Key, NEW checked \in SUBSET Key, WriteResult(found, checked)
      PROVE  Reported'
  <2>1. 1 \in DOMAIN batch /\ UNCHANGED watches
    BY <1>3, ResultFacts
  <2>2. \A v \in watches :
          /\ signature'[v] = IF v = batch[1].watch THEN found ELSE signature[v]
          /\ baseline'[v] = IF v = batch[1].watch /\ ~batch[1].ran /\ batch[1].signature = {}
                            THEN found ELSE baseline[v]
    <3>1. \A v \in Watch :
            /\ signature'[v] = IF v = batch[1].watch /\ v \in watches THEN found
                               ELSE signature[v]
            /\ baseline'[v] = IF v = batch[1].watch /\ v \in watches /\ ~batch[1].ran
                                 /\ batch[1].signature = {}
                              THEN found ELSE baseline[v]
      BY <1>3, ResultFacts
    <3> QED
      BY <1>0, <3>1
  <2>3. alerts \subseteq alerts'
    BY <1>3, ResultAlerts
  <2>4. ASSUME NEW k \in found \ batch[1].signature, batch[1].ran \/ batch[1].signature # {}
        PROVE  \E a \in alerts' : a.watch = batch[1].watch /\ a.key = k /\ a.kind = "new"
    BY ZenonT(30), <1>3, <2>4, NewAlerts
  <2>5. batch[1].watch \in watches => batch[1].signature = signature[batch[1].watch]
    BY <2>1 DEF Batched
  <2> SUFFICES ASSUME NEW v \in watches, NEW k, k \in signature'[v], k \notin baseline'[v]
               PROVE  \E a \in alerts' : a.watch = v /\ a.key = k /\ a.kind = "new"
    BY <2>1 DEF Reported
  <2>6. CASE k \in signature[v] /\ k \notin baseline[v]
    BY <2>3, <2>6 DEF Reported
  <2>7. CASE k \notin signature[v] \/ k \in baseline[v]
    <3>1. v = batch[1].watch /\ k \in found /\ (batch[1].ran \/ batch[1].signature # {})
      BY <2>2, <2>7
    <3>2. k \notin baseline[v]
      BY <2>2, <3>1
    <3>3. k \notin batch[1].signature
      BY <2>5, <2>7, <3>1, <3>2
    <3> QED
      BY <2>4, <3>1, <3>3
  <2> QED
    BY <2>6, <2>7
<1>4. CASE Tick \/ Stamp \/ RunFails \/ Crash \/ Restart \/ Pass \/ UNCHANGED vars
  BY <1>4 DEF Tick, Stamp, RunFails, Crash, Restart, Pass, vars, rowVars, resultVars, Reported
<1>5. ASSUME NEW c \in Client, NEW w \in Watch, ToggleRead(c, w) PROVE Reported'
  BY <1>5 DEF ToggleRead, rowVars, Reported
<1>6. ASSUME NEW c \in Client, ToggleWrite(c) PROVE Reported'
  BY <1>6 DEF ToggleWrite, Reported
<1> QED
  BY <1>1, <1>2, <1>3, <1>4, <1>5, <1>6 DEF Next, Monitor, Endpoints

LEMMA OrphansStep ==
  ASSUME WatchlistAssumption, TypeOK, Batched, Orphans, [Next]_vars
  PROVE  Orphans'
<1>0. /\ created \in Nat /\ \A w \in watches : w \in Watch /\ w <= created
      /\ \A a \in alerts : a.watch \in Nat
  BY SMTT(30) DEF TypeOK, Watch, Alert, WatchlistAssumption
<1>1. CASE CreateWatch
  <2>1. /\ created' = created + 1 /\ watches' = watches \union {created + 1}
        /\ UNCHANGED <<alerts, batch>>
    BY <1>1 DEF CreateWatch, loopVars
  <2> QED
    BY <1>0, <2>1 DEF Orphans
<1>2. ASSUME NEW w \in Watch, DeleteWatch(w) PROVE Orphans'
  <2>1. /\ watches' = watches \ {w} /\ alerts' = {a \in alerts : a.watch # w}
        /\ UNCHANGED <<created, batch>>
    BY <1>2 DEF DeleteWatch, RemoveRow, loopVars
  <2> QED
    BY <2>1 DEF Orphans
<1>3. CASE Tick
  <2>1. UNCHANGED <<created, watches, alerts>>
    BY <1>3 DEF Tick, rowVars
  <2>2. ASSUME NEW i \in DOMAIN batch' PROVE batch'[i].watch \in watches
    <3>1. PICK w \in watches : batch'[i] = Snapshot(w)
      BY <1>3, TickBatch
    <3> QED
      BY <3>1 DEF Snapshot
  <2> QED
    BY <2>1, <2>2 DEF Orphans
<1>4. ASSUME NEW found \in SUBSET Key, NEW checked \in SUBSET Key, WriteResult(found, checked)
      PROVE  Orphans'
  <2>1. /\ 1 \in DOMAIN batch /\ UNCHANGED <<created, watches>>
        /\ batch' = Tail(batch) /\ monitor = "scanning"
    BY <1>4, ResultFacts
  <2>2. \A a \in alerts' \ alerts :
          a.watch = batch[1].watch /\ a.nth = written[batch[1].watch]
    BY <1>4, ResultAlerts
  <2>3. \A i \in DOMAIN batch' : /\ i + 1 \in DOMAIN batch /\ batch'[i] = batch[i + 1]
                                 /\ batch'[i].watch # batch[1].watch
    BY <2>1, TailBatched
  <2>4. /\ batch[1].watch <= created
        /\ batch[1].watch \notin watches => \A a \in alerts : a.watch # batch[1].watch
    BY <2>1 DEF Batched, Orphans
  <2>5. \A a \in alerts' : a.watch <= created
    BY <2>2, <2>4 DEF Orphans
  <2>6. \A i \in DOMAIN batch' :
          batch'[i].watch \notin watches => \A a \in alerts' : a.watch # batch'[i].watch
    BY <2>2, <2>3 DEF Orphans
  <2>7. \A a, b \in alerts' : a.watch = b.watch /\ a.watch \notin watches => a.nth = b.nth
    BY <2>2, <2>4 DEF Orphans
  <2> QED
    BY <2>1, <2>5, <2>6, <2>7 DEF Orphans
<1>5. CASE RunFails
  <2>1. /\ UNCHANGED <<created, watches, alerts>> /\ batch' = Tail(batch)
        /\ monitor \in {"stamping", "scanning"}
    BY <1>5 DEF RunFails, NextWatch, rowVars
  <2>2. \A i \in DOMAIN batch' : i + 1 \in DOMAIN batch /\ batch'[i] = batch[i + 1]
    BY <2>1, TailBatched
  <2> QED
    BY <2>1, <2>2 DEF Orphans
<1>6. CASE Crash
  <2>1. UNCHANGED <<created, watches, alerts>> /\ batch' = <<>>
    BY <1>6 DEF Crash, rowVars
  <2> QED
    BY <2>1 DEF Orphans
<1>7. CASE Stamp \/ Restart \/ Pass \/ UNCHANGED vars
  BY <1>7 DEF Stamp, Restart, Pass, vars, rowVars, resultVars, loopVars, Orphans
<1>8. ASSUME NEW c \in Client, NEW w \in Watch, ToggleRead(c, w) PROVE Orphans'
  BY <1>8 DEF ToggleRead, rowVars, loopVars, Orphans
<1>9. ASSUME NEW c \in Client, ToggleWrite(c) PROVE Orphans'
  BY <1>9 DEF ToggleWrite, loopVars, Orphans
<1> QED
  BY <1>1, <1>2, <1>3, <1>4, <1>5, <1>6, <1>7, <1>8, <1>9 DEF Next, Monitor, Endpoints

LEMMA ToggledStep ==
  ASSUME WatchlistAssumption, OneClient, TypeOK, Blank, Toggled, [Next]_vars
  PROVE  Toggled'
<1>0. /\ created \in Nat /\ \A w \in watches : w \in Watch /\ w <= created
  BY DEF TypeOK, Watch, WatchlistAssumption
<1>t. \A c \in Client : toggling[c] # Idle => toggling[c] \in Watch \X BOOLEAN
  BY DEF TypeOK
<1>1. CASE CreateWatch
  <2>1. /\ created' = created + 1 /\ watches' = watches \union {created + 1}
        /\ UNCHANGED <<enabled, paused, toggling>>
    BY <1>1 DEF CreateWatch
  <2>2. enabled[created + 1] = TRUE /\ paused[created + 1] = FALSE
    BY <1>0, <1>1 DEF CreateWatch, Blank, Watch, WatchlistAssumption
  <2>3. \A c \in Client : toggling[c] # Idle => toggling[c][1] \in Nat
    BY <1>t DEF Watch, WatchlistAssumption
  <2>4. \A w \in watches' : enabled[w] = ~paused[w]
    BY <2>1, <2>2 DEF Toggled
  <2> QED
    BY <1>0, <2>1, <2>3, <2>4 DEF Toggled
<1>2. ASSUME NEW w \in Watch, DeleteWatch(w) PROVE Toggled'
  <2>1. /\ watches' = watches \ {w} /\ UNCHANGED <<created, toggling>>
        /\ \A v \in Watch : v # w => enabled'[v] = enabled[v] /\ paused'[v] = paused[v]
    BY <1>2 DEF DeleteWatch, RemoveRow, TypeOK
  <2> QED
    BY <1>0, <2>1 DEF Toggled
<1>3. ASSUME NEW c \in Client, NEW w \in Watch, ToggleRead(c, w) PROVE Toggled'
  <2>1. /\ w \in watches /\ toggling' = [toggling EXCEPT ![c] = <<w, enabled[w]>>]
        /\ UNCHANGED <<created, watches, enabled, paused>>
    BY <1>3 DEF ToggleRead, rowVars
  <2>2. \A d \in Client : toggling'[d] = <<w, enabled[w]>>
    BY <2>1 DEF TypeOK, OneClient
  <2> QED
    BY <1>0, <2>1, <2>2 DEF Toggled
<1>4. ASSUME NEW c \in Client, ToggleWrite(c) PROVE Toggled'
  <2>1. \A d \in Client : toggling'[d] = Idle
    BY <1>4 DEF ToggleWrite, TypeOK, OneClient
  <2>2. UNCHANGED <<created, watches>> /\ toggling[c] # Idle
    BY <1>4 DEF ToggleWrite
  <2>3. CASE toggling[c][1] \in watches
    <3> DEFINE w == toggling[c][1]
    <3>1. w \in Watch /\ toggling[c][2] = enabled[w]
      BY <1>0, <2>2, <2>3 DEF Toggled
    <3>2. enabled' = [enabled EXCEPT ![w] = ~toggling[c][2]] /\ paused' = [paused EXCEPT ![w] = ~@]
      BY <1>4, <2>3 DEF ToggleWrite
    <3>3. \A v \in Watch : /\ enabled'[v] = IF v = w THEN ~enabled[v] ELSE enabled[v]
                           /\ paused'[v] = IF v = w THEN ~paused[v] ELSE paused[v]
      BY <3>1, <3>2 DEF TypeOK
    <3>4. \A v \in watches : enabled'[v] = ~paused'[v]
      BY <1>0, <3>3 DEF Toggled
    <3> QED
      BY <2>1, <2>2, <3>4 DEF Toggled
  <2>4. CASE toggling[c][1] \notin watches
    <3>1. UNCHANGED <<enabled, paused>>
      BY <1>4, <2>4 DEF ToggleWrite
    <3> QED
      BY <2>1, <2>2, <3>1 DEF Toggled
  <2> QED
    BY <2>3, <2>4
<1>5. CASE Crash
  <2>1. UNCHANGED <<watches, enabled, paused, created>> /\ \A c \in Client : toggling'[c] = Idle
    BY <1>5 DEF Crash, rowVars
  <2> QED
    BY <2>1 DEF Toggled
<1>6. CASE Tick \/ Stamp \/ RunFails \/ Restart \/ Pass \/ UNCHANGED vars
  BY <1>6 DEF Tick, Stamp, RunFails, Restart, Pass, vars, rowVars, Toggled
<1>7. ASSUME NEW found \in SUBSET Key, NEW checked \in SUBSET Key, WriteResult(found, checked)
      PROVE  Toggled'
  BY <1>7 DEF WriteResult, Toggled
<1> QED
  BY <1>1, <1>2, <1>3, <1>4, <1>5, <1>6, <1>7 DEF Next, Monitor, Endpoints

LEMMA GoneStep ==
  ASSUME WatchlistAssumption, TypeOK, Batched, GoneIsLost, [Next]_vars
  PROVE  GoneIsLost'
<1>1. ASSUME NEW w \in Watch, DeleteWatch(w) PROVE GoneIsLost'
  BY <1>1 DEF DeleteWatch, GoneIsLost
<1>2. ASSUME NEW found \in SUBSET Key, NEW checked \in SUBSET Key, WriteResult(found, checked)
      PROVE  GoneIsLost'
  <2>1. \A a \in alerts' \ alerts : a.kind = "gone" =>
          /\ a.key \in batch[1].signature /\ a.key \notin found /\ a.key \in checked
          /\ a.was = verdict[batch[1].watch][a.key]
          /\ a.is = Verdict(a.was, a.key, found, checked)
    BY <1>2, ResultAlerts
  <2>2. \A k \in batch[1].signature : verdict[batch[1].watch][k] = "found"
    BY <1>2, ResultFacts DEF Batched
  <2>3. \A k \in checked \ found : Verdict("found", k, found, checked) = "lost"
    BY DEF Verdict
  <2> QED
    BY <2>1, <2>2, <2>3 DEF GoneIsLost
<1>3. CASE CreateWatch \/ Pass \/ Tick \/ Stamp \/ RunFails \/ Crash \/ Restart \/ UNCHANGED vars
  BY <1>3 DEF CreateWatch, Pass, Tick, Stamp, RunFails, Crash, Restart, vars, resultVars,
              GoneIsLost
<1>4. ASSUME NEW c \in Client, NEW w \in Watch, ToggleRead(c, w) PROVE GoneIsLost'
  BY <1>4 DEF ToggleRead, GoneIsLost
<1>5. ASSUME NEW c \in Client, ToggleWrite(c) PROVE GoneIsLost'
  BY <1>5 DEF ToggleWrite, GoneIsLost
<1> QED
  BY <1>1, <1>2, <1>3, <1>4, <1>5 DEF Next, Monitor, Endpoints

LEMMA PartsInit ==
  ASSUME WatchlistAssumption, Init
  PROVE  Blank /\ Known /\ Batched /\ Rested /\ Resulted /\ Reported /\ Orphans
           /\ Toggled /\ GoneIsLost
<1>1. DOMAIN batch = {}
  BY DEF Init
<1> QED
  BY <1>1 DEF Init, Blank, Known, Batched, Rested, Resulted, Scanned, Reported, Orphans,
              Toggled, GoneIsLost

IInv == /\ TypeOK /\ Blank /\ Known /\ Batched /\ Rested /\ Resulted /\ Reported
        /\ Orphans /\ GoneIsLost

(* What every reachable state of the watchlist has in common, in its parts: *)
(* the rows, the batch the monitor works on and the alerts of its results. *)
THEOREM Invariant ==
  ASSUME WatchlistAssumption
  PROVE  Spec => []IInv
<1>1. Init => IInv
  BY TypeInit, PartsInit DEF IInv
<1>2. IInv /\ [Next]_vars => IInv'
  BY TypeStep, BlankStep, KnownStep, BatchedStep, RestedStep, ResultedStep, ReportedStep,
     OrphansStep, GoneStep DEF IInv
<1> QED
  BY <1>1, <1>2, PTL DEF Spec

(* Every variable of the watchlist keeps its type (the tables `watchlist`  *)
(* and `watch_alerts`, and the locals of monitor_loop).                    *)
THEOREM TypeCorrect ==
  ASSUME WatchlistAssumption
  PROVE  Spec => []TypeOK
<1>1. IInv => TypeOK
  BY DEF IInv
<1> QED
  BY <1>1, Invariant, PTL

(* An account reported gone had been found and is decisively absent, for   *)
(* any sequence of skipped scans, edits, failures and restarts: diffing    *)
(* against the signature read at wake-up is sound, because a row of the    *)
(* batch keeps its signature until its run ends.                           *)
THEOREM GoneAlertsAreSound ==
  ASSUME WatchlistAssumption
  PROVE  Spec => []GoneIsLost
<1>1. IInv => GoneIsLost
  BY DEF IInv
<1> QED
  BY <1>1, Invariant, PTL

(* What a signature holds beyond its baseline has an alert, and the first  *)
(* result of a watch is silent while nothing failed.                       *)
THEOREM SignaturesAreReported ==
  ASSUME WatchlistAssumption
  PROVE  Spec => []NewIsReported
<1>1. IInv => NewIsReported
  BY DEF IInv, Resulted, Reported, NewIsReported
<1> QED
  BY <1>1, Invariant, PTL

(* The monitor never undoes a toggle, and a deleted watch is left with the *)
(* alerts of at most one result, when toggles of a watch do not overlap.   *)
THEOREM UserEditsStick ==
  ASSUME WatchlistAssumption, OneClient
  PROVE  Spec => []EditsStick
<1>1. Init => IInv /\ Toggled
  BY TypeInit, PartsInit DEF IInv
<1>2. IInv /\ Toggled /\ [Next]_vars => IInv' /\ Toggled'
  <2>1. IInv /\ [Next]_vars => IInv'
    BY TypeStep, BlankStep, KnownStep, BatchedStep, RestedStep, ResultedStep, ReportedStep,
       OrphansStep, GoneStep DEF IInv
  <2>2. IInv /\ Toggled /\ [Next]_vars => Toggled'
    BY ToggledStep DEF IInv
  <2> QED
    BY <2>1, <2>2
<1>3. IInv /\ Toggled => EditsStick
  BY DEF IInv, Toggled, Orphans, EditsStick
<1> QED
  BY <1>1, <1>2, <1>3, PTL DEF Spec

(* No watch is scanned before its interval is over: a scan starts only in  *)
(* Stamp, and what waits to be stamped has waited its interval.            *)
THEOREM IntervalsAreKept ==
  ASSUME WatchlistAssumption
  PROVE  Spec => IntervalKept
<1>1. IInv /\ [Next]_vars
        => [\A w \in Watch : ScanStarts(w) => rest[w] >= Interval]_vars
  <2> SUFFICES ASSUME IInv, [Next]_vars, NEW w \in Watch, ScanStarts(w)
               PROVE  rest[w] >= Interval
    OBVIOUS
  <2>1. monitor = "stamping" /\ Head(batch).watch = w
    BY DEF ScanStarts
  <2>2. 1 \in DOMAIN batch /\ Head(batch) = batch[1]
    BY <2>1, BatchTail DEF IInv
  <2>3. rest[w] = Interval
    BY <2>1, <2>2 DEF IInv, Rested
  <2> QED
    BY <2>3 DEF WatchlistAssumption
<1> QED
  BY <1>1, Invariant, PTL DEF Spec, IntervalKept
=============================================================================
