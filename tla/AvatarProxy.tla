---------------------------- MODULE AvatarProxy ----------------------------
(***************************************************************************)
(* The avatar proxy of app.py: _AvatarCache, an LRU bounded by entries, by *)
(* bytes (kept in a counter) and by age; _avatar_bytes, which looks the    *)
(* image up, passes a gate of AVATAR_MAX_CONCURRENT, looks it up again and *)
(* only then fetches it; and _avatar_thumbnails, the tasks of one report,  *)
(* all within one budget of time.  The event loop runs one caller at a     *)
(* time between awaits.                                                    *)
(***************************************************************************)
EXTENDS Integers, Sequences, SequencesExt, FiniteSets

CONSTANTS Url, Viewer,  \* images and the requests of /api/avatar
          Gate,         \* AVATAR_MAX_CONCURRENT
          MaxEntries, MaxBytes, ImageTTL,
          Size,         \* the sizes a body can have, some above MaxBytes
          LastTime      \* bound: the clock stops here

ASSUME AvatarAssumption ==
  /\ MaxEntries \in Nat /\ MaxBytes \in Nat /\ ImageTTL \in Nat
  /\ Size \subseteq Nat /\ Url # {}

VARIABLES items,        \* _items, oldest use first
          bytes,        \* _bytes
          clock,
          at,           \* caller -> where its coroutine is
          image,        \* viewer -> the url it asks for
          report,       \* the report: "none", "building", "sent"
          thumbs,       \* out: the urls the report embeds
          kept          \* history: url -> expiry of the last body put and not evicted

avatarVars == <<items, bytes, clock, at, image, report, thumbs, kept>>

(* A report runs one task per url; each is a caller like a viewer.         *)
Task == {"task"} \X Url
Asker == Viewer \cup Task
UrlOf(c) == IF c \in Task THEN c[2] ELSE image[c]

AvatarInit ==
  /\ items = <<>> /\ bytes = 0 /\ clock = 0
  /\ at = [c \in Asker |-> "idle"]
  /\ image = [v \in Viewer |-> CHOOSE u \in Url : TRUE]
  /\ report = "none" /\ thumbs = {}
  /\ kept = [u \in Url |-> -1]

----------------------------------------------------------------------------
(* _AvatarCache.  An operator of a cache takes and returns <<items, bytes>>. *)

(* A dictionary has one item of a url.                                     *)
HoldsImage(u) == \E i \in DOMAIN items : items[i].url = u
PlaceOf(u) == CHOOSE i \in DOMAIN items : items[i].url = u
ItemOf(u) == items[PlaceOf(u)]
Others(u) == IF HoldsImage(u) THEN RemoveAt(items, PlaceOf(u)) ELSE items
SizeOf(u) == IF HoldsImage(u) THEN ItemOf(u).size ELSE 0

(* What the first n items weigh, and all of them.                          *)
Weights(its) ==
  LET sum[n \in 0..Len(its)] == IF n = 0 THEN 0 ELSE sum[n - 1] + its[n].size
  IN  sum
Weight(its) == Weights(its)[Len(its)]

IsFresh(u) == HoldsImage(u) /\ clock <= ItemOf(u).expires

(* get: a fresh item becomes the youngest, an expired one goes. *)
Got(u) ==
  IF IsFresh(u) THEN <<Append(Others(u), ItemOf(u)), bytes>>
  ELSE <<Others(u), bytes - SizeOf(u)>>

(* put: replace, then drop the oldest until both bounds hold.              *)
Trimmed(its, n) ==
  LET fits(k) == Len(its) - k <= MaxEntries /\ n - Weights(its)[k] <= MaxBytes
      cut == CHOOSE k \in 0..Len(its) : (k = Len(its) \/ fits(k)) /\ \A m \in 0..(k - 1) : ~fits(m)
  IN  <<SubSeq(its, cut + 1, Len(its)), n - Weights(its)[cut]>>
NewItem(u, size) == [url |-> u, size |-> size, expires |-> clock + ImageTTL]

\* fault: the size of the replaced body stays in the counter
PutUncounted(u, size) ==
  IF size > MaxBytes THEN <<items, bytes>>
  ELSE Trimmed(Append(Others(u), NewItem(u, size)), bytes + size)

Put(u, size) ==
  IF size > MaxBytes THEN <<items, bytes>>
  ELSE Trimmed(Append(Others(u), NewItem(u, size)), bytes - SizeOf(u) + size)

Cached(c) == items' = c[1] /\ bytes' = c[2]

----------------------------------------------------------------------------
(* _avatar_bytes *)

InGate == {c \in Asker : at[c] = "fetching"}

(* What a caller does with its image: a viewer sends it, a task of the     *)
(* report shrinks it in a thread.                                          *)
Served(c) == at' = [at EXCEPT ![c] = IF c \in Task THEN "shrinking" ELSE "idle"]

First(c, u) ==
  /\ Cached(Got(u))
  /\ IF IsFresh(u) THEN Served(c) ELSE at' = [at EXCEPT ![c] = "gated"]

AskImage(v, u) ==
  /\ at[v] = "idle"
  /\ image' = [image EXCEPT ![v] = u]
  /\ First(v, u)
  /\ UNCHANGED <<clock, report, thumbs, kept>>

\* fault: no second look behind the gate
EnterBlind(c) ==
  /\ at[c] = "gated"
  /\ Cardinality(InGate) < Gate
  /\ at' = [at EXCEPT ![c] = "fetching"]
  /\ UNCHANGED <<items, bytes, clock, image, report, thumbs, kept>>

(* Behind the gate the cache is looked up once more. *)
Enter(c) ==
  /\ at[c] = "gated"
  /\ Cardinality(InGate) < Gate
  /\ Cached(Got(UrlOf(c)))
  /\ IF IsFresh(UrlOf(c)) THEN Served(c) ELSE at' = [at EXCEPT ![c] = "fetching"]
  /\ UNCHANGED <<clock, image, report, thumbs, kept>>

FetchedImage(c, size) ==
  LET u == UrlOf(c) IN
  /\ at[c] = "fetching"
  /\ Cached(Put(u, size))
  /\ kept' = [x \in Url |-> IF ~HoldsImage(x)' THEN -1
                            ELSE IF x = u /\ size <= MaxBytes THEN clock + ImageTTL ELSE kept[x]]
  /\ Served(c)
  /\ UNCHANGED <<clock, image, report, thumbs>>

(* Refused, too big, no raster image, an error or past the deadline; or a  *)
(* viewer that went away, whose coroutine is cancelled where it waits.     *)
FetchFailed(c) ==
  /\ at[c] = "fetching" \/ (c \in Viewer /\ at[c] = "gated")
  /\ at' = [at EXCEPT ![c] = IF c \in Task THEN "done" ELSE "idle"]
  /\ UNCHANGED <<items, bytes, clock, image, report, thumbs, kept>>

----------------------------------------------------------------------------
(* _avatar_thumbnails *)

StartReport ==
  /\ report = "none"
  /\ report' = "building"
  /\ at' = [c \in Asker |-> IF c \in Task THEN "created" ELSE at[c]]
  /\ UNCHANGED <<items, bytes, clock, image, thumbs, kept>>

BeginTask(t) ==
  /\ at[t] = "created"
  /\ First(t, t[2])
  /\ UNCHANGED <<clock, image, report, thumbs, kept>>

(* The thread's picture, or None for a body it cannot read. *)
Shrunk(t) ==
  /\ at[t] = "shrinking"
  /\ at' = [at EXCEPT ![t] = "done"]
  /\ thumbs' \in {thumbs, thumbs \cup {t[2]}}
  /\ UNCHANGED <<items, bytes, clock, image, report, kept>>

(* gather is over, or the budget is spent and every task still under way   *)
(* is cancelled; a thread that still shrinks is no longer awaited.         *)
ReportSent ==
  /\ report = "building"
  /\ report' = "sent"
  /\ at' = [c \in Asker |-> IF c \in Task THEN "done" ELSE at[c]]
  /\ UNCHANGED <<items, bytes, clock, image, thumbs, kept>>

Pass ==
  /\ clock < LastTime
  /\ clock' = clock + 1
  /\ UNCHANGED <<items, bytes, at, image, report, thumbs, kept>>

AvatarNext ==
  \/ \E v \in Viewer, u \in Url : AskImage(v, u)
  \/ \E c \in Asker : Enter(c) \/ FetchFailed(c) \/ \E s \in Size : FetchedImage(c, s)
  \/ \E t \in Task : BeginTask(t) \/ Shrunk(t)
  \/ StartReport \/ ReportSent \/ Pass

AvatarSpec == AvatarInit /\ [][AvatarNext]_avatarVars

----------------------------------------------------------------------------
(* The counter is the weight of the bodies held through replacement,       *)
(* expiry and eviction, so neither bound drifts.                           *)
CounterIsWeight ==
  /\ bytes = Weight(items) /\ bytes <= MaxBytes
  /\ Len(items) <= MaxEntries

(* Of callers that waited together, none goes out for an image another     *)
(* has brought back since, unless it was evicted or has expired.           *)
KeptIsNotFetched ==
  [][\A c \in Asker : at[c] # "fetching" /\ at'[c] = "fetching"
                        => kept[UrlOf(c)] < clock]_avatarVars
=============================================================================
