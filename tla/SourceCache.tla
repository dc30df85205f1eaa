---------------------------- MODULE SourceCache ----------------------------
(***************************************************************************)
(* Answers of outside sources behind a TTLCache (recon/cache.py), as       *)
(* geocode_place and geolocate_ip (recon/geo.py), breach._lookup           *)
(* (recon/breach.py), Adapter.check (recon/adapters.py) and                *)
(* account_creation_dates (recon/timeline.py) use it: look the key up; on  *)
(* a miss ask the source; store what the source said, and nothing when it  *)
(* said nothing.  The geocoder asks one place at a time behind a lock and  *)
(* leaves an interval after the last answer ("paced"); the others ask at   *)
(* once.  All of it runs on one event loop, so what a caller does between  *)
(* two awaits is one step.                                                 *)
(***************************************************************************)
EXTENDS Integers, Sequences, SequencesExt, FiniteSets

CONSTANTS Query,        \* places, addresses, logins
          Caller,       \* coroutines of concurrent runs
          TTL,          \* ttl_s
          MaxSize,      \* maxsize
          Interval,     \* _NOMINATIM_MIN_INTERVAL_S
          MaxTime       \* bound: the clock stops here

ASSUME CacheAssumption == TTL \in Nat \ {0} /\ MaxSize \in Nat \ {0} /\ Interval \in Nat /\ MaxTime \in Nat

VARIABLES source,       \* the source that is asked
          entries,      \* _data, oldest use first
          now,
          phase,        \* caller -> where its coroutine is
          want,         \* caller -> the key it looks for
          queue,        \* callers waiting for _nominatim_lock, its holder first
          lastAsk,      \* _last_nominatim_at
          served,       \* history: what the last step served from the cache
          told,         \* history: key -> the last plain answer of the source
          unclear       \* history: key -> when a Misread reply last came for it

cacheVars == <<source, entries, now, phase, want, queue, lastAsk, served, told, unclear>>

Source == {"geocode", "ip", "breach", "github", "adapter"}

(* Replies: what was asked for; the source's own way to say no (a 404, an  *)
(* empty list, success = false, no infections); the first with a part      *)
(* missing or of the wrong type; another JSON object; one that speaks of a  *)
(* quota; JSON that is no object and no list; an error status or no JSON;  *)
(* no request at all, since the host is backed off and last said 404.      *)
Reply == {"hit", "empty", "malformed", "object", "quota", "odd", "refused", "held"}

(* What each source's code takes a reply for: what is promised, the failure, *)
(* and what it makes an absence of besides.  Only an answer is stored.     *)
Plain(r) == IF r = "hit" THEN "found" ELSE IF r = "empty" THEN "absent" ELSE "nothing"
Else(r, absences) == IF r \in absences THEN "absent" ELSE Plain(r)

(* Anything but a list counts as an empty one; a hit must be readable.     *)
GeocodeSays(r) == Else(r, {"object", "quota", "odd"})
(* An object without success is an absence unless it speaks of a quota.    *)
GeolocateSays(r) == Else(r, {"object"})
(* Any JSON under 200 is summarised, and one without a readable infection  *)
(* reads as not compromised.                                               *)
BreachSays(r) == Else(r, {"malformed", "object", "quota", "odd"})
(* Any object without created_at is a user without a date.                 *)
GithubSays(r) == Else(r, {"malformed", "object", "quota"})
(* EXISTS and ABSENT are stored, BLOCKED is not; what exists_when does not *)
(* accept is ABSENT, and so is the last status of a host that is not asked. *)
AdapterSays(r) == Else(r, {"malformed", "object", "quota", "odd", "held"})

Says(r) ==
  CASE source = "geocode" -> GeocodeSays(r)
    [] source = "ip" -> GeolocateSays(r)
    [] source = "breach" -> BreachSays(r)
    [] source = "github" -> GithubSays(r)
    [] source = "adapter" -> AdapterSays(r)

(* The replies that say nothing of the key and are known to be taken for   *)
(* an absence.  No other one may be.                                       *)
Unknown == {"malformed", "object", "quota", "odd"}
Misread ==
  CASE source = "geocode" -> Unknown \ {"malformed"}
    [] source = "ip" -> {"object"}
    [] source = "breach" -> Unknown
    [] source = "github" -> Unknown \ {"odd"}
    [] source = "adapter" -> Unknown \union {"held"}

Paced == source = "geocode"
Nothing == [key |-> "none"]
Never == -TTL           \* before any time a fresh answer can date from
Untold == [answer |-> "absent", at |-> Never]
Whatever == CHOOSE k \in Query : TRUE     \* what an idle caller looks for

CacheInit ==
  /\ source \in Source
  /\ entries = <<>>
  /\ now = 0
  /\ phase = [c \in Caller |-> "idle"]
  /\ want = [c \in Caller |-> Whatever]
  /\ queue = <<>>
  /\ lastAsk = -Interval
  /\ served = Nothing
  /\ told = [k \in Query |-> Untold]
  /\ unclear = [k \in Query |-> Never]

----------------------------------------------------------------------------
(* TTLCache *)

(* A dictionary has one entry of a key.                                    *)
Holds(k) == \E i \in DOMAIN entries : entries[i].key = k
At(k) == CHOOSE i \in DOMAIN entries : entries[i].key = k
EntryOf(k) == entries[At(k)]
Without(k) == IF Holds(k) THEN RemoveAt(entries, At(k)) ELSE entries
Expired(e) == now >= e.expires

\* fault: an expired entry is still served
HitAnyAge(k) == Holds(k)

(* _lookup: a hit moves to the young end, an expired entry goes. *)
Hit(k) == Holds(k) /\ ~Expired(EntryOf(k))
LookedUp(k) == IF Hit(k) THEN Append(Without(k), EntryOf(k)) ELSE Without(k)

(* _store: the entry becomes the youngest and the oldest ones fall out. *)
Stored(k, a) ==
  LET all == Append(Without(k), [key |-> k, answer |-> a, expires |-> now + TTL])
      extra == Len(all) - MaxSize
  IN  SubSeq(all, 1 + (IF extra > 0 THEN extra ELSE 0), Len(all))

----------------------------------------------------------------------------
(* The callers *)

Lookup(c, k) ==
  /\ phase[c] = "idle"
  /\ entries' = LookedUp(k)
  /\ IF Hit(k)
     THEN /\ served' = [key |-> k, answer |-> EntryOf(k).answer, at |-> now]
          /\ UNCHANGED <<phase, want, queue>>
     ELSE /\ served' = Nothing
          /\ want' = [want EXCEPT ![c] = k]
          /\ IF Paced
             THEN phase' = [phase EXCEPT ![c] = "waiting"] /\ queue' = Append(queue, c)
             ELSE phase' = [phase EXCEPT ![c] = "asking"] /\ UNCHANGED queue
  /\ UNCHANGED <<source, now, lastAsk, told, unclear>>

(* The lock's holder sleeps until the interval since the last answer is    *)
(* over.  The cache is not looked up again behind the lock.                *)
Send(c) ==
  /\ phase[c] = "waiting" /\ queue[1] = c
  /\ now >= lastAsk + Interval
  /\ phase' = [phase EXCEPT ![c] = "asking"]
  /\ served' = Nothing
  /\ UNCHANGED <<source, entries, now, want, queue, lastAsk, told, unclear>>

Leave(c) ==
  /\ phase' = [phase EXCEPT ![c] = "idle"]
  /\ want' = [want EXCEPT ![c] = Whatever]
  /\ queue' = SelectSeq(queue, LAMBDA d : d # c)
  /\ served' = Nothing
  /\ UNCHANGED <<source, now>>

(* The source replied; what is an answer is stored.  Only adapters have a  *)
(* host state, by which they may be held.                                  *)
Answered(c, r) ==
  /\ phase[c] = "asking"
  /\ r = "held" => source = "adapter"
  /\ lastAsk' = IF Paced THEN now ELSE lastAsk
  /\ Leave(c)
  /\ entries' = IF Says(r) = "nothing" THEN entries ELSE Stored(want[c], Says(r))
  /\ told' = IF r \in {"hit", "empty"}
             THEN [told EXCEPT ![want[c]] = [answer |-> Plain(r), at |-> now]] ELSE told
  /\ unclear' = IF r \in Misread THEN [unclear EXCEPT ![want[c]] = now] ELSE unclear

(* No response: a transport error, or the run that asked is cancelled.     *)
(* The time of the request is not noted.                                   *)
Raised(c) ==
  /\ phase[c] \in {"waiting", "asking"}
  /\ Leave(c)
  /\ UNCHANGED <<entries, lastAsk, told, unclear>>

Tick ==
  /\ now < MaxTime
  /\ now' = now + 1
  /\ served' = Nothing
  (* What is too old to justify an answer is forgotten. *)
  /\ LET Recent(t) == t > now - TTL + 1
     IN  /\ told' = [k \in Query |-> IF Recent(told[k].at) THEN told[k] ELSE Untold]
         /\ unclear' = [k \in Query |-> IF Recent(unclear[k]) THEN unclear[k] ELSE Never]
  /\ UNCHANGED <<source, entries, phase, want, queue, lastAsk>>

CacheNext ==
  \/ \E c \in Caller, k \in Query : Lookup(c, k)
  \/ \E c \in Caller : Send(c) \/ Raised(c) \/ \E r \in Reply : Answered(c, r)
  \/ Tick

CacheSpec == CacheInit /\ [][CacheNext]_cacheVars

----------------------------------------------------------------------------
(* What is served from the cache is what the source itself said of that    *)
(* key less than a TTL ago: an error status, a timeout or a body that is no *)
(* JSON never reads as an absence, and nothing but a hit reads as one,     *)
(* whatever callers of the same key were in flight together.  What else is *)
(* served as an absence was made, less than a TTL ago, of one of the       *)
(* Misread replies: documents of a shape the source's code does not know,  *)
(* and the 404 an adapter's host gave to another question.                 *)
AnswersAreTimely ==
  served # Nothing =>
    \/ told[served.key].answer = served.answer /\ now - told[served.key].at < TTL
    \/ served.answer = "absent" /\ now - unclear[served.key] < TTL
=============================================================================
