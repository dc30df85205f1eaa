--------------------------- MODULE StealthBrowser ---------------------------
(***************************************************************************)
(* The shared stealth browser (recon/stealthweb.py, tier 3 of the ladder). *)
(* _get_session starts it once, behind a lock; fetch_browser serialises    *)
(* the fetches and, when the target host changes, first clears the cookies *)
(* of the one context all fetches share.  A coroutine may be cancelled     *)
(* wherever it waits.  aclose, which only the end of the process calls, is *)
(* left out.                                                               *)
(***************************************************************************)
EXTENDS Naturals, FiniteSets

CONSTANTS Host, Fetcher

NoHost == "no host"
Nobody == "nobody"

ASSUME BrowserAssumption == NoHost \notin Host /\ Nobody \notin Fetcher

VARIABLES session,      \* _session: "none" or "up"
          dead,         \* _session_dead
          lastHost,     \* _last_host
          jar,          \* hosts that left cookies in the browser's context
          leaky,        \* history: the last clear_cookies() failed
          starter,      \* who holds _session_lock
          tab,          \* who holds _fetch_lock
          fetch,        \* fetcher -> where its coroutine is
          target        \* fetcher -> the host of its url

browserVars == <<session, dead, lastHost, jar, leaky, starter, tab, fetch, target>>

BrowserInit ==
  /\ session = "none" /\ dead = FALSE /\ lastHost = NoHost
  /\ jar = {} /\ leaky = FALSE
  /\ starter = Nobody /\ tab = Nobody
  /\ fetch = [f \in Fetcher |-> "idle"]
  /\ target = [f \in Fetcher |-> NoHost]

Goes(f, s) == fetch' = [fetch EXCEPT ![f] = s]
Releases(f) == tab' = IF tab = f THEN Nobody ELSE tab

(* fetch_browser up to _get_session, whose lock only a start makes others  *)
(* wait for.                                                               *)
BeginFetch(f, h) ==
  /\ fetch[f] = "idle" /\ ~dead
  /\ starter = Nobody
  /\ target' = [target EXCEPT ![f] = h]
  /\ IF session = "none"
     THEN starter' = f /\ Goes(f, "starting")
     ELSE Goes(f, "checking") /\ UNCHANGED starter
  /\ UNCHANGED <<session, dead, lastHost, jar, leaky, tab>>

Started(f) ==
  /\ fetch[f] = "starting"
  /\ starter' = Nobody
  /\ \/ session' = "up" /\ jar' = {} /\ Goes(f, "checking") /\ UNCHANGED dead
     \/ dead' = TRUE /\ Goes(f, "idle") /\ UNCHANGED <<session, jar>>
  /\ UNCHANGED <<lastHost, leaky, tab, target>>

(* assert_public_url lets the url pass; the fetch waits for its turn. *)
Checked(f) ==
  /\ fetch[f] = "checking"
  /\ Goes(f, "queued")
  /\ UNCHANGED <<session, dead, lastHost, jar, leaky, starter, tab, target>>

\* fault: fetches are not serialised
TurnUnlocked(f) ==
  /\ fetch[f] = "queued"
  /\ IF lastHost \notin {NoHost, target[f]}
     THEN Goes(f, "clearing") /\ UNCHANGED lastHost
     ELSE Goes(f, "fetching") /\ lastHost' = target[f]
  /\ UNCHANGED <<session, dead, jar, leaky, starter, tab, target>>

(* The lock is taken and _clear_cookies_if_host_changed begins. *)
Turn(f) ==
  /\ fetch[f] = "queued" /\ tab = Nobody
  /\ tab' = f
  /\ IF lastHost \notin {NoHost, target[f]}
     THEN Goes(f, "clearing") /\ UNCHANGED lastHost
     ELSE Goes(f, "fetching") /\ lastHost' = target[f]
  /\ UNCHANGED <<session, dead, jar, leaky, starter, target>>

(* Best effort: a clear that fails is logged and the fetch goes on. *)
Cleared(f) ==
  /\ fetch[f] = "clearing"
  /\ Goes(f, "fetching")
  /\ lastHost' = target[f]
  /\ \/ jar' = {} /\ leaky' = FALSE
     \/ leaky' = TRUE /\ UNCHANGED jar
  /\ UNCHANGED <<session, dead, starter, tab, target>>

(* The page loaded, or failed having loaded in part; a failure whose text  *)
(* speaks of the browser switches tier 3 off for the process.              *)
Fetched(f) ==
  /\ fetch[f] = "fetching"
  /\ Goes(f, "idle") /\ Releases(f)
  /\ jar' \in {jar, jar \cup {target[f]}}
  /\ dead' \in {dead, TRUE}
  /\ UNCHANGED <<session, lastHost, leaky, starter, target>>

(* Refused by the address check, or cancelled, maybe with the page loaded   *)
(* in part; the locks are released.                                        *)
Dropped(f) ==
  /\ fetch[f] # "idle"
  /\ Goes(f, "idle") /\ Releases(f)
  /\ starter' = IF starter = f THEN Nobody ELSE starter
  /\ \/ UNCHANGED jar
     \/ fetch[f] = "fetching" /\ jar' = jar \cup {target[f]}
  /\ UNCHANGED <<session, dead, lastHost, leaky, target>>

BrowserNext ==
  \E f \in Fetcher :
       \/ \E h \in Host : BeginFetch(f, h)
       \/ Started(f) \/ Checked(f) \/ Turn(f) \/ Cleared(f) \/ Fetched(f) \/ Dropped(f)

BrowserSpec == BrowserInit /\ [][BrowserNext]_browserVars

----------------------------------------------------------------------------
(* While a page of one host loads, the context holds no cookies another    *)
(* host's page left, unless clearing them failed; and a start is never     *)
(* under way twice, or next to a running browser.                          *)
CookiesStayHome ==
  /\ \A f \in Fetcher : fetch[f] = "fetching" => leaky \/ jar \subseteq {target[f]}
  /\ Cardinality({f \in Fetcher : fetch[f] = "starting"}) <= (IF session = "up" THEN 0 ELSE 1)

(* Whoever holds a lock is at work behind it: neither a cancelled fetch,   *)
(* nor a start that fails, nor a browser that dies leaves a lock behind.   *)
(* So a fetch that waits for its turn waits for one that works.            *)
HeldAtWork ==
  /\ tab # Nobody => tab \in Fetcher /\ fetch[tab] \in {"clearing", "fetching"}
  /\ starter # Nobody => starter \in Fetcher /\ fetch[starter] = "starting"
=============================================================================
