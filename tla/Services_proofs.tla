-------------------------- MODULE Services_proofs ---------------------------
(*****************************************************************************)
(* The theorems about the services a run shares: the stealth browser, the    *)
(* WhatsMyName scan, the quick scan, the migrations, the cached sources and  *)
(* the avatar proxy.  Each is for any number of the processes that use it.   *)
(*****************************************************************************)
EXTENDS StealthBrowser, WmnScan, QuickScan, Migration, SourceCache, AvatarProxy,
        WellFoundedInduction, FiniteSetTheorems, SequenceTheorems, TLAPS

-----------------------------------------------------------------------------
(* The stealth browser, for any hosts and any fetches at once              *)

Places == {"idle", "starting", "checking", "queued", "clearing", "fetching"}

(* Who is where: a start holds its lock, and so does whoever clears the    *)
(* cookies or loads a page; the page loads after its host was noted.       *)
OwnPlace(f) ==
  /\ fetch[f] # "idle" => target[f] \in Host
  /\ fetch[f] = "starting" => starter = f
  /\ fetch[f] \in {"clearing", "fetching"} => tab = f
  /\ fetch[f] = "fetching" => lastHost = target[f]

(* The jar holds cookies of the host last noted, unless a clear failed.    *)
Jar ==
  /\ lastHost = NoHost => jar = {}
  /\ leaky \/ jar \subseteq {lastHost}

Sound ==
  /\ fetch \in [Fetcher -> Places]
  /\ target \in [Fetcher -> Host \cup {NoHost}]
  /\ starter # Nobody => session = "none"
  /\ \A f \in Fetcher : OwnPlace(f)
  /\ Jar

LEMMA SoundInit == BrowserInit => Sound
BY DEF BrowserInit, Sound, Places, OwnPlace, Jar

LEMMA SoundStep ==
  ASSUME Sound, [BrowserNext]_browserVars
  PROVE  Sound'
<1> USE BrowserAssumption DEF Sound, Places, OwnPlace, Jar, Goes
<1>1. ASSUME NEW f \in Fetcher, NEW h \in Host, BeginFetch(f, h)
      PROVE  Sound'
  BY <1>1 DEF BeginFetch
<1>2. ASSUME NEW f \in Fetcher, Started(f)
      PROVE  Sound'
  BY <1>2 DEF Started
<1>3. ASSUME NEW f \in Fetcher, Checked(f)
      PROVE  Sound'
  BY <1>3 DEF Checked
<1>4. ASSUME NEW f \in Fetcher, Turn(f)
      PROVE  Sound'
  BY <1>4 DEF Turn
<1>5. ASSUME NEW f \in Fetcher, Cleared(f)
      PROVE  Sound'
  BY <1>5 DEF Cleared
<1>6. ASSUME NEW f \in Fetcher, Fetched(f)
      PROVE  Sound'
  BY <1>6 DEF Fetched, Releases
<1>7. ASSUME NEW f \in Fetcher, Dropped(f)
      PROVE  Sound'
  BY <1>7 DEF Dropped, Releases
<1>8. CASE UNCHANGED browserVars
  BY <1>8 DEF browserVars
<1> QED
  BY <1>1, <1>2, <1>3, <1>4, <1>5, <1>6, <1>7, <1>8 DEF BrowserNext

(* No more than one start, and none beside a running browser. *)
LEMMA OneStart ==
  ASSUME Sound
  PROVE  Cardinality({f \in Fetcher : fetch[f] = "starting"}) <= (IF session = "up" THEN 0 ELSE 1)
<1> DEFINE starting == {f \in Fetcher : fetch[f] = "starting"}
<1>1. starting \subseteq {starter}
  BY BrowserAssumption DEF Sound, OwnPlace
<1>2. IsFiniteSet({starter}) /\ Cardinality({starter}) = 1
  BY FS_Singleton
<1>3. Cardinality(starting) \in Nat /\ Cardinality(starting) <= 1
  BY <1>1, <1>2, FS_Subset, FS_CardinalityType
<1>4. CASE session = "up"
  <2>1. starting = {}
    BY <1>4, BrowserAssumption DEF Sound, OwnPlace
  <2>2. Cardinality(starting) = 0
    BY <2>1, FS_EmptySet
  <2> QED
    BY <1>4, <2>2
<1> QED
  BY <1>3, <1>4

(* stealthweb.fetch_browser: however fetches, cancellations and failing    *)
(* clears interleave, a page of one host never loads with cookies another  *)
(* host's page left, and the browser is started once.                      *)
THEOREM CookiesAtHome == BrowserSpec => []CookiesStayHome
<1>1. Sound => CookiesStayHome
  BY OneStart DEF Sound, OwnPlace, Jar, CookiesStayHome
<1>2. Sound /\ [BrowserNext]_browserVars => Sound'
  BY SoundStep
<1> QED
  BY <1>1, <1>2, SoundInit, PTL DEF BrowserSpec

(* _get_session and fetch_browser (`async with`): a lock is let go by      *)
(* whoever held it, however the start or the fetch behind it ends.         *)
THEOREM LocksAreLetGo == BrowserSpec => []HeldAtWork
<1>1. BrowserInit => HeldAtWork
  BY DEF BrowserInit, HeldAtWork
<1>2. ASSUME Sound, HeldAtWork, [BrowserNext]_browserVars
      PROVE  HeldAtWork'
  <2> USE <1>2, BrowserAssumption DEF Sound, OwnPlace, HeldAtWork, Goes
  <2>1. ASSUME NEW f \in Fetcher, NEW h \in Host, BeginFetch(f, h)
        PROVE  HeldAtWork'
    BY <2>1 DEF BeginFetch
  <2>2. ASSUME NEW f \in Fetcher, Started(f) \/ Checked(f)
        PROVE  HeldAtWork'
    BY <2>2 DEF Started, Checked
  <2>3. ASSUME NEW f \in Fetcher, Turn(f) \/ Cleared(f)
        PROVE  HeldAtWork'
    BY <2>3 DEF Turn, Cleared
  <2>4. ASSUME NEW f \in Fetcher, Fetched(f) \/ Dropped(f)
        PROVE  HeldAtWork'
    BY <2>4 DEF Fetched, Dropped, Releases
  <2>5. CASE UNCHANGED browserVars
    BY <2>5 DEF browserVars
  <2> QED
    BY <2>1, <2>2, <2>3, <2>4, <2>5 DEF BrowserNext
<1>3. Sound /\ [BrowserNext]_browserVars => Sound'
  BY SoundStep
<1>4. Sound /\ HeldAtWork /\ [BrowserNext]_browserVars => HeldAtWork'
  BY <1>2
<1> QED
  BY <1>1, <1>3, <1>4, SoundInit, PTL DEF BrowserSpec

-----------------------------------------------------------------------------
(* One WhatsMyName scan, for any sites and any budget                      *)

(* What is left and what was spent make up the budget; a site is asked if  *)
(* policy lets it be, and asked again only if it did not say slow down.    *)
Accounted ==
  /\ left \in Nat /\ disguises \in Nat /\ left + disguises = Budget
  /\ doing \in [WmnSite -> {"waiting", "asking", "disguised", "reported"}]
  /\ \A s \in WmnSite :
       /\ doing[s] = "waiting" => s \notin limited
       /\ doing[s] = "asking" => s \notin Denied \cup limited
       /\ doing[s] = "disguised" => s \in HighValue \ (Denied \cup limited)

LEMMA AccountedInit == WmnInit => Accounted
BY WmnAssumption DEF WmnInit, Accounted

LEMMA AccountedStep == Accounted /\ [WmnNext]_wmnVars => Accounted'
<1> SUFFICES ASSUME Accounted, [WmnNext]_wmnVars PROVE Accounted'
  OBVIOUS
<1>1. ASSUME NEW s \in WmnSite, BeginSite(s)
      PROVE  Accounted'
  BY <1>1 DEF BeginSite, Report, Accounted
<1>2. ASSUME NEW s \in WmnSite, NEW r \in Fetch, Judge(s, r)
      PROVE  Accounted'
  <2>1. doing[s] = "asking" /\ s \notin Denied \cup limited
    BY <1>2 DEF Judge, Accounted
  <2>2. CASE doing' = [doing EXCEPT ![s] = "disguised"]
    <3>1. r.code # "limit" /\ s \in HighValue /\ left > 0
          /\ left' = left - 1 /\ disguises' = disguises + 1
      BY <1>2, <2>1, <2>2 DEF Judge, Report, Accounted
    <3>2. limited' = limited
      BY <1>2, <3>1 DEF Judge
    <3> QED
      BY <2>1, <2>2, <3>1, <3>2 DEF Accounted
  <2>3. CASE doing' = [doing EXCEPT ![s] = "reported"]
    <3>1. left' = left /\ disguises' = disguises
      BY <1>2, <2>1, <2>3 DEF Judge, Report, Accounted
    <3>2. limited' \subseteq limited \cup {s}
      BY <1>2 DEF Judge
    <3> QED
      BY <2>3, <3>1, <3>2 DEF Accounted
  <2> QED
    BY <1>2, <2>2, <2>3 DEF Judge, Report
<1>3. ASSUME NEW s \in WmnSite, NEW r \in Fetch, Recover(s, r)
      PROVE  Accounted'
  BY <1>3 DEF Recover, Report, Accounted
<1>4. CASE Gathered \/ CancelScan \/ UNCHANGED wmnVars
  BY <1>4 DEF Gathered, CancelScan, wmnVars, Accounted
<1> QED
  BY <1>1, <1>2, <1>3, <1>4 DEF WmnNext

(* whatsmyname._check_site: however the checks of a scan interleave, no    *)
(* more than its budget of disguised requests is sent, none to a site that *)
(* asked to slow down or that policy denies.                               *)
THEOREM StealthBounded == WmnSpec => []StealthIsBounded
<1>1. Accounted => StealthIsBounded
  BY DEF Accounted, StealthIsBounded
<1> QED
  BY <1>1, AccountedInit, AccountedStep, PTL DEF WmnSpec

-----------------------------------------------------------------------------
(* The quick scan: its thread, its queue and its response                  *)

(* What the client was told or is to be told, in whatever order.           *)
Kind == {"user_start", "found", "error", "retry", "user_done", "fatal", "done", "sentinel"}
Word == ToSet(Names) \cup {""}
Message == Kind \X Word \X (Sites \cup {""} \cup SUBSET (Word \X Nat))
Told == (sent \cup ToSet(posts)) \ {Sentinel}
Fatal == <<"fatal", "", "">>
Figures == {<<h[1], Cardinality(h[2])>> : h \in history}
InPass == {"scanning", "retrying", "saving"}

QuickTyped ==
  /\ thread \in InPass \cup {"setup", "next", "finally", "over"}
  /\ user \in 1..(Len(Names) + 1) /\ (thread \in InPass => user <= Len(Names))
  /\ claimed \subseteq Sites
  /\ open \subseteq Sites /\ failed \subseteq Sites
  /\ posts \in Seq(Message)
  /\ history \subseteq Word \X SUBSET Sites
  /\ response \in {"streaming", "ended", "gone"}

(* The sentinel is the last thing the thread posts, and the last taken.    *)
EndedWell ==
  /\ \A i \in DOMAIN posts : posts[i] = Sentinel => i = Len(posts) /\ thread = "over"
  /\ response = "ended" => thread = "over" /\ posts = <<>>
  /\ thread = "over" /\ response # "ended" => Sentinel \in ToSet(posts)

(* Every row has its figures and its finds told; the pass under way, its   *)
(* finds; every username gone through, its end; an early end, its reason.  *)
Owed ==
  /\ summary = Figures
  /\ \A h \in history : \A s \in h[2] : <<"found", h[1], s>> \in Told
  /\ thread \in InPass => \A s \in claimed : <<"found", Names[user], s>> \in Told
  /\ \A i \in 1..(user - 1) : <<"user_done", Names[i], "">> \in Told
  /\ thread \in {"finally", "over"} => Fatal \in Told \/ user > Len(Names)
  /\ thread = "over" => <<"done", "", summary>> \in Told

QuickInv == QuickTyped /\ EndedWell /\ Owed

LEMMA EventTypes ==
  ASSUME NEW k \in Kind \ {"sentinel"}, NEW n \in Word
  PROVE  /\ \A x \in Sites \cup {""} : <<k, n, x>> \in Message /\ <<k, n, x>> # Sentinel
         /\ \A x \in SUBSET (Word \X Nat) : <<k, n, x>> \in Message /\ <<k, n, x>> # Sentinel
         /\ Sentinel \in Message
<1>1. \A x \in Sites \cup {""} : <<k, n, x>> \in Message
  BY DEF Message
<1>2. \A x \in SUBSET (Word \X Nat) : <<k, n, x>> \in Message
  BY DEF Message
<1>3. \A x : <<k, n, x>> # Sentinel
  BY DEF Sentinel
<1>4. Sentinel \in Message
  BY DEF Message, Sentinel, Kind, Word
<1> QED
  BY <1>1, <1>2, <1>3, <1>4

LEMMA NameTypes == Len(Names) \in Nat /\ \A i \in 1..Len(Names) : Names[i] \in Word
<1>1. Names \in Seq(STRING) /\ DOMAIN Names = 1..Len(Names) /\ Len(Names) \in Nat
  BY QuickAssumption, LenProperties
<1> QED
  BY <1>1 DEF Word, ToSet

LEMMA Posted ==
  ASSUME posts \in Seq(Message), NEW es \in Seq(Message), Post(es), sent' = sent
  PROVE  /\ posts' \in Seq(Message)
         /\ Len(posts') = Len(posts) + Len(es)
         /\ \A i \in DOMAIN posts' : posts'[i] = IF i <= Len(posts) THEN posts[i]
                                                 ELSE es[i - Len(posts)]
         /\ ToSet(posts') = ToSet(posts) \cup ToSet(es)
         /\ Told \subseteq Told'
         /\ \A i \in DOMAIN es : es[i] # Sentinel => es[i] \in Told'
<1>1. posts' = posts \o es
  BY DEF Post
<1>2. /\ posts' \in Seq(Message) /\ Len(posts') = Len(posts) + Len(es)
      /\ \A i \in 1..(Len(posts) + Len(es)) :
           posts'[i] = IF i <= Len(posts) THEN posts[i] ELSE es[i - Len(posts)]
  BY <1>1, ConcatProperties
<1>3. DOMAIN posts' = 1..(Len(posts) + Len(es)) /\ DOMAIN posts = 1..Len(posts)
      /\ DOMAIN es = 1..Len(es) /\ Len(posts) \in Nat /\ Len(es) \in Nat
  BY <1>2, LenProperties
<1>4. ToSet(posts') = ToSet(posts) \cup ToSet(es)
  <2>1. ToSet(posts') \subseteq ToSet(posts) \cup ToSet(es)
    <3>1. ASSUME NEW i \in DOMAIN posts' PROVE posts'[i] \in ToSet(posts) \cup ToSet(es)
      <4>1. CASE i <= Len(posts)
        <5>1. i \in DOMAIN posts /\ posts'[i] = posts[i]
          BY <1>2, <1>3, <4>1
        <5> QED
          BY <5>1 DEF ToSet
      <4>2. CASE i > Len(posts)
        <5>1. i - Len(posts) \in DOMAIN es /\ posts'[i] = es[i - Len(posts)]
          BY <1>2, <1>3, <4>2
        <5> QED
          BY <5>1 DEF ToSet
      <4> QED
        BY <1>3, <4>1, <4>2
    <3> QED
      BY <3>1 DEF ToSet
  <2>2. ASSUME NEW i \in DOMAIN posts PROVE posts[i] \in ToSet(posts')
    <3>1. i \in DOMAIN posts' /\ posts'[i] = posts[i]
      BY <1>2, <1>3
    <3> QED
      BY <3>1 DEF ToSet
  <2>3. ASSUME NEW i \in DOMAIN es PROVE es[i] \in ToSet(posts')
    <3>1. i + Len(posts) \in DOMAIN posts' /\ posts'[i + Len(posts)] = es[i]
      BY <1>2, <1>3
    <3> QED
      BY <3>1 DEF ToSet
  <2>4. ToSet(posts) \subseteq ToSet(posts')
    BY <2>2 DEF ToSet
  <2>5. ToSet(es) \subseteq ToSet(posts')
    BY <2>3 DEF ToSet
  <2> QED
    BY <2>1, <2>4, <2>5
<1>5. \A i \in DOMAIN es : es[i] \in ToSet(es)
  BY DEF ToSet
<1>6. Sentinel' = Sentinel
  BY DEF Sentinel
<1> QED
  BY <1>2, <1>3, <1>4, <1>5, <1>6 DEF Told

LEMMA Sequels ==
  /\ \A m \in Message : <<m>> \in Seq(Message) /\ Len(<<m>>) = 1 /\ DOMAIN <<m>> = {1}
  /\ \A m, n \in Message : <<m, n>> \in Seq(Message) /\ Len(<<m, n>>) = 2
                            /\ DOMAIN <<m, n>> = {1, 2}
OBVIOUS

(* One more event that is not the sentinel, from a thread that goes on.    *)
LEMMA PostedOne ==
  ASSUME QuickTyped, EndedWell, NEW m \in Message, m # Sentinel, Post(<<m>>), sent' = sent,
         thread # "over", thread' # "over", response' = response
  PROVE  posts' \in Seq(Message) /\ EndedWell' /\ Told \subseteq Told' /\ m \in Told'
<1>0. posts \in Seq(Message)
  BY DEF QuickTyped
<1>1. <<m>> \in Seq(Message) /\ Len(<<m>>) = 1 /\ DOMAIN <<m>> = {1} /\ <<m>>[1] = m
  BY Sequels
<1>2. /\ posts' \in Seq(Message) /\ Len(posts') = Len(posts) + 1
      /\ \A i \in DOMAIN posts' : posts'[i] = IF i <= Len(posts) THEN posts[i]
                                              ELSE <<m>>[i - Len(posts)]
      /\ Told \subseteq Told' /\ m \in Told'
  BY ZenonT(30), <1>0, <1>1, Posted
<1>3. DOMAIN posts' = 1..(Len(posts) + 1) /\ DOMAIN posts = 1..Len(posts) /\ Len(posts) \in Nat
  BY <1>0, <1>2, LenProperties
<1>4. \A i \in DOMAIN posts : posts[i] # Sentinel
  BY DEF EndedWell
<1>5. \A i \in DOMAIN posts' : posts'[i] # Sentinel
  BY <1>1, <1>2, <1>3, <1>4
<1>6. response # "ended"
  BY DEF EndedWell
<1>7. Sentinel' = Sentinel
  BY DEF Sentinel
<1> QED
  BY <1>2, <1>5, <1>6, <1>7 DEF EndedWell

LEMMA QuickInitial == QuickInit => QuickInv
<1> SUFFICES ASSUME QuickInit PROVE QuickInv
  OBVIOUS
<1> USE QuickAssumption DEF QuickInit
<1>1. posts \in Seq(Message) /\ DOMAIN posts = {} /\ Len(Names) \in Nat
  BY EmptySeq, LenProperties
<1>2. QuickTyped
  BY <1>1 DEF QuickTyped, InPass
<1>3. EndedWell
  BY <1>1 DEF EndedWell
<1>4. Owed
  BY DEF Owed, Figures, InPass
<1> QED
  BY <1>2, <1>3, <1>4 DEF QuickInv

(* Steps of the thread that post nothing and leave the pass as it is.      *)
LEMMA SilentStep ==
  ASSUME ~Postgres, QuickInv, Setup \/ RetryOver \/ AllScanned
  PROVE  QuickInv'
<1> USE QuickAssumption
<1>1. UNCHANGED <<user, open, claimed, failed, posts, summary, history, response, sent>>
  BY DEF Setup, RetryOver, AllScanned
<1>2. \/ thread = "setup" /\ thread' = "next"
      \/ thread = "retrying" /\ thread' = "saving"
      \/ thread = "next" /\ thread' = "finally" /\ user > Len(Names)
  BY DEF Setup, RetryOver, AllScanned
<1>3. Told' = Told /\ Figures' = Figures /\ Sentinel' = Sentinel /\ Fatal' = Fatal
  BY <1>1 DEF Told, Figures, Sentinel, Fatal
<1>4. QuickTyped'
  BY <1>1, <1>2 DEF QuickInv, QuickTyped, InPass
<1>5. EndedWell'
  BY <1>1, <1>2, <1>3 DEF QuickInv, EndedWell
<1>6. Owed'
  BY <1>1, <1>2, <1>3 DEF QuickInv, Owed, InPass
<1> QED
  BY <1>4, <1>5, <1>6 DEF QuickInv

(* Steps that post one event and store nothing.                            *)
LEMMA TellingStep ==
  ASSUME ~Postgres, QuickInv,
         UserStart \/ PassOver \/ Raise \/ (\E s \in Sites : Update(s))
  PROVE  QuickInv'
<1> USE QuickAssumption DEF QuickInv
<1>1. UNCHANGED <<user, summary, history, response, sent>> /\ thread # "over" /\ thread' # "over"
  BY DEF UserStart, PassOver, Raise, Update, QuickTyped
<1>0. thread \in InPass => Names[user] \in Word
  BY NameTypes DEF QuickTyped
<1>2. \/ posts' = posts
      \/ \E m \in Message : m # Sentinel /\ Post(<<m>>)
  <2>1. CASE UserStart
    <3>1. Names[user] \in Word /\ Post(<<Event("user_start")>>)
      BY <2>1, NameTypes DEF UserStart, QuickTyped
    <3>2. Event("user_start") \in Message /\ Event("user_start") # Sentinel
      BY <3>1, EventTypes DEF Event, Kind
    <3> QED
      BY <3>1, <3>2
  <2>2. CASE PassOver
    <3>1. Names[user] \in Word /\ (posts' = posts \/ Post(<<Event("retry")>>))
      BY <1>0, <2>2 DEF PassOver, InPass
    <3>2. Event("retry") \in Message /\ Event("retry") # Sentinel
      BY <3>1, EventTypes DEF Event, Kind
    <3> QED
      BY <3>1, <3>2
  <2>3. CASE Raise
    <3>1. Post(<<Fatal>>)
      BY <2>3 DEF Raise, Fatal
    <3>2. Fatal \in Message /\ Fatal # Sentinel
      BY EventTypes DEF Fatal, Kind, Word
    <3> QED
      BY <3>1, <3>2
  <2>4. ASSUME NEW s \in Sites, Update(s)
        PROVE  posts' = posts \/ \E m \in Message : m # Sentinel /\ Post(<<m>>)
    <3> DEFINE u == Names[user]
    <3>1. u \in Word
      BY <1>0, <2>4 DEF Update, InPass
    <3>2. posts' = posts \/ Post(<< <<"found", u, s>> >>) \/ Post(<< <<"error", u, s>> >>)
      BY <2>4 DEF Update
    <3> HIDE DEF u
    <3>3. /\ <<"found", u, s>> \in Message /\ <<"found", u, s>> # Sentinel
          /\ <<"error", u, s>> \in Message /\ <<"error", u, s>> # Sentinel
      BY <3>1, EventTypes DEF Kind
    <3> QED
      BY <3>2, <3>3
  <2> QED
    BY <2>1, <2>2, <2>3, <2>4
<1>3. posts' \in Seq(Message) /\ EndedWell' /\ Told \subseteq Told'
  <2>1. CASE posts' = posts
    BY <1>1, <2>1 DEF Told, EndedWell, Sentinel, QuickTyped
  <2>2. ASSUME NEW m \in Message, m # Sentinel, Post(<<m>>)
        PROVE  posts' \in Seq(Message) /\ EndedWell' /\ Told \subseteq Told'
    BY <1>1, <2>2, PostedOne
  <2> QED
    BY <1>2, <2>1, <2>2
<1>4. Figures' = Figures
  BY <1>1 DEF Figures
<1>5. QuickTyped'
  BY <1>1, <1>3 DEF UserStart, PassOver, Raise, Update, QuickTyped, InPass
<1>6. thread' \in InPass => \A s \in claimed' : <<"found", Names[user], s>> \in Told'
  <2>1. CASE UserStart
    BY <2>1 DEF UserStart
  <2>2. CASE PassOver \/ Raise
    BY <1>3, <2>2 DEF PassOver, Raise, Owed, InPass
  <2>3. ASSUME NEW s \in Sites, Update(s)
        PROVE  \A t \in claimed' : <<"found", Names[user], t>> \in Told'
    <3>1. thread \in InPass
      BY <2>3 DEF Update, InPass
    <3>2. \A t \in claimed : <<"found", Names[user], t>> \in Told'
      BY <1>3, <3>1 DEF Owed
    <3>3. CASE claimed' = claimed
      BY <3>2, <3>3
    <3>4. CASE claimed' # claimed
      <4> DEFINE m == <<"found", Names[user], s>>
      <4>1. claimed' = claimed \cup {s} /\ Post(<<m>>)
        BY <2>3, <3>4 DEF Update
      <4>2. m \in Message /\ m # Sentinel
        BY <1>0, <3>1, EventTypes DEF Kind
      <4>3. m \in Told'
        BY <1>1, <4>1, <4>2, PostedOne
      <4> QED
        BY <3>2, <4>1, <4>3
    <3> QED
      BY <3>3, <3>4
  <2> QED
    BY <2>1, <2>2, <2>3
<1>7. thread' = "finally" => Fatal \in Told'
  <2>1. CASE Raise
    <3>1. Fatal \in Message /\ Fatal # Sentinel
      BY EventTypes DEF Fatal, Kind, Word
    <3>2. Post(<<Fatal>>)
      BY <2>1 DEF Raise, Fatal
    <3> QED
      BY <1>1, <3>1, <3>2, PostedOne
  <2>2. CASE ~Raise
    BY <2>2 DEF UserStart, PassOver, Update
  <2> QED
    BY <2>1, <2>2
<1>8. Owed'
  BY <1>1, <1>3, <1>4, <1>6, <1>7 DEF Owed, Fatal
<1> QED
  BY <1>3, <1>5, <1>8

(* The row and its figures, and the word to the client.                    *)
LEMMA SaveStep ==
  ASSUME ~Postgres, QuickInv, Save
  PROVE  QuickInv'
<1> USE QuickAssumption DEF QuickInv
<1> DEFINE u == Names[user]
           m == <<"user_done", u, "">>
           row == <<u, claimed>>
<1>1. /\ thread = "saving" /\ thread' = "next" /\ user' = user + 1
      /\ history' = history \cup {row}
      /\ summary' = summary \cup {<<u, Cardinality(claimed)>>}
      /\ Post(<<m>>) /\ UNCHANGED <<open, claimed, failed, response, sent>>
  BY DEF Save, Event
<1>2. user \in Nat /\ Len(Names) \in Nat /\ 1 <= user /\ user <= Len(Names) /\ u \in Word
  <2>1. thread \in InPass
    BY <1>1 DEF InPass
  <2>2. user \in 1..(Len(Names) + 1) /\ user <= Len(Names)
    BY <2>1 DEF QuickTyped
  <2> QED
    BY <2>2, NameTypes
<1>3. m \in Message /\ m # Sentinel
  BY <1>2, EventTypes DEF Kind
<1>4. posts' \in Seq(Message) /\ EndedWell' /\ Told \subseteq Told' /\ m \in Told'
  BY <1>1, <1>3, PostedOne
<1>5. QuickTyped'
  <2>1. row \in Word \X SUBSET Sites
    BY <1>2 DEF QuickTyped
  <2>2. history' \subseteq Word \X SUBSET Sites
    BY <1>1, <2>1 DEF QuickTyped
  <2> HIDE DEF row, m, u
  <2> QED
    BY <1>1, <1>2, <1>4, <2>2 DEF QuickTyped, InPass
<1>6. summary' = Figures'
  <2>1. summary = {<<h[1], Cardinality(h[2])>> : h \in history}
    BY DEF Owed, Figures
  <2>2. row[1] = u /\ row[2] = claimed
    OBVIOUS
  <2> HIDE DEF row
  <2>3. {<<h[1], Cardinality(h[2])>> : h \in history \cup {row}}
          = {<<h[1], Cardinality(h[2])>> : h \in history} \cup {<<row[1], Cardinality(row[2])>>}
    OBVIOUS
  <2> QED
    BY <1>1, <2>1, <2>2, <2>3 DEF Figures
<1>7. \A h \in history' : \A s \in h[2] : <<"found", h[1], s>> \in Told'
  <2>1. \A h \in history : \A s \in h[2] : <<"found", h[1], s>> \in Told'
    BY <1>4 DEF Owed
  <2>2. \A s \in row[2] : <<"found", row[1], s>> \in Told'
    BY <1>1, <1>4 DEF Owed, InPass
  <2> QED
    BY <1>1, <2>1, <2>2
<1>8. \A i \in 1..(user' - 1) : <<"user_done", Names[i], "">> \in Told'
  <2>1. \A i \in 1..(user - 1) : <<"user_done", Names[i], "">> \in Told'
    BY <1>4 DEF Owed
  <2>2. \A i \in 1..(user' - 1) : i \in 1..(user - 1) \/ i = user
    <3>1. user' = user + 1 /\ user \in Nat
      BY <1>1, <1>2
    <3> QED
      BY <3>1
  <2> QED
    BY <1>4, <2>1, <2>2
<1>9. thread' \notin InPass \cup {"finally", "over"}
  BY <1>1 DEF InPass
<1>10. Owed'
  BY <1>6, <1>7, <1>8, <1>9 DEF Owed, InPass
<1> QED
  BY <1>4, <1>5, <1>10

(* `done` and the sentinel.                                                *)
LEMMA FinallyStep ==
  ASSUME ~Postgres, QuickInv, Finally
  PROVE  QuickInv'
<1> USE QuickAssumption DEF QuickInv
<1> DEFINE d == <<"done", "", summary>>
           es == <<d, Sentinel>>
<1>1. /\ thread = "finally" /\ thread' = "over" /\ Post(es)
      /\ UNCHANGED <<user, open, claimed, failed, summary, history, response, sent>>
  BY DEF Finally
<1>2. posts \in Seq(Message) /\ Len(posts) \in Nat
  BY DEF QuickTyped
<1>3. d \in Message /\ Sentinel \in Message /\ d # Sentinel
  <2>1. \A h \in history : h[1] \in Word /\ Cardinality(h[2]) \in Nat
    BY FS_Subset, FS_CardinalityType DEF QuickTyped
  <2>2. \A h \in history : <<h[1], Cardinality(h[2])>> \in Word \X Nat
    BY <2>1
  <2>3. summary \in SUBSET (Word \X Nat)
    BY <2>2 DEF Owed, Figures
  <2> QED
    <3>1. "done" \in Kind \ {"sentinel"} /\ "" \in Word
      BY DEF Kind, Word
    <3> QED
      BY <2>3, <3>1, EventTypes
<1>4. es \in Seq(Message) /\ Len(es) = 2 /\ DOMAIN es = {1, 2} /\ es[1] = d /\ es[2] = Sentinel
  BY <1>3, Sequels
<1>5. /\ posts' \in Seq(Message) /\ Len(posts') = Len(posts) + 2
      /\ \A i \in DOMAIN posts' : posts'[i] = IF i <= Len(posts) THEN posts[i]
                                              ELSE es[i - Len(posts)]
      /\ ToSet(posts') = ToSet(posts) \cup ToSet(es)
      /\ Told \subseteq Told'
      /\ \A i \in DOMAIN es : es[i] # Sentinel => es[i] \in Told'
  <2> HIDE DEF es
  <2> QED
    BY <1>1, <1>2, <1>4, Posted
<1>6. d \in Told' /\ Sentinel \in ToSet(posts')
  <2>1. Sentinel \in ToSet(es)
    BY <1>4 DEF ToSet
  <2> QED
    BY <1>3, <1>4, <1>5, <2>1
<1>7. DOMAIN posts' = 1..(Len(posts) + 2) /\ DOMAIN posts = 1..Len(posts)
  BY <1>2, <1>5, LenProperties
<1>8. \A i \in DOMAIN posts : posts[i] # Sentinel
  BY <1>1 DEF EndedWell
<1>9. \A i \in DOMAIN posts' : posts'[i] = Sentinel => i = Len(posts')
  <2> HIDE DEF d, es
  <2> QED
    BY SMTT(30), <1>2, <1>3, <1>4, <1>5, <1>7, <1>8
<1>10. response # "ended"
  BY <1>1 DEF EndedWell
<1>11. EndedWell'
  <2>1. Sentinel' = Sentinel
    BY DEF Sentinel
  <2> QED
    BY <1>1, <1>6, <1>9, <1>10, <2>1 DEF EndedWell
<1>12. QuickTyped'
  BY <1>1, <1>5 DEF QuickTyped, InPass
<1>13. Owed'
  BY <1>1, <1>5, <1>6 DEF Owed, Figures, Fatal, InPass
<1> QED
  BY <1>11, <1>12, <1>13

(* The response takes an event: what was to be told is told, and behind    *)
(* the sentinel nothing is left.                                           *)
LEMMA TakeStep ==
  ASSUME QuickInv, Take
  PROVE  QuickInv'
<1> USE QuickAssumption DEF QuickInv
<1>1. /\ response = "streaming" /\ posts # <<>> /\ posts' = Tail(posts)
      /\ UNCHANGED <<thread, user, open, claimed, failed, summary, history>>
      /\ \/ Head(posts) = Sentinel /\ response' = "ended" /\ sent' = sent
         \/ Head(posts) # Sentinel /\ response' = response /\ sent' = sent \cup {Head(posts)}
  BY DEF Take
<1>2. /\ posts \in Seq(Message) /\ Len(posts) \in Nat /\ Len(posts) > 0
      /\ DOMAIN posts = 1..Len(posts) /\ Head(posts) = posts[1]
  BY <1>1, EmptySeq, LenProperties, HeadTailProperties DEF QuickTyped
<1>3. /\ posts' \in Seq(Message) /\ Len(posts') = Len(posts) - 1
      /\ DOMAIN posts' = 1..(Len(posts) - 1)
      /\ \A i \in 1..(Len(posts) - 1) : posts'[i] = posts[i + 1]
  BY <1>1, <1>2, HeadTailProperties, LenProperties
<1>4. \A i \in DOMAIN posts : i = 1 \/ (i - 1 \in DOMAIN posts' /\ posts'[i - 1] = posts[i])
  BY <1>2, <1>3
<1>5. ToSet(posts) \subseteq ToSet(posts') \cup {Head(posts)}
  BY <1>2, <1>4 DEF ToSet
<1>6. Told \subseteq Told'
  <2>1. Sentinel' = Sentinel
    BY DEF Sentinel
  <2> QED
    BY <1>1, <1>5, <2>1 DEF Told
<1>7. QuickTyped'
  BY <1>1, <1>3 DEF QuickTyped, InPass
<1>8. EndedWell'
  <2>1. CASE Head(posts) = Sentinel
    <3>1. Len(posts) = 1 /\ thread = "over"
      BY <1>2, <2>1 DEF EndedWell
    <3>2. posts' = <<>>
      BY <1>3, <3>1, EmptySeq
    <3> QED
      BY <1>1, <1>3, <2>1, <3>1, <3>2 DEF EndedWell
  <2>2. CASE Head(posts) # Sentinel
    <3>1. \A i \in DOMAIN posts' : posts'[i] = Sentinel => i = Len(posts') /\ thread = "over"
      <4> SUFFICES ASSUME NEW i \in DOMAIN posts', posts'[i] = Sentinel
                   PROVE  i = Len(posts') /\ thread = "over"
        OBVIOUS
      <4>1. i + 1 \in DOMAIN posts /\ posts[i + 1] = Sentinel
        BY <1>2, <1>3
      <4>2. i + 1 = Len(posts) /\ thread = "over"
        BY <4>1 DEF EndedWell
      <4> QED
        BY <1>2, <1>3, <4>2
    <3>2. thread = "over" => Sentinel \in ToSet(posts')
      BY <1>1, <1>5, <2>2 DEF EndedWell
    <3>3. response' # "ended"
      BY <1>1, <2>2
    <3>4. Sentinel' = Sentinel
      BY DEF Sentinel
    <3> QED
      BY <1>1, <3>1, <3>2, <3>3, <3>4 DEF EndedWell
  <2> QED
    BY <2>1, <2>2
<1>9. Owed'
  <2>1. Figures' = Figures /\ Fatal' = Fatal
    BY <1>1 DEF Figures, Fatal
  <2> QED
    BY <1>1, <1>6, <2>1 DEF Owed
<1> QED
  BY <1>7, <1>8, <1>9

LEMMA QuickStep ==
  ASSUME ~Postgres, QuickInv, [QuickNext]_quickVars
  PROVE  QuickInv'
<1>1. CASE Disconnect
  BY <1>1 DEF Disconnect, QuickInv, QuickTyped, EndedWell, Owed, Told, Figures, Fatal, Sentinel, InPass
<1>2. CASE UNCHANGED quickVars
  BY <1>2 DEF quickVars, QuickInv, QuickTyped, EndedWell, Owed, Told, Figures, Fatal, Sentinel, InPass
<1> QED
  BY <1>1, <1>2, SilentStep, TellingStep, SaveStep, FinallyStep, TakeStep DEF QuickNext

(* app._run_scan and event_gen: for any usernames and sites, however the   *)
(* thread fails and the response falls behind, the response is told to end *)
(* and had by then been told all of it.  The database is SQLite, whose     *)
(* errors the store of site health keeps to itself.                        *)
THEOREM ResponsesAreWhole ==
  ASSUME ~Postgres
  PROVE  QuickSpec => []ResponseIsWhole
<1>1. QuickInv => ResponseIsWhole
  <2> SUFFICES ASSUME QuickInv PROVE ResponseIsWhole
    OBVIOUS
  <2> USE QuickAssumption DEF QuickInv
  <2>1. thread \in {"over", "dead"} /\ response = "streaming" => Contains(posts, Sentinel)
    <3>1. thread # "dead"
      BY DEF QuickTyped, InPass
    <3>2. DOMAIN posts = 1..Len(posts)
      BY LenProperties DEF QuickTyped
    <3> QED
      BY <3>1, <3>2 DEF EndedWell, ToSet, Contains
  <2>2. ASSUME response = "ended"
        PROVE  /\ \E e \in sent : e[1] = "done"
                                  /\ e[3] = {<<h[1], Cardinality(h[2])>> : h \in history}
               /\ \A h \in history : \A s \in h[2] : <<"found", h[1], s>> \in sent
               /\ \/ \E e \in sent : e[1] = "fatal"
                  \/ \A i \in 1..Len(Names) : <<"user_done", Names[i], "">> \in sent
    <3>1. thread = "over" /\ Told \subseteq sent
      BY <2>2 DEF EndedWell, Told, ToSet
    <3>2. <<"done", "", Figures>> \in sent
      BY <3>1 DEF Owed
    <3>3. \E e \in sent : e[1] = "done" /\ e[3] = Figures
      <4>1. <<"done", "", Figures>>[1] = "done" /\ <<"done", "", Figures>>[3] = Figures
        OBVIOUS
      <4> QED
        BY <3>2, <4>1
    <3>4. \A h \in history : \A s \in h[2] : <<"found", h[1], s>> \in sent
      BY <3>1 DEF Owed
    <3>5. CASE Fatal \in Told
      BY <3>1, <3>3, <3>4, <3>5 DEF Fatal, Figures
    <3>6. CASE user > Len(Names)
      <4>1. 1..Len(Names) \subseteq 1..(user - 1)
        BY <3>6 DEF QuickTyped
      <4>2. \A i \in 1..Len(Names) : <<"user_done", Names[i], "">> \in sent
        BY <3>1, <4>1 DEF Owed
      <4> QED
        BY <3>3, <3>4, <4>2 DEF Figures
    <3> QED
      BY <3>1, <3>5, <3>6 DEF Owed
  <2> QED
    BY <2>1, <2>2 DEF ResponseIsWhole
<1>2. QuickInv /\ [QuickNext]_quickVars => QuickInv'
  BY QuickStep
<1> QED
  BY <1>1, <1>2, QuickInitial, PTL DEF QuickSpec

-----------------------------------------------------------------------------
(* The migrations of any number of processes                               *)

(* Everything a boot makes; the monitor's tables only with recon.          *)
Item == {Statement[i] : i \in 1..LastStep} \ {"read", "commit"}
Owes(p) == IF recon[p] THEN Item ELSE Item \ {"monitor"}

MigrationTyped ==
  /\ postgres \in BOOLEAN
  /\ db \subseteq Item
  /\ txn \in [Process -> SUBSET Item]
  /\ inTxn \in [Process -> BOOLEAN]
  /\ step \in [Process -> 0..(LastStep + 1)]
  /\ have \in [Process -> 0..2]
  /\ recon \in [Process -> BOOLEAN]
  /\ booted \in [Process -> BOOLEAN]

Recorded ==
  /\ V1 \in db => Baseline \subseteq db
  /\ V2 \in db => V1 \in db /\ Indexes \subseteq db

(* What a process passed over or made is there, for all to see or in its    *)
(* own transaction; it opens none before it has read the version, except   *)
(* around the table of versions; what it read is on record.                *)
Made(p) == \A i \in 1..LastStep : i < step[p] /\ Statement[i] \in Owes(p) => Statement[i] \in Sees(p)
Abreast ==
  \A p \in Process :
    /\ Made(p)
    /\ have[p] >= 1 => V1 \in db
    /\ have[p] >= 2 => V2 \in db
    /\ \A i \in 1..LastStep : Statement[i] \in txn[p] => i < step[p] /\ step[p] <= LastStep
    /\ booted[p] <=> step[p] = LastStep + 1

MigrationInv == MigrationTyped /\ Recorded /\ Abreast

LEMMA Statements ==
  /\ LastStep = 14
  /\ Statement[1] = "schema_version" /\ Statement[2] = "read" /\ Statement[3] = "runs"
  /\ Statement[4] = "runs.kind" /\ Statement[5] = "runs.investigation_id"
  /\ Statement[6] = "investigations" /\ Statement[7] = "investigations.started_at"
  /\ Statement[8] = V1 /\ Statement[9] = "idx_runs" /\ Statement[10] = "idx_investigations"
  /\ Statement[11] = V2 /\ Statement[12] = "monitor" /\ Statement[13] = "router"
  /\ Statement[14] = "commit"
BY DEF Statement, LastStep

(* Where a statement stands, so that no two are the same.                  *)
Place(x) ==
  CASE x = "schema_version" -> 1 [] x = "read" -> 2 [] x = "runs" -> 3 [] x = "runs.kind" -> 4
    [] x = "runs.investigation_id" -> 5 [] x = "investigations" -> 6
    [] x = "investigations.started_at" -> 7 [] x = V1 -> 8 [] x = "idx_runs" -> 9
    [] x = "idx_investigations" -> 10 [] x = V2 -> 11 [] x = "monitor" -> 12 [] x = "router" -> 13
    [] x = "commit" -> 14

LEMMA StatementsDiffer ==
  \A i, j \in 1..LastStep : Statement[i] = Statement[j] => i = j
<1>1. /\ Place(Statement[1]) = 1 /\ Place(Statement[2]) = 2 /\ Place(Statement[3]) = 3
      /\ Place(Statement[4]) = 4 /\ Place(Statement[5]) = 5 /\ Place(Statement[6]) = 6
      /\ Place(Statement[7]) = 7
  BY DEF Place, Statement, V1, V2
<1>2. /\ Place(Statement[8]) = 8 /\ Place(Statement[9]) = 9 /\ Place(Statement[10]) = 10
      /\ Place(Statement[11]) = 11 /\ Place(Statement[12]) = 12 /\ Place(Statement[13]) = 13
      /\ Place(Statement[14]) = 14
  BY DEF Place, Statement, V1, V2
<1>3. \A j \in 1..LastStep : Place(Statement[j]) = j
  BY <1>1, <1>2, Statements
<1> QED
  BY <1>3

LEMMA Items ==
  /\ Item = (Full \cup {"monitor"})
  /\ \A x \in Item : \E i \in 1..LastStep : Statement[i] = x
  /\ \A i \in 1..LastStep : Statement[i] \notin {"read", "commit"} => Statement[i] \in Item
<1>1. \A i \in 1..LastStep : i \in {1, 2, 3, 4, 5, 6, 7, 8, 9, 10, 11, 12, 13, 14}
  BY Statements
<1>2. Item \subseteq Full \cup {"monitor"}
  BY <1>1, Statements DEF Item, Full, Baseline, Tables, Columns, Indexes
<1>3. \A x \in Full \cup {"monitor"} : x \notin {"read", "commit"}
  BY DEF Full, Baseline, Tables, Columns, Indexes, V1, V2
<1>4. \A x \in Full \cup {"monitor"} : \E i \in 1..LastStep : Statement[i] = x
  <2>1. \A i \in {1, 2, 3, 4, 5, 6, 7, 8, 9, 10, 11, 12, 13, 14} : i \in 1..LastStep
    BY Statements
  <2> QED
    BY <2>1, Statements DEF Full, Baseline, Tables, Columns, Indexes
<1> QED
  BY <1>2, <1>3, <1>4 DEF Item

LEMMA MigrationInitial == MigrationInit => MigrationInv
<1> SUFFICES ASSUME MigrationInit PROVE MigrationInv
  OBVIOUS
<1>1. db \subseteq Item /\ Recorded
  BY Items DEF MigrationInit, Found, Recorded, Full, Baseline, Tables, Columns, Indexes, V1, V2
<1>2. MigrationTyped
  BY <1>1, Statements DEF MigrationInit, MigrationTyped
<1>3. Abreast
  BY Statements DEF MigrationInit, Abreast, Made
<1> QED
  BY <1>1, <1>2, <1>3 DEF MigrationInv

(* What holds of a process that the step leaves alone.                     *)
LEMMA Undisturbed ==
  ASSUME MigrationInv, NEW q \in Process, db \subseteq db', txn'[q] = txn[q], step'[q] = step[q],
         have'[q] = have[q], recon'[q] = recon[q], booted'[q] = booted[q]
  PROVE  /\ Made(q)'
         /\ have'[q] >= 1 => V1 \in db'
         /\ have'[q] >= 2 => V2 \in db'
         /\ \A i \in 1..LastStep : Statement[i] \in txn'[q] => i < step'[q] /\ step'[q] <= LastStep
         /\ booted'[q] <=> step'[q] = LastStep + 1
<1>2. Sees(q) \subseteq Sees(q)' /\ Owes(q)' = Owes(q)
  BY DEF Sees, Owes, Item
<1> QED
  BY <1>2 DEF MigrationInv, Abreast, Made

LEMMA BootStep ==
  ASSUME MigrationInv, NEW p \in Process, Boot(p)
  PROVE  MigrationInv'
<1>1. PICK r \in BOOLEAN : recon' = [recon EXCEPT ![p] = r]
  BY DEF Boot
<1>2. /\ step[p] = 0 /\ step' = [step EXCEPT ![p] = 1] /\ inTxn' = [inTxn EXCEPT ![p] = postgres]
      /\ have' = [have EXCEPT ![p] = 0] /\ booted' = [booted EXCEPT ![p] = FALSE]
      /\ postgres' = postgres /\ db' = db /\ txn' = txn
  BY DEF Boot
<1>3. txn' = [txn EXCEPT ![p] = txn[p]]
  BY <1>2 DEF MigrationInv, MigrationTyped
<1>4. MigrationTyped'
  BY <1>1, <1>2, Statements DEF MigrationInv, MigrationTyped, Item
<1>5. Recorded'
  BY <1>2 DEF MigrationInv, Recorded
<1>6. /\ step'[p] = 1 /\ have'[p] = 0 /\ booted'[p] = FALSE /\ txn'[p] = txn[p]
  BY <1>2 DEF MigrationInv, MigrationTyped
<1>7. \A i \in 1..LastStep : Statement[i] \notin txn[p]
  BY <1>2, Statements DEF MigrationInv, Abreast
<1>8. Abreast'
  <2> SUFFICES ASSUME NEW q \in Process
               PROVE  /\ Made(q)'
                      /\ have'[q] >= 1 => V1 \in db'
                      /\ have'[q] >= 2 => V2 \in db'
                      /\ \A i \in 1..LastStep : Statement[i] \in txn'[q] => i < step'[q] /\ step'[q] <= LastStep
                      /\ booted'[q] <=> step'[q] = LastStep + 1
    BY DEF Abreast, V1, V2
  <2>1. CASE q = p
    BY <1>6, <1>7, <2>1, Statements DEF Made
  <2>2. CASE q # p
    <3>1. db \subseteq db'
      BY <1>1, <1>2, <1>3
    <3>2. /\ txn'[q] = txn[q] /\ step'[q] = step[q] /\ have'[q] = have[q]
          /\ recon'[q] = recon[q] /\ booted'[q] = booted[q]
      BY <1>1, <1>2, <1>3, <2>2 DEF MigrationInv, MigrationTyped
    <3> QED
      BY <3>1, <3>2, Undisturbed
  <2> QED
    BY <2>1, <2>2
<1> QED
  BY <1>4, <1>5, <1>8 DEF MigrationInv

LEMMA DieStep ==
  ASSUME MigrationInv, NEW p \in Process, Die(p)
  PROVE  MigrationInv'
<1>2. /\ step' = [step EXCEPT ![p] = 0] /\ inTxn' = [inTxn EXCEPT ![p] = FALSE]
      /\ txn' = [txn EXCEPT ![p] = {}] /\ booted' = [booted EXCEPT ![p] = FALSE]
      /\ postgres' = postgres /\ db' = db /\ have' = have /\ recon' = recon
  BY DEF Die
<1>3. have' = [have EXCEPT ![p] = have[p]] /\ recon' = [recon EXCEPT ![p] = recon[p]]
  BY <1>2 DEF MigrationInv, MigrationTyped
<1>4. MigrationTyped'
  BY <1>2, Statements DEF MigrationInv, MigrationTyped, Item
<1>5. Recorded'
  BY <1>2 DEF MigrationInv, Recorded
<1>6. /\ step'[p] = 0 /\ have'[p] = have[p] /\ booted'[p] = FALSE /\ txn'[p] = {}
  BY <1>2 DEF MigrationInv, MigrationTyped
<1>8. Abreast'
  <2> SUFFICES ASSUME NEW q \in Process
               PROVE  /\ Made(q)'
                      /\ have'[q] >= 1 => V1 \in db'
                      /\ have'[q] >= 2 => V2 \in db'
                      /\ \A i \in 1..LastStep : Statement[i] \in txn'[q] => i < step'[q] /\ step'[q] <= LastStep
                      /\ booted'[q] <=> step'[q] = LastStep + 1
    BY DEF Abreast, V1, V2
  <2>1. CASE q = p
    <3>1. have[p] >= 1 => V1 \in db' BY <1>2 DEF MigrationInv, Abreast
    <3>2. have[p] >= 2 => V2 \in db' BY <1>2 DEF MigrationInv, Abreast
    <3> QED
      BY <1>6, <2>1, <3>1, <3>2, Statements DEF Made
  <2>2. CASE q # p
    <3>1. db \subseteq db'
      BY <1>2, <1>3
    <3>2. /\ txn'[q] = txn[q] /\ step'[q] = step[q] /\ have'[q] = have[q]
          /\ recon'[q] = recon[q] /\ booted'[q] = booted[q]
      BY <1>2, <1>3, <2>2 DEF MigrationInv, MigrationTyped
    <3> QED
      BY <3>1, <3>2, Undisturbed
  <2> QED
    BY <2>1, <2>2
<1> QED
  BY <1>4, <1>5, <1>8 DEF MigrationInv

(* The process reads the version: its own transaction has none.            *)
LEMMA ReadStep ==
  ASSUME MigrationInv, NEW p \in Process, Read(p)
  PROVE  MigrationInv'
<1>1. /\ have' = [have EXCEPT ![p] = Version(p)]
      /\ step' = [step EXCEPT ![p] = step[p] + 1]
      /\ postgres' = postgres /\ db' = db /\ txn' = txn /\ inTxn' = inTxn
      /\ recon' = recon /\ booted' = booted
      /\ step[p] \in 1..LastStep /\ Statement[step[p]] = "read"
  BY DEF Read, Advance
<1>2. step[p] = 2
  BY <1>1, StatementsDiffer, Statements
<1>3. V1 \notin txn[p] /\ V2 \notin txn[p]
  BY <1>2, Statements DEF MigrationInv, Abreast
<1>4. Version(p) \in 0..2 /\ (Version(p) >= 1 => V1 \in db) /\ (Version(p) >= 2 => V2 \in db)
  BY <1>3 DEF Version, Sees, MigrationInv, Recorded
<1>5. txn' = [txn EXCEPT ![p] = txn[p]] /\ recon' = [recon EXCEPT ![p] = recon[p]]
      /\ booted' = [booted EXCEPT ![p] = booted[p]]
  BY <1>1 DEF MigrationInv, MigrationTyped
<1>6. step'[p] = 3 /\ have'[p] = Version(p)
  BY <1>1, <1>2 DEF MigrationInv, MigrationTyped
<1>7. MigrationTyped'
  BY <1>1, <1>2, <1>4, Statements DEF MigrationInv, MigrationTyped, Item
<1>8. Recorded'
  BY <1>1 DEF MigrationInv, Recorded
<1>9. Made(p)'
  <2>1. \A i \in 1..LastStep : i < 3 => i < step[p] \/ Statement[i] = "read"
    BY <1>2, Statements
  <2>2. Sees(p)' = Sees(p) /\ Owes(p)' = Owes(p) /\ "read" \notin Owes(p)
    BY <1>1 DEF Sees, Owes, Item
  <2> QED
    BY <1>6, <2>1, <2>2 DEF MigrationInv, Abreast, Made
<1>10. Abreast'
  <2> SUFFICES ASSUME NEW q \in Process
               PROVE  /\ Made(q)'
                      /\ have'[q] >= 1 => V1 \in db'
                      /\ have'[q] >= 2 => V2 \in db'
                      /\ \A i \in 1..LastStep : Statement[i] \in txn'[q] => i < step'[q] /\ step'[q] <= LastStep
                      /\ booted'[q] <=> step'[q] = LastStep + 1
    BY DEF Abreast, V1, V2
  <2>1. CASE q = p
    <3>1. /\ \A i \in 1..LastStep : Statement[i] \in txn[p] => i < 2
          /\ booted[p] <=> 2 = LastStep + 1
      BY <1>2 DEF MigrationInv, Abreast
    <3>2. ~booted[p] /\ booted'[p] = booted[p] /\ txn'[p] = txn[p]
      BY <1>1, <3>1, Statements
    <3> QED
      BY <1>1, <1>4, <1>6, <1>9, <2>1, <3>1, <3>2, Statements
  <2>2. CASE q # p
    <3>1. db \subseteq db'
      BY <1>1, <1>5
    <3>2. /\ txn'[q] = txn[q] /\ step'[q] = step[q] /\ have'[q] = have[q]
          /\ recon'[q] = recon[q] /\ booted'[q] = booted[q]
      BY <1>1, <1>5, <2>2 DEF MigrationInv, MigrationTyped
    <3> QED
      BY <3>1, <3>2, Undisturbed
  <2> QED
    BY <2>1, <2>2
<1> QED
  BY <1>7, <1>8, <1>10 DEF MigrationInv

(* What is left out is there already; the version goes into the            *)
(* transaction, so that it is on record with what it stands for or not at all. *)
LEMMA MakeStep ==
  ASSUME MigrationInv, NEW p \in Process, Make(p)
  PROVE  MigrationInv'
<1> DEFINE x == Statement[step[p]]
<1>1. /\ step[p] \in 1..LastStep /\ x \notin {"read", "commit"}
      /\ step' = [step EXCEPT ![p] = step[p] + 1]
      /\ postgres' = postgres /\ have' = have /\ recon' = recon /\ booted' = booted
  BY DEF Make, Advance
<1>2. \/ (Skips(p, x) \/ x \in Sees(p)) /\ db' = db /\ txn' = txn /\ inTxn' = inTxn
      \/ /\ txn' = [txn EXCEPT ![p] = txn[p] \cup {x}]
         /\ inTxn' = [inTxn EXCEPT ![p] = TRUE] /\ db' = db
      \/ db' = db \cup {x} /\ x \notin {V1, V2} /\ txn' = txn /\ inTxn' = inTxn
  BY DEF Make
<1>3. x \in Item /\ step[p] \in Nat
  BY <1>1, Items
<1> HIDE DEF x
<1>4. txn' = [txn EXCEPT ![p] = txn'[p]] /\ db \subseteq db' /\ txn[p] \subseteq txn'[p]
  BY <1>2 DEF MigrationInv, MigrationTyped
<1>5. /\ have' = [have EXCEPT ![p] = have[p]] /\ recon' = [recon EXCEPT ![p] = recon[p]]
      /\ booted' = [booted EXCEPT ![p] = booted[p]]
  BY <1>1 DEF MigrationInv, MigrationTyped
<1>6. MigrationTyped'
  <2>1. db' \subseteq Item /\ txn' \in [Process -> SUBSET Item] /\ inTxn' \in [Process -> BOOLEAN]
    <3>2. /\ db \subseteq Item /\ txn \in [Process -> SUBSET Item] /\ inTxn \in [Process -> BOOLEAN]
          /\ txn[p] \cup {x} \in SUBSET Item
      BY <1>3 DEF MigrationInv, MigrationTyped
    <3>3. CASE db' = db /\ txn' = txn /\ inTxn' = inTxn
      BY <3>2, <3>3
    <3>4. CASE /\ txn' = [txn EXCEPT ![p] = txn[p] \cup {x}]
               /\ inTxn' = [inTxn EXCEPT ![p] = TRUE] /\ db' = db
      BY <3>2, <3>4
    <3>5. CASE db' = db \cup {x} /\ txn' = txn /\ inTxn' = inTxn
      BY <1>3, <3>2, <3>5
    <3> QED
      BY <1>2, <3>3, <3>4, <3>5
  <2>2. step' \in [Process -> 0..(LastStep + 1)]
    BY <1>1, Statements DEF MigrationInv, MigrationTyped
  <2>3. /\ postgres' \in BOOLEAN /\ have' \in [Process -> 0..2] /\ recon' \in [Process -> BOOLEAN]
        /\ booted' \in [Process -> BOOLEAN]
    BY <1>1 DEF MigrationInv, MigrationTyped
  <2> QED
    BY <2>1, <2>2, <2>3 DEF MigrationTyped, Item
<1>7. Recorded'
  BY <1>2 DEF MigrationInv, Recorded
<1>8. x \in Owes(p) => x \in Sees(p)'
  <2>1. CASE Skips(p, x)
    BY <1>4, <2>1 DEF Skips, Owes, Sees, MigrationInv, Abreast, Recorded
  <2>2. CASE ~Skips(p, x)
    BY <1>2, <1>4, <2>2 DEF Sees, MigrationInv, MigrationTyped
  <2> QED
    BY <2>1, <2>2
<1>9. Made(p)'
  <2>1. step'[p] = step[p] + 1
    BY <1>1 DEF MigrationInv, MigrationTyped
  <2>2. \A i \in 1..LastStep : i < step'[p] => i < step[p] \/ i = step[p]
    BY <1>3, <2>1
  <2>3. Sees(p) \subseteq Sees(p)' /\ Owes(p)' = Owes(p)
    BY <1>1, <1>4 DEF Sees, Owes, Item
  <2> QED
    BY <1>8, <2>2, <2>3 DEF MigrationInv, Abreast, Made, x
<1>10. \A i \in 1..LastStep : Statement[i] \in txn'[p] => i < step'[p] /\ step'[p] <= LastStep
  <2>1. step'[p] = step[p] + 1 /\ step[p] # LastStep
    BY <1>1, Statements DEF MigrationInv, MigrationTyped, x
  <2>2. \A i \in 1..LastStep : Statement[i] \in txn[p] => i < step[p]
    BY DEF MigrationInv, Abreast
  <2>3. txn'[p] \subseteq txn[p] \cup {x}
    BY <1>2 DEF MigrationInv, MigrationTyped
  <2>4. \A i \in 1..LastStep : Statement[i] = x => i = step[p]
    BY <1>1, StatementsDiffer DEF x
  <2> QED
    BY <1>1, <1>3, <2>1, <2>2, <2>3, <2>4, Statements
<1>11. Abreast'
  <2> SUFFICES ASSUME NEW q \in Process
               PROVE  /\ Made(q)'
                      /\ have'[q] >= 1 => V1 \in db'
                      /\ have'[q] >= 2 => V2 \in db'
                      /\ \A i \in 1..LastStep : Statement[i] \in txn'[q] => i < step'[q] /\ step'[q] <= LastStep
                      /\ booted'[q] <=> step'[q] = LastStep + 1
    BY DEF Abreast, V1, V2
  <2>1. CASE q = p
    <3>2. booted'[p] = booted[p] /\ (booted[p] <=> step[p] = LastStep + 1) /\ booted[p] \in BOOLEAN
      BY <1>1 DEF MigrationInv, Abreast, MigrationTyped
    <3>3. step'[p] = step[p] + 1 /\ step[p] # LastStep /\ step[p] \in 1..LastStep
      BY <1>1, Statements DEF MigrationInv, MigrationTyped, x
    <3>4. booted'[q] <=> step'[q] = LastStep + 1
      BY <2>1, <3>2, <3>3, Statements
    <3>5. (have[p] >= 1 => V1 \in db) /\ (have[p] >= 2 => V2 \in db)
      BY DEF MigrationInv, Abreast
    <3> QED
      BY <1>1, <1>4, <1>9, <1>10, <2>1, <3>4, <3>5
  <2>2. CASE q # p
    <3>1. db \subseteq db'
      BY <1>1, <1>4, <1>5
    <3>2. /\ txn'[q] = txn[q] /\ step'[q] = step[q] /\ have'[q] = have[q]
          /\ recon'[q] = recon[q] /\ booted'[q] = booted[q]
      BY <1>1, <1>4, <1>5, <2>2 DEF MigrationInv, MigrationTyped
    <3> QED
      BY <3>1, <3>2, Undisturbed
  <2> QED
    BY <2>1, <2>2
<1> QED
  BY <1>6, <1>7, <1>11 DEF MigrationInv

LEMMA CommitStep ==
  ASSUME MigrationInv, NEW p \in Process, Commit(p)
  PROVE  MigrationInv'
<1>1. /\ step[p] = LastStep /\ db' = db \cup txn[p] /\ txn' = [txn EXCEPT ![p] = {}]
      /\ inTxn' = [inTxn EXCEPT ![p] = FALSE] /\ booted' = [booted EXCEPT ![p] = TRUE]
      /\ step' = [step EXCEPT ![p] = LastStep + 1]
      /\ postgres' = postgres /\ have' = have /\ recon' = recon
  BY DEF Commit
<1>2. have' = [have EXCEPT ![p] = have[p]] /\ recon' = [recon EXCEPT ![p] = recon[p]]
  BY <1>1 DEF MigrationInv, MigrationTyped
<1>3. /\ step'[p] = LastStep + 1 /\ txn'[p] = {} /\ booted'[p] = TRUE /\ have'[p] = have[p]
      /\ recon'[p] = recon[p]
  BY <1>1 DEF MigrationInv, MigrationTyped
<1>4. MigrationTyped'
  BY <1>1, Statements DEF MigrationInv, MigrationTyped, Item
<1>5. Owes(p) \subseteq db'
  <2> SUFFICES ASSUME NEW y \in Owes(p) PROVE y \in db'
    OBVIOUS
  <2>1. PICK i \in 1..LastStep : Statement[i] = y
    BY Items DEF Owes
  <2>2. i < LastStep
    BY <2>1, Statements DEF Owes, Item
  <2> QED
    BY <1>1, <2>1, <2>2 DEF MigrationInv, Abreast, Made, Sees
<1>6. Full \subseteq Owes(p)
  BY Items DEF Owes, Full, Baseline, Tables, Columns, Indexes, V1, V2
<1>7. Recorded'
  BY <1>5, <1>6 DEF Recorded, Full
<1>8. Abreast'
  <2> SUFFICES ASSUME NEW q \in Process
               PROVE  /\ Made(q)'
                      /\ have'[q] >= 1 => V1 \in db'
                      /\ have'[q] >= 2 => V2 \in db'
                      /\ \A i \in 1..LastStep : Statement[i] \in txn'[q] => i < step'[q] /\ step'[q] <= LastStep
                      /\ booted'[q] <=> step'[q] = LastStep + 1
    BY DEF Abreast, V1, V2
  <2>1. CASE q = p
    <3>1. Owes(p)' = Owes(p) /\ db' \subseteq Sees(p)'
      BY <1>1 DEF Owes, Sees, Item
    <3>2. Made(p)'
      BY <1>5, <3>1 DEF Made
    <3>3. V1 \in db' /\ V2 \in db'
      BY <1>5, <1>6 DEF Full
    <3> QED
      BY <1>3, <2>1, <3>2, <3>3
  <2>2. CASE q # p
    <3>1. db \subseteq db'
      BY <1>1, <1>2
    <3>2. /\ txn'[q] = txn[q] /\ step'[q] = step[q] /\ have'[q] = have[q]
          /\ recon'[q] = recon[q] /\ booted'[q] = booted[q]
      BY <1>1, <1>2, <2>2 DEF MigrationInv, MigrationTyped
    <3> QED
      BY <3>1, <3>2, Undisturbed
  <2> QED
    BY <2>1, <2>2
<1> QED
  BY <1>4, <1>7, <1>8 DEF MigrationInv

LEMMA MigrationStep ==
  ASSUME MigrationInv, [MigrationNext]_migrationVars
  PROVE  MigrationInv'
<1>1. CASE UNCHANGED migrationVars
  BY <1>1 DEF migrationVars, MigrationInv, MigrationTyped, Recorded, Abreast, Made, Sees, Owes, Item
<1>2. CASE MigrationNext
  BY <1>2, BootStep, ReadStep, MakeStep, CommitStep, DieStep DEF MigrationNext
<1> QED
  BY <1>1, <1>2

(* dbschema.migrate under app._init_db: whatever process dies or fails      *)
(* between two statements, however many migrate at once and whatever an    *)
(* earlier boot without recon left out, a version on record stands for all *)
(* of its migration and a process that has booted finds its tables.        *)
THEOREM SchemasAreWhole == MigrationSpec => []SchemaIsWhole
<1>1. MigrationInv => SchemaIsWhole
  <2> SUFFICES ASSUME MigrationInv PROVE SchemaIsWhole
    OBVIOUS
  <2>1. ASSUME NEW p \in Process, booted[p]
        PROVE  Full \cup (IF recon[p] THEN {"monitor"} ELSE {}) \subseteq db
    <3>1. step[p] = LastStep + 1 /\ Made(p)
      BY <2>1 DEF MigrationInv, Abreast
    <3>2. txn[p] = {}
      <4>1. \A i \in 1..LastStep : Statement[i] \notin txn[p]
        BY <3>1, Statements DEF MigrationInv, Abreast
      <4> QED
        BY <4>1, Items DEF MigrationInv, MigrationTyped
    <3>3. Owes(p) \subseteq db
      BY <3>1, <3>2, Items, Statements DEF Made, Sees, Owes
    <3> QED
      BY <3>3, Items DEF Owes, Full, Baseline, Tables, Columns, Indexes, V1, V2
  <2> QED
    BY <2>1 DEF MigrationInv, Recorded, SchemaIsWhole
<1> QED
  BY <1>1, MigrationInitial, MigrationStep, PTL DEF MigrationSpec

-----------------------------------------------------------------------------
(* A cached source under any number of callers                             *)

CacheEntry == [key : Query, answer : {"found", "absent"}, expires : Int]

CacheTyped ==
  /\ source \in Source
  /\ entries \in Seq(CacheEntry)
  /\ now \in Nat
  /\ phase \in [Caller -> {"idle", "waiting", "asking"}]
  /\ DOMAIN want = Caller
  /\ \A c \in Caller : phase[c] # "idle" => want[c] \in Query
  /\ told \in [Query -> [answer : {"found", "absent"}, at : Int]]
  /\ unclear \in [Query -> Int]

OfOneKey(s) == \A i, j \in 1..Len(s) : s[i].key = s[j].key => i = j

(* What an entry that may still be served rests on.                        *)
JustifiedBy(e, said, odd) ==
  \/ said[e.key].answer = e.answer /\ e.expires <= said[e.key].at + TTL
  \/ e.answer = "absent" /\ e.expires <= odd[e.key] + TTL
Justified(e) == JustifiedBy(e, told, unclear)
Backed(s) == \A i \in 1..Len(s) : now < s[i].expires => Justified(s[i])

CacheInv == CacheTyped /\ OfOneKey(entries) /\ Backed(entries)

(* A sequence without its i-th element.                                    *)
LEMMA CutOut ==
  ASSUME NEW S, NEW s \in Seq(S), NEW i \in 1..Len(s)
  PROVE  /\ RemoveAt(s, i) \in Seq(S)
         /\ Len(RemoveAt(s, i)) = Len(s) - 1
         /\ \A j \in 1..(Len(s) - 1) : RemoveAt(s, i)[j] = IF j < i THEN s[j] ELSE s[j + 1]
<1> DEFINE a == SubSeq(s, 1, i - 1)
           b == SubSeq(s, i + 1, Len(s))
<1>1. Len(s) \in Nat /\ \A j \in 1..Len(s) : s[j] \in S
  BY LenProperties, ElementOfSeq
<1>2. a \in Seq(S) /\ Len(a) = i - 1 /\ \A j \in 1..(i - 1) : a[j] = s[j]
  <2>1. i - 1 \in Int /\ \A j \in 1..(i - 1) : s[j] \in S
    BY <1>1
  <2> QED
    BY <1>1, <2>1, SubSeqProperties
<1>3. b \in Seq(S) /\ Len(b) = Len(s) - i /\ \A j \in 1..(Len(s) - i) : b[j] = s[i + j]
  <2>1. i + 1 \in Int /\ Len(s) \in Int /\ \A j \in (i + 1)..Len(s) : s[j] \in S
    BY <1>1
  <2>2. /\ b \in Seq(S) /\ Len(b) = IF i + 1 <= Len(s) THEN Len(s) - (i + 1) + 1 ELSE 0
        /\ \A j \in 1..(Len(s) - (i + 1) + 1) : b[j] = s[(i + 1) + j - 1]
    BY <2>1, SubSeqProperties
  <2> HIDE DEF b
  <2>3. \A j \in 1..(Len(s) - i) : (i + 1) + j - 1 = i + j
    BY <1>1
  <2> QED
    BY <1>1, <2>2, <2>3
<1> HIDE DEF a, b
<1>4. /\ a \o b \in Seq(S) /\ Len(a \o b) = Len(a) + Len(b)
      /\ \A j \in 1..(Len(a) + Len(b)) : (a \o b)[j] = IF j <= Len(a) THEN a[j] ELSE b[j - Len(a)]
  BY <1>2, <1>3, ConcatProperties
<1>5. RemoveAt(s, i) = a \o b
  BY DEF RemoveAt, a, b
<1>6. Len(a) + Len(b) = Len(s) - 1
  BY <1>1, <1>2, <1>3
<1>7. ASSUME NEW j \in 1..(Len(s) - 1) PROVE (a \o b)[j] = IF j < i THEN s[j] ELSE s[j + 1]
  <2>1. CASE j < i
    <3>1. j \in 1..(i - 1) /\ j <= Len(a)
      BY <1>1, <1>2, <2>1
    <3> QED
      BY <1>2, <1>4, <1>6, <2>1, <3>1
  <2>2. CASE ~(j < i)
    <3>1. j - Len(a) \in 1..(Len(s) - i) /\ ~(j <= Len(a)) /\ i + (j - Len(a)) = j + 1
      BY <1>1, <1>2, <2>2
    <3> QED
      BY <1>3, <1>4, <1>6, <2>2, <3>1
  <2> QED
    BY <2>1, <2>2
<1> QED
  BY <1>4, <1>5, <1>6, <1>7

(* Taking a key out leaves the others, each as it was and once.            *)
LEMMA TakenOut ==
  ASSUME CacheInv, NEW k
  PROVE  /\ Without(k) \in Seq(CacheEntry) /\ OfOneKey(Without(k)) /\ Backed(Without(k))
         /\ \A j \in 1..Len(Without(k)) :
              /\ Without(k)[j].key # k
              /\ \E i \in 1..Len(entries) : Without(k)[j] = entries[i]
<1>1. entries \in Seq(CacheEntry) /\ Len(entries) \in Nat /\ DOMAIN entries = 1..Len(entries)
  BY LenProperties DEF CacheInv, CacheTyped
<1>2. CASE ~Holds(k)
  BY <1>1, <1>2 DEF Without, CacheInv, Holds
<1>3. CASE Holds(k)
  <2> DEFINE n == At(k)
             s == Without(k)
             from(j) == IF j < n THEN j ELSE j + 1
  <2>1. n \in 1..Len(entries) /\ entries[n].key = k
    BY <1>1, <1>3 DEF Holds, At
  <2>2. s = RemoveAt(entries, n)
    BY <1>3 DEF Without
  <2> HIDE DEF n, s
  <2>3. /\ s \in Seq(CacheEntry) /\ Len(s) = Len(entries) - 1
        /\ \A j \in 1..(Len(entries) - 1) : s[j] = IF j < n THEN entries[j] ELSE entries[j + 1]
    BY <1>1, <2>1, <2>2, CutOut
  <2>4. \A j \in 1..Len(s) : s[j] = entries[from(j)] /\ from(j) \in 1..Len(entries) /\ from(j) # n
    BY <1>1, <2>1, <2>3
  <2>5. \A j, l \in 1..Len(s) : from(j) = from(l) => j = l
    BY <1>1, <2>1, <2>3
  <2> HIDE DEF from
  <2>6. OfOneKey(s)
    BY <2>4, <2>5 DEF OfOneKey, CacheInv
  <2>7. \A j \in 1..Len(s) : s[j].key # k
    BY <2>1, <2>4 DEF OfOneKey, CacheInv
  <2>8. Backed(s)
    BY <2>4 DEF Backed, CacheInv
  <2> QED
    BY <2>3, <2>4, <2>6, <2>7, <2>8 DEF s
<1> QED
  BY <1>2, <1>3

(* An entry is put at the young end of a sequence that has none of its key. *)
LEMMA PutLast ==
  ASSUME NEW s \in Seq(CacheEntry), NEW e \in CacheEntry, OfOneKey(s),
         \A j \in 1..Len(s) : s[j].key # e.key
  PROVE  /\ Append(s, e) \in Seq(CacheEntry) /\ OfOneKey(Append(s, e))
         /\ Len(Append(s, e)) = Len(s) + 1
         /\ \A j \in 1..Len(s) : Append(s, e)[j] = s[j]
         /\ Append(s, e)[Len(s) + 1] = e
<1>1. Len(s) \in Nat
  BY LenProperties
<1>2. /\ Append(s, e) \in Seq(CacheEntry) /\ Len(Append(s, e)) = Len(s) + 1
      /\ \A j \in 1..Len(s) : Append(s, e)[j] = s[j]
      /\ Append(s, e)[Len(s) + 1] = e
  BY <1>1
<1>3. \A j \in 1..(Len(s) + 1) : j \in 1..Len(s) \/ j = Len(s) + 1
  BY <1>1
<1> QED
  BY <1>2, <1>3 DEF OfOneKey

LEMMA LookupStep ==
  ASSUME CacheInv, NEW c \in Caller, NEW k \in Query, Lookup(c, k)
  PROVE  CacheInv' /\ AnswersAreTimely'
<1>1. /\ source' = source /\ now' = now /\ told' = told /\ unclear' = unclear
      /\ entries' = LookedUp(k)
      /\ \/ phase' = phase /\ want' = want
         \/ /\ want' = [want EXCEPT ![c] = k]
            /\ \/ phase' = [phase EXCEPT ![c] = "waiting"]
               \/ phase' = [phase EXCEPT ![c] = "asking"]
  BY DEF Lookup
<1>2. Hit(k) => EntryOf(k) \in CacheEntry /\ EntryOf(k).key = k /\ now < EntryOf(k).expires /\ Justified(EntryOf(k))
  <2> SUFFICES ASSUME Hit(k)
               PROVE  /\ EntryOf(k) \in CacheEntry /\ EntryOf(k).key = k
                      /\ now < EntryOf(k).expires /\ Justified(EntryOf(k))
    OBVIOUS
  <2>1. DOMAIN entries = 1..Len(entries) /\ entries \in Seq(CacheEntry)
    BY LenProperties DEF CacheInv, CacheTyped
  <2>2. At(k) \in 1..Len(entries) /\ entries[At(k)].key = k
    BY <2>1 DEF Hit, Holds, At
  <2>3. EntryOf(k) \in CacheEntry /\ EntryOf(k).key = k
    BY <2>1, <2>2, ElementOfSeq DEF EntryOf
  <2>4. now < EntryOf(k).expires
    BY <2>3 DEF Hit, Expired, CacheInv, CacheTyped, CacheEntry
  <2> QED
    BY <2>2, <2>3, <2>4 DEF CacheInv, Backed, EntryOf
<1>3. /\ LookedUp(k) \in Seq(CacheEntry) /\ OfOneKey(LookedUp(k)) /\ Backed(LookedUp(k))
  <2>1. CASE ~Hit(k)
    BY <2>1, TakenOut DEF LookedUp
  <2>2. CASE Hit(k)
    <3>1. /\ LookedUp(k) = Append(Without(k), EntryOf(k)) /\ EntryOf(k) \in CacheEntry
          /\ Without(k) \in Seq(CacheEntry) /\ OfOneKey(Without(k))
          /\ \A j \in 1..Len(Without(k)) : Without(k)[j].key # EntryOf(k).key
      BY <1>2, <2>2, TakenOut DEF LookedUp
    <3>2. /\ LookedUp(k) \in Seq(CacheEntry) /\ OfOneKey(LookedUp(k))
          /\ Len(LookedUp(k)) = Len(Without(k)) + 1
          /\ \A j \in 1..Len(Without(k)) : LookedUp(k)[j] = Without(k)[j]
          /\ LookedUp(k)[Len(Without(k)) + 1] = EntryOf(k)
      BY <3>1, PutLast
    <3>3. Len(Without(k)) \in Nat
      BY <3>1, LenProperties
    <3>4. \A j \in 1..Len(LookedUp(k)) : j \in 1..Len(Without(k)) \/ j = Len(Without(k)) + 1
      BY <3>2, <3>3
    <3>5. Backed(Without(k))
      BY TakenOut
    <3> QED
      BY <1>2, <2>2, <3>2, <3>4, <3>5 DEF Backed
  <2> QED
    BY <2>1, <2>2
<1>4. CacheTyped'
  <2>1. phase' \in [Caller -> {"idle", "waiting", "asking"}]
    BY <1>1 DEF CacheInv, CacheTyped
  <2>2. DOMAIN want' = Caller /\ \A d \in Caller : phase'[d] # "idle" => want'[d] \in Query
    BY <1>1 DEF CacheInv, CacheTyped
  <2> QED
    BY <1>1, <1>3, <2>1, <2>2 DEF CacheInv, CacheTyped, CacheEntry
<1>5. OfOneKey(entries)' /\ Backed(entries)'
  BY <1>1, <1>3 DEF OfOneKey, Backed, Justified, JustifiedBy
<1>6. AnswersAreTimely'
  <2>1. CASE ~Hit(k)
    BY <2>1 DEF Lookup, AnswersAreTimely
  <2>2. CASE Hit(k)
    <3>1. served' = [key |-> k, answer |-> EntryOf(k).answer, at |-> now]
      BY <2>2 DEF Lookup
    <3>2. /\ now \in Nat /\ TTL \in Nat /\ told[k].at \in Int /\ unclear[k] \in Int
          /\ EntryOf(k).expires \in Int
      BY <1>2, <2>2, CacheAssumption DEF CacheInv, CacheTyped, CacheEntry
    <3>3. \/ told[k].answer = EntryOf(k).answer /\ now - told[k].at < TTL
          \/ EntryOf(k).answer = "absent" /\ now - unclear[k] < TTL
      BY <1>2, <2>2, <3>2 DEF Justified, JustifiedBy
    <3> QED
      BY <1>1, <3>1, <3>3 DEF AnswersAreTimely
  <2> QED
    BY <2>1, <2>2
<1> QED
  BY <1>4, <1>5, <1>6 DEF CacheInv

(* What is stored is what the source just said, in place of what it said    *)
(* of that key before.                                                     *)
LEMMA StoredIsBacked ==
  ASSUME CacheInv, NEW k \in Query, NEW a \in {"found", "absent"}, NEW said, NEW odd,
         \A l \in Query \ {k} : said[l] = told[l] /\ odd[l] = unclear[l],
         JustifiedBy([key |-> k, answer |-> a, expires |-> now + TTL], said, odd)
  PROVE  /\ Stored(k, a) \in Seq(CacheEntry) /\ OfOneKey(Stored(k, a))
         /\ \A j \in 1..Len(Stored(k, a)) :
              now < Stored(k, a)[j].expires => JustifiedBy(Stored(k, a)[j], said, odd)
<1> DEFINE e == [key |-> k, answer |-> a, expires |-> now + TTL]
           s == Without(k)
           all == Append(s, e)
           cut == IF Len(all) - MaxSize > 0 THEN Len(all) - MaxSize ELSE 0
           t == Stored(k, a)
<1>1. e \in CacheEntry /\ e.key = k
  BY CacheAssumption DEF CacheInv, CacheTyped, CacheEntry
<1>2. /\ s \in Seq(CacheEntry) /\ OfOneKey(s) /\ Backed(s)
      /\ \A j \in 1..Len(s) : s[j].key # e.key
  BY TakenOut
<1>3. t = SubSeq(all, 1 + cut, Len(all))
  BY DEF Stored
<1>4. \A j \in 1..Len(s) : s[j] \in CacheEntry
  BY <1>2, ElementOfSeq
<1>5. JustifiedBy(e, said, odd)
  OBVIOUS
<1> HIDE DEF e, s, t
<1>6. /\ all \in Seq(CacheEntry) /\ OfOneKey(all) /\ Len(all) = Len(s) + 1
      /\ \A j \in 1..Len(s) : all[j] = s[j]
      /\ all[Len(s) + 1] = e
  BY <1>1, <1>2, PutLast
<1> HIDE DEF all
<1>7. Len(s) \in Nat
  BY <1>2, LenProperties
<1>8. cut \in Nat /\ cut <= Len(all)
  BY <1>6, <1>7, CacheAssumption
<1> HIDE DEF cut
<1>9. /\ t \in Seq(CacheEntry) /\ Len(t) = Len(all) - cut
      /\ \A j \in 1..Len(t) : t[j] = all[cut + j] /\ cut + j \in 1..Len(all)
  <2>1. Len(all) \in Nat /\ 1 + cut \in Int /\ Len(all) \in Int
    BY <1>6, <1>7, <1>8
  <2>2. \A j \in 1..Len(all) : all[j] \in CacheEntry
    BY <1>6, ElementOfSeq
  <2>3. \A j \in (1 + cut)..Len(all) : all[j] \in CacheEntry
    BY <1>8, <2>1, <2>2
  <2>4. /\ t \in Seq(CacheEntry)
        /\ Len(t) = IF 1 + cut <= Len(all) THEN Len(all) - (1 + cut) + 1 ELSE 0
        /\ \A j \in 1..(Len(all) - (1 + cut) + 1) : t[j] = all[(1 + cut) + j - 1]
    BY <1>3, <2>1, <2>3, SubSeqProperties
  <2>5. Len(t) = Len(all) - cut
    <3>1. Len(t) = IF 1 + cut <= Len(all) THEN Len(all) - (1 + cut) + 1 ELSE 0
      BY <2>4
    <3> QED
      BY <1>8, <2>1, <3>1
  <2>6. \A j \in 1..(Len(all) - cut) : /\ j \in 1..(Len(all) - (1 + cut) + 1)
                                       /\ (1 + cut) + j - 1 = cut + j /\ cut + j \in 1..Len(all)
    BY <1>8, <2>1
  <2> QED
    BY <2>4, <2>5, <2>6
<1>10. OfOneKey(t)
  <2>1. \A i, j \in 1..Len(t) : cut + i = cut + j => i = j
    BY <1>8
  <2>2. ASSUME NEW i \in 1..Len(t), NEW j \in 1..Len(t), t[i].key = t[j].key PROVE i = j
    <3>1. /\ cut + i \in 1..Len(all) /\ cut + j \in 1..Len(all)
          /\ all[cut + i].key = all[cut + j].key
      BY <1>9, <2>2
    <3> QED
      BY <1>6, <2>1, <3>1 DEF OfOneKey
  <2> QED
    BY <2>2 DEF OfOneKey
<1>11. ASSUME NEW i \in 1..Len(all), now < all[i].expires PROVE JustifiedBy(all[i], said, odd)
  <2>1. CASE i = Len(s) + 1
    BY <1>5, <1>6, <2>1
  <2>2. CASE i # Len(s) + 1
    <3>1. i \in 1..Len(s)
      BY <1>6, <1>7, <2>2
    <3>2. all[i] = s[i] /\ Justified(s[i]) /\ s[i].key # k /\ s[i].key \in Query
      BY <1>1, <1>2, <1>4, <1>6, <1>11, <3>1 DEF Backed, CacheEntry
    <3>3. said[s[i].key] = told[s[i].key] /\ odd[s[i].key] = unclear[s[i].key]
      BY <3>2
    <3> QED
      BY <3>2, <3>3 DEF Justified, JustifiedBy
  <2> QED
    BY <2>1, <2>2
<1>12. \A j \in 1..Len(t) : now < t[j].expires => JustifiedBy(t[j], said, odd)
  BY <1>9, <1>11
<1> QED
  BY <1>9, <1>10, <1>12 DEF t

LEMMA AnsweredStep ==
  ASSUME CacheInv, NEW c \in Caller, NEW r \in Reply, Answered(c, r)
  PROVE  CacheInv' /\ AnswersAreTimely'
<1> DEFINE k == want[c]
           a == Says(r)
<1>1. /\ source' = source /\ now' = now /\ want' = [want EXCEPT ![c] = Whatever] /\ phase[c] = "asking"
      /\ phase' = [phase EXCEPT ![c] = "idle"] /\ served' = Nothing
      /\ entries' = IF a = "nothing" THEN entries ELSE Stored(k, a)
      /\ told' = IF r \in {"hit", "empty"} THEN [told EXCEPT ![k] = [answer |-> Plain(r), at |-> now]] ELSE told
      /\ unclear' = IF r \in Misread THEN [unclear EXCEPT ![k] = now] ELSE unclear
      /\ r = "held" => source = "adapter"
  BY DEF Answered, Leave
<1>2. k \in Query /\ now \in Int /\ TTL \in Nat
  BY <1>1, CacheAssumption DEF CacheInv, CacheTyped
<1>3. /\ r \in {"hit", "empty"} => Plain(r) \in {"found", "absent"} /\ a = Plain(r)
      /\ r \notin {"hit", "empty"} => a = IF r \in Misread THEN "absent" ELSE "nothing"
      /\ r \in Misread => r \notin {"hit", "empty"}
  BY <1>1 DEF CacheInv, CacheTyped, Source, Reply, Says, Plain, Else, GeocodeSays, GeolocateSays,
         BreachSays, GithubSays, AdapterSays, Misread, Unknown
<1> HIDE DEF k, a
<1>4. /\ told' \in [Query -> [answer : {"found", "absent"}, at : Int]]
      /\ unclear' \in [Query -> Int]
      /\ \A l \in Query \ {k} : told'[l] = told[l] /\ unclear'[l] = unclear[l]
      /\ r \in {"hit", "empty"} => told'[k] = [answer |-> a, at |-> now]
      /\ r \notin {"hit", "empty"} => told' = told
      /\ r \in Misread => unclear'[k] = now
      /\ r \notin Misread => unclear' = unclear
  BY <1>1, <1>2, <1>3 DEF CacheInv, CacheTyped
<1>5. entries' \in Seq(CacheEntry) /\ OfOneKey(entries') /\ Backed(entries)'
  <2>1. CASE a = "nothing"
    <3>1. entries' = entries /\ told' = told /\ r \notin {"hit", "empty"}
      BY <1>1, <1>3, <1>4, <2>1
    <3>2. unclear' = unclear
      BY <1>3, <1>4, <2>1
    <3> QED
      BY <1>1, <3>1, <3>2 DEF CacheInv, CacheTyped, Backed, Justified, JustifiedBy
  <2>2. CASE a # "nothing"
    <3>1. a \in {"found", "absent"}
      BY <1>3, <2>2 DEF Reply
    <3>2. JustifiedBy([key |-> k, answer |-> a, expires |-> now + TTL], told', unclear')
      BY <1>2, <1>3, <1>4, <2>2 DEF JustifiedBy, Reply
    <3>3. /\ Stored(k, a) \in Seq(CacheEntry) /\ OfOneKey(Stored(k, a))
          /\ \A j \in 1..Len(Stored(k, a)) :
               now < Stored(k, a)[j].expires => JustifiedBy(Stored(k, a)[j], told', unclear')
      BY <1>2, <1>4, <3>1, <3>2, StoredIsBacked
    <3>4. entries' = Stored(k, a)
      BY <1>1, <2>2
    <3> QED
      BY <1>1, <3>3, <3>4 DEF Backed, Justified, JustifiedBy
  <2> QED
    BY <2>1, <2>2
<1>6. CacheTyped'
  <2>1. phase' \in [Caller -> {"idle", "waiting", "asking"}]
    BY <1>1 DEF CacheInv, CacheTyped
  <2>2. DOMAIN want' = Caller /\ \A d \in Caller : phase'[d] # "idle" => want'[d] \in Query
    BY <1>1 DEF CacheInv, CacheTyped
  <2> QED
    BY <1>1, <1>4, <1>5, <2>1, <2>2 DEF CacheInv, CacheTyped, CacheEntry
<1> QED
  BY <1>1, <1>5, <1>6 DEF CacheInv, OfOneKey, AnswersAreTimely

(* What the tick forgets could justify nothing any more.                   *)
LEMMA TickStep ==
  ASSUME CacheInv, Tick
  PROVE  CacheInv' /\ AnswersAreTimely'
<1> DEFINE Recent(t) == t > now - TTL + 1
<1>1. /\ now' = now + 1 /\ served' = Nothing /\ source' = source /\ entries' = entries
      /\ phase' = phase /\ want' = want
      /\ told' = [l \in Query |-> IF Recent(told[l].at) THEN told[l] ELSE Untold]
      /\ unclear' = [l \in Query |-> IF Recent(unclear[l]) THEN unclear[l] ELSE Never]
  BY DEF Tick
<1>2. now \in Nat /\ TTL \in Nat /\ Never \in Int
  BY CacheAssumption DEF CacheInv, CacheTyped, Never
<1>3. Untold \in [answer : {"found", "absent"}, at : Int]
  BY <1>2 DEF Untold
<1> HIDE DEF Recent
<1>4. \A l \in Query : /\ told[l] \in [answer : {"found", "absent"}, at : Int] /\ unclear[l] \in Int
                       /\ told'[l] = IF Recent(told[l].at) THEN told[l] ELSE Untold
                       /\ unclear'[l] = IF Recent(unclear[l]) THEN unclear[l] ELSE Never
  BY <1>1 DEF CacheInv, CacheTyped
<1>5. /\ told' \in [Query -> [answer : {"found", "absent"}, at : Int]]
      /\ unclear' \in [Query -> Int]
  <2>1. DOMAIN told' = Query /\ told' = [l \in Query |-> told'[l]] /\ unclear' = [l \in Query |-> unclear'[l]]
    BY <1>1
  <2> QED
    BY <1>2, <1>3, <1>4, <2>1
<1>6. CacheTyped'
  BY <1>1, <1>2, <1>5 DEF CacheInv, CacheTyped, CacheEntry
<1>7. ASSUME NEW e \in CacheEntry, now + 1 < e.expires, Justified(e)
      PROVE  JustifiedBy(e, told', unclear')
  <2>1. e.key \in Query /\ e.expires \in Int
    BY DEF CacheEntry
  <2>2. \A t \in Int : e.expires <= t + TTL => Recent(t)
    BY <1>2, <1>7, <2>1 DEF Recent
  <2>3. told[e.key].at \in Int /\ unclear[e.key] \in Int
    BY <1>4, <2>1
  <2>4. CASE told[e.key].answer = e.answer /\ e.expires <= told[e.key].at + TTL
    <3>1. told'[e.key] = told[e.key]
      BY <1>4, <2>1, <2>2, <2>3, <2>4
    <3> QED
      BY <2>4, <3>1 DEF JustifiedBy
  <2>5. CASE e.answer = "absent" /\ e.expires <= unclear[e.key] + TTL
    <3>1. unclear'[e.key] = unclear[e.key]
      BY <1>4, <2>1, <2>2, <2>3, <2>5
    <3> QED
      BY <2>5, <3>1 DEF JustifiedBy
  <2> QED
    BY <1>7, <2>4, <2>5 DEF Justified, JustifiedBy
<1>8. Backed(entries)'
  <2>1. \A i \in 1..Len(entries) : entries[i] \in CacheEntry
    BY ElementOfSeq DEF CacheInv, CacheTyped
  <2>2. \A i \in 1..Len(entries) : now + 1 < entries[i].expires => now < entries[i].expires
    BY <1>2, <2>1 DEF CacheEntry
  <2>3. \A i \in 1..Len(entries) : now + 1 < entries[i].expires => JustifiedBy(entries[i], told', unclear')
    BY <1>7, <2>1, <2>2 DEF CacheInv, Backed
  <2> QED
    BY <1>1, <2>3 DEF Backed, Justified, JustifiedBy
<1> QED
  BY <1>1, <1>6, <1>8 DEF CacheInv, OfOneKey, AnswersAreTimely

LEMMA StepOfCache ==
  ASSUME CacheInv /\ AnswersAreTimely, [CacheNext]_cacheVars
  PROVE  (CacheInv /\ AnswersAreTimely)'
<1>1. CASE UNCHANGED cacheVars
  BY <1>1 DEF cacheVars, CacheInv, CacheTyped, CacheEntry, OfOneKey, Backed, Justified, JustifiedBy,
              AnswersAreTimely
<1>2. ASSUME NEW c \in Caller, Send(c) PROVE CacheInv' /\ AnswersAreTimely'
  <2>1. /\ phase[c] = "waiting" /\ phase' = [phase EXCEPT ![c] = "asking"] /\ served' = Nothing
        /\ source' = source /\ entries' = entries /\ now' = now /\ want' = want /\ told' = told
        /\ unclear' = unclear
    BY <1>2 DEF Send
  <2>2. phase' \in [Caller -> {"idle", "waiting", "asking"}]
        /\ \A d \in Caller : phase'[d] # "idle" => want'[d] \in Query
    BY <2>1 DEF CacheInv, CacheTyped
  <2> QED
    BY <2>1, <2>2 DEF CacheInv, CacheTyped, CacheEntry, OfOneKey, Backed, Justified, JustifiedBy,
                      AnswersAreTimely
<1>3. ASSUME NEW c \in Caller, Raised(c) PROVE CacheInv' /\ AnswersAreTimely'
  <2>1. /\ phase' = [phase EXCEPT ![c] = "idle"] /\ served' = Nothing
        /\ source' = source /\ entries' = entries /\ now' = now /\ told' = told
        /\ unclear' = unclear /\ want' = [want EXCEPT ![c] = Whatever]
    BY <1>3 DEF Raised, Leave
  <2>2. phase' \in [Caller -> {"idle", "waiting", "asking"}]
        /\ \A d \in Caller : phase'[d] # "idle" => want'[d] \in Query
    BY <2>1 DEF CacheInv, CacheTyped
  <2> QED
    BY <2>1, <2>2 DEF CacheInv, CacheTyped, CacheEntry, OfOneKey, Backed, Justified, JustifiedBy,
                      AnswersAreTimely
<1> QED
  BY <1>1, <1>2, <1>3, LookupStep, AnsweredStep, TickStep DEF CacheNext

(* recon/cache.py under geo, breach, timeline and the adapters: for any     *)
(* number of callers and keys, any lifetime and any size, what the cache   *)
(* serves is what the source said of that key less than a lifetime ago, or *)
(* the absence made since then of a reply that is listed as misread.       *)
THEOREM AnswersStayTimely == CacheSpec => []AnswersAreTimely
<1>1. CacheInit => CacheInv /\ AnswersAreTimely
  <2> SUFFICES ASSUME CacheInit PROVE CacheInv /\ AnswersAreTimely
    OBVIOUS
  <2>1. Never \in Int
    BY CacheAssumption DEF Never
  <2>2. Len(entries) = 0 /\ entries \in Seq(CacheEntry)
    BY EmptySeq DEF CacheInit
  <2>3. CacheTyped
    BY <2>1, <2>2 DEF CacheInit, CacheTyped, Untold
  <2> QED
    BY <2>2, <2>3 DEF CacheInit, CacheInv, OfOneKey, Backed, AnswersAreTimely
<1>2. (CacheInv /\ AnswersAreTimely) /\ [CacheNext]_cacheVars => (CacheInv /\ AnswersAreTimely)'
  BY StepOfCache
<1> QED
  BY <1>1, <1>2, PTL DEF CacheSpec

-----------------------------------------------------------------------------
(* The avatar proxy: its bounded cache and its gate, for any bounds        *)

(* A set of numbers has a least one.                                       *)
LEMMA Least ==
  ASSUME NEW S \in SUBSET Nat, S # {}
  PROVE  \E m \in S : \A k \in S : m <= k
<1> DEFINE R == {ss \in Nat \X Nat : ss[1] < ss[2]}
<1>1. IsWellFoundedOn(R, Nat)
  BY NatLessThanWellFounded DEF OpToRel
<1> HIDE DEF R
<1>2. PICK x \in S : \A y \in S : ~(<<y, x>> \in R)
  BY <1>1, WFMin
<1>3. \A y \in S : ~(y < x)
  BY <1>2 DEF R
<1> QED
  BY <1>2, <1>3

ImageItem == [url : Url, size : Size, expires : Nat]

LEMMA ItemsKnown ==
  ASSUME NEW its \in Seq(ImageItem)
  PROVE  /\ Len(its) \in Nat /\ DOMAIN its = 1..Len(its)
         /\ \A k \in 1..Len(its) : /\ its[k] \in ImageItem /\ its[k].size \in Nat
                                   /\ its[k].url \in Url /\ its[k].expires \in Nat
<1>1. Len(its) \in Nat /\ DOMAIN its = 1..Len(its)
  BY LenProperties
<1>2. \A k \in 1..Len(its) : its[k] \in ImageItem
  BY ElementOfSeq
<1>3. \A e \in ImageItem : e.size \in Nat /\ e.url \in Url /\ e.expires \in Nat
  BY AvatarAssumption DEF ImageItem
<1> QED
  BY <1>1, <1>2, <1>3

(* The running weight of a sequence of items.                              *)
RunningWeight(g, its) ==
  /\ g \in [0..Len(its) -> Nat] /\ g[0] = 0
  /\ \A k \in 1..Len(its) : g[k] = g[k - 1] + its[k].size

LEMMA WeightsRun ==
  ASSUME NEW its \in Seq(ImageItem)
  PROVE  Len(its) \in Nat /\ RunningWeight(Weights(its), its)
<1> DEFINE Is(g, m) == g = [k \in 0..m |-> IF k = 0 THEN 0 ELSE g[k - 1] + its[k].size]
           bad == {m \in Nat : ~\E g : Is(g, m)}
           n == Len(its)
<1>1. bad = {}
  <2> SUFFICES ASSUME bad # {} PROVE FALSE
    OBVIOUS
  <2>1. PICK m \in bad : \A k \in bad : m <= k
    BY Least
  <2>2. m \in Nat
    OBVIOUS
  <2>3. CASE m = 0
    <3> DEFINE h == [k \in 0..0 |-> 0]
    <3>1. Is(h, 0)
      OBVIOUS
    <3> QED
      BY <2>1, <2>3, <3>1
  <2>4. CASE m # 0
    <3>1. m - 1 \in Nat /\ ~(m <= m - 1)
      BY <2>2, <2>4
    <3>2. PICK g : Is(g, m - 1)
      BY <2>1, <3>1
    <3> DEFINE h == [k \in 0..m |-> IF k = m THEN g[m - 1] + its[m].size ELSE g[k]]
    <3>3. \A k \in 0..m : h[k] = IF k = 0 THEN 0 ELSE h[k - 1] + its[k].size
      <4> SUFFICES ASSUME NEW k \in 0..m PROVE h[k] = IF k = 0 THEN 0 ELSE h[k - 1] + its[k].size
        OBVIOUS
      <4>1. CASE k = 0
        BY <2>2, <2>4, <3>1, <3>2, <4>1
      <4>2. CASE k # 0 /\ k = m
        BY <2>2, <3>1, <4>2
      <4>3. CASE k # 0 /\ k # m
        <5>1. k \in 0..(m - 1) /\ k - 1 \in 0..m /\ k - 1 # m
          BY <2>2, <4>3
        <5>2. h[k] = g[k] /\ h[k - 1] = g[k - 1]
          BY <4>3, <5>1
        <5>3. g[k] = g[k - 1] + its[k].size
          BY <3>2, <4>3, <5>1
        <5> QED
          BY <4>3, <5>2, <5>3
      <4> QED
        BY <4>1, <4>2, <4>3
    <3>4. Is(h, m)
      BY <3>3
    <3> QED
      BY <2>1, <3>4
  <2> QED
    BY <2>3, <2>4
<1>2. n \in Nat /\ \A k \in 1..n : its[k].size \in Nat
  BY ItemsKnown
<1> DEFINE g == CHOOSE h : Is(h, n)
<1>3. Is(g, n)
  BY <1>1, <1>2
<1>4. Weights(its) = g
  BY DEF Weights
<1> HIDE DEF g, n
<1>5. DOMAIN g = 0..n /\ g = [k \in 0..n |-> g[k]]
  BY <1>3
<1>6. /\ g[0] = 0 /\ \A k \in 1..n : g[k] = g[k - 1] + its[k].size
      /\ \A k \in 1..n : k - 1 \in 0..n
  <2>1. 0 \in 0..n /\ \A k \in 1..n : k \in 0..n /\ k # 0 /\ k - 1 \in 0..n
    BY <1>2
  <2> QED
    BY <1>3, <2>1
<1> DEFINE out == {k \in 0..n : g[k] \notin Nat}
<1>7. out = {}
  <2> SUFFICES ASSUME out # {} PROVE FALSE
    OBVIOUS
  <2>1. out \in SUBSET Nat
    OBVIOUS
  <2>2. PICK m \in out : \A k \in out : m <= k
    BY <2>1, Least
  <2>3. m \in 0..n /\ m # 0
    BY <1>6, <2>2
  <2>4. m \in 1..n /\ m - 1 \in 0..n /\ ~(m <= m - 1)
    BY <1>2, <2>3
  <2>5. g[m - 1] \in Nat
    BY <2>2, <2>4
  <2>6. g[m] = g[m - 1] + its[m].size /\ its[m].size \in Nat
    BY <1>2, <1>6, <2>4
  <2> QED
    BY <2>2, <2>5, <2>6
<1>8. g \in [0..n -> Nat]
  BY <1>5, <1>7
<1> QED
  BY <1>2, <1>4, <1>6, <1>8 DEF RunningWeight, n

(* Equal stretches of two sequences weigh the same.                        *)
Stretch(s, t, a, b, n) ==
  /\ a \in Nat /\ b \in Nat /\ n \in Nat
  /\ a + n <= Len(s) /\ b + n <= Len(t)
  /\ \A k \in 1..n : s[a + k] = t[b + k]

LEMMA Shifted ==
  ASSUME NEW p \in Nat, NEW q \in Nat, NEW x \in Nat, NEW y \in Nat, NEW z \in Nat,
         p + y = q + x
  PROVE  (p + z) + y = (q + z) + x
OBVIOUS

LEMMA EqualStretches ==
  ASSUME NEW s \in Seq(ImageItem), NEW t \in Seq(ImageItem), NEW a, NEW b, NEW n,
         Stretch(s, t, a, b, n)
  PROVE  Weights(s)[a + n] + Weights(t)[b] = Weights(t)[b + n] + Weights(s)[a]
<1> DEFINE v == Weights(s)
           w == Weights(t)
<1>1. /\ Len(s) \in Nat /\ v \in [0..Len(s) -> Nat]
      /\ \A k \in 1..Len(s) : v[k] = v[k - 1] + s[k].size /\ s[k].size \in Nat
      /\ v[0] = 0
  BY WeightsRun, ItemsKnown DEF RunningWeight
<1>2. /\ Len(t) \in Nat /\ w \in [0..Len(t) -> Nat]
      /\ \A k \in 1..Len(t) : w[k] = w[k - 1] + t[k].size /\ t[k].size \in Nat
      /\ w[0] = 0
  BY WeightsRun, ItemsKnown DEF RunningWeight
<1> HIDE DEF v, w
<1> USE DEF Stretch
<1> DEFINE same(k) == v[a + k] + w[b] = w[b + k] + v[a]
           bad == {k \in 0..n : ~same(k)}
<1>3. bad = {}
  <2> SUFFICES ASSUME bad # {} PROVE FALSE
    OBVIOUS
  <2>1. bad \in SUBSET Nat
    OBVIOUS
  <2>2. PICK k \in bad : \A m \in bad : k <= m
    BY <2>1, Least
  <2>3. ~same(k) /\ k \in 0..n
    BY <2>2
  <2>4. v[a] \in Nat /\ w[b] \in Nat
    <3>1. a \in 0..Len(s) /\ b \in 0..Len(t)
      BY <1>1, <1>2
    <3> QED
      BY <1>1, <1>2, <3>1
  <2>5. k # 0
    BY <2>3, <2>4
  <2>6. k \in 1..n /\ k - 1 \in 0..n /\ ~(k <= k - 1)
    BY <2>3, <2>5
  <2>7. same(k - 1)
    BY <2>2, <2>6
  <2>8. /\ a + k \in 1..Len(s) /\ b + k \in 1..Len(t) /\ a + (k - 1) = (a + k) - 1
        /\ b + (k - 1) = (b + k) - 1 /\ (a + k) - 1 \in 0..Len(s) /\ (b + k) - 1 \in 0..Len(t)
    BY <1>1, <1>2, <2>6
  <2>9. v[a + k] = v[a + (k - 1)] + s[a + k].size /\ w[b + k] = w[b + (k - 1)] + t[b + k].size
    BY <1>1, <1>2, <2>8
  <2>10. /\ s[a + k].size = t[b + k].size /\ s[a + k].size \in Nat
         /\ v[a + (k - 1)] \in Nat /\ w[b + (k - 1)] \in Nat
    BY <1>1, <1>2, <2>6, <2>8
  <2> DEFINE p == v[a + (k - 1)]
             q == w[b + (k - 1)]
             z == s[a + k].size
             x == v[a]
             y == w[b]
  <2>11. p \in Nat /\ q \in Nat /\ z \in Nat /\ x \in Nat /\ y \in Nat /\ p + y = q + x
    BY <2>4, <2>7, <2>10
  <2>12. v[a + k] = p + z /\ w[b + k] = q + z
    BY <2>9, <2>10
  <2> HIDE DEF p, q, z, x, y, bad, Stretch
  <2>13. (p + z) + y = (q + z) + x
    BY <2>11, Shifted
  <2> QED
    BY <2>3, <2>12, <2>13 DEF x, y
<1>4. n \in 0..n
  OBVIOUS
<1> QED
  BY <1>3, <1>4 DEF v, w

(* A sequence without its first k items weighs what they weigh less.       *)
LEMMA SuffixWeighs ==
  ASSUME NEW its \in Seq(ImageItem), NEW k \in 0..Len(its)
  PROVE  /\ SubSeq(its, k + 1, Len(its)) \in Seq(ImageItem)
         /\ Len(SubSeq(its, k + 1, Len(its))) = Len(its) - k
         /\ \A j \in 1..(Len(its) - k) : SubSeq(its, k + 1, Len(its))[j] = its[k + j]
         /\ Weight(SubSeq(its, k + 1, Len(its))) = Weight(its) - Weights(its)[k]
<1> DEFINE t == SubSeq(its, k + 1, Len(its))
           n == Len(its) - k
<1>1. /\ Len(its) \in Nat /\ k \in Nat /\ n \in Nat /\ k + n = Len(its)
      /\ k + 1 \in Int /\ \A j \in 1..Len(its) : its[j] \in ImageItem
  BY ItemsKnown
<1>2. \A j \in (k + 1)..Len(its) : its[j] \in ImageItem
  BY <1>1
<1>3. /\ t \in Seq(ImageItem)
      /\ Len(t) = IF k + 1 <= Len(its) THEN Len(its) - (k + 1) + 1 ELSE 0
      /\ \A j \in 1..(Len(its) - (k + 1) + 1) : t[j] = its[(k + 1) + j - 1]
  BY <1>1, <1>2, SubSeqProperties
<1> HIDE DEF t
<1>4. Len(t) = n
  <2>1. Len(t) = IF k + 1 <= Len(its) THEN Len(its) - (k + 1) + 1 ELSE 0
    BY <1>3
  <2>2. Len(its) \in Nat /\ k \in Nat /\ k <= Len(its)
    BY <1>1
  <2>3. CASE k = Len(its)
    BY <2>1, <2>2, <2>3
  <2>4. CASE k < Len(its)
    BY <2>1, <2>2, <2>4
  <2> QED
    BY <2>2, <2>3, <2>4
<1>5. \A j \in 1..n : (k + 1) + j - 1 = k + j
  BY <1>1
<1>6. Len(its) - (k + 1) + 1 = n
  BY <1>1
<1>7. \A j \in 1..n : t[j] = its[k + j]
  BY <1>3, <1>5, <1>6
<1> HIDE DEF n
<1>8. Weights(its)[k + n] + Weights(t)[0] = Weights(t)[0 + n] + Weights(its)[k]
  <2>1. \A j \in 1..n : its[k + j] = t[0 + j]
    BY <1>1, <1>7
  <2>2. 0 \in Nat /\ k + n <= Len(its) /\ 0 + n <= Len(t)
    BY <1>1, <1>4
  <2>3. Stretch(its, t, k, 0, n)
    BY <1>1, <2>1, <2>2 DEF Stretch
  <2> QED
    BY <1>3, <2>3, EqualStretches
<1>9. /\ Weights(its)[k] \in Nat /\ Weights(its)[Len(its)] \in Nat
      /\ Weights(t)[0] = 0 /\ Weights(t)[n] \in Nat
  <2>1. RunningWeight(Weights(its), its) /\ RunningWeight(Weights(t), t)
    BY <1>3, WeightsRun
  <2>2. Len(its) \in 0..Len(its) /\ n \in 0..n
    BY <1>1
  <2> QED
    BY <1>4, <2>1, <2>2 DEF RunningWeight
<1>10. 0 + n = n
  BY <1>1
<1>11. Weights(its)[Len(its)] = Weights(t)[n] + Weights(its)[k]
  BY <1>1, <1>8, <1>9, <1>10
<1>12. Weight(t) = Weight(its) - Weights(its)[k]
  BY <1>4, <1>9, <1>11 DEF Weight
<1> QED
  BY <1>3, <1>4, <1>7, <1>12 DEF t, n

LEMMA AppendedWeighs ==
  ASSUME NEW its \in Seq(ImageItem), NEW e \in ImageItem
  PROVE  /\ Append(its, e) \in Seq(ImageItem) /\ Len(Append(its, e)) = Len(its) + 1
         /\ \A j \in 1..Len(its) : Append(its, e)[j] = its[j]
         /\ Append(its, e)[Len(its) + 1] = e
         /\ Weight(Append(its, e)) = Weight(its) + e.size
<1> DEFINE t == Append(its, e)
           n == Len(its)
<1>1. n \in Nat
  BY ItemsKnown
<1>2. /\ t \in Seq(ImageItem) /\ Len(t) = n + 1 /\ t[n + 1] = e
      /\ \A j \in 1..n : t[j] = its[j]
  BY <1>1
<1> HIDE DEF t
<1>3. RunningWeight(Weights(its), its) /\ RunningWeight(Weights(t), t)
  BY <1>2, WeightsRun
<1>4. Weights(its)[0] = 0 /\ Weights(t)[0] = 0
  BY <1>3 DEF RunningWeight
<1>5. Weights(its)[n] \in Nat /\ Weights(t)[n] \in Nat
  <2>1. n \in 0..n /\ n \in 0..(n + 1)
    BY <1>1
  <2> QED
    BY <1>2, <1>3, <2>1 DEF RunningWeight
<1>6. Weights(its)[0 + n] + Weights(t)[0] = Weights(t)[0 + n] + Weights(its)[0]
  <2>1. \A j \in 1..n : its[0 + j] = t[0 + j]
    BY <1>1, <1>2
  <2>2. 0 \in Nat /\ 0 + n <= Len(its) /\ 0 + n <= Len(t)
    BY <1>1, <1>2
  <2>3. Stretch(its, t, 0, 0, n)
    BY <1>1, <2>1, <2>2 DEF Stretch
  <2> QED
    BY <1>2, <2>3, EqualStretches
<1>7. Weights(its)[n] = Weights(t)[n]
  <2>1. 0 + n = n
    BY <1>1
  <2> QED
    BY <1>4, <1>5, <1>6, <2>1
<1>8. Weights(t)[n + 1] = Weights(t)[n] + e.size
  <2>1. n + 1 \in 1..Len(t) /\ (n + 1) - 1 = n
    BY <1>1, <1>2
  <2> QED
    BY <1>2, <1>3, <2>1 DEF RunningWeight
<1>9. Weight(t) = Weight(its) + e.size
  BY <1>2, <1>7, <1>8 DEF Weight
<1> QED
  BY <1>2, <1>9 DEF t

LEMMA RemovedWeighs ==
  ASSUME NEW its \in Seq(ImageItem), NEW i \in 1..Len(its)
  PROVE  Weight(RemoveAt(its, i)) = Weight(its) - its[i].size
<1> DEFINE t == RemoveAt(its, i)
           n == Len(its)
<1>1. n \in Nat /\ i \in Nat /\ i - 1 \in Nat /\ n - i \in Nat /\ i + (n - i) = n
  BY ItemsKnown
<1>2. /\ t \in Seq(ImageItem) /\ Len(t) = n - 1
      /\ \A j \in 1..(n - 1) : t[j] = IF j < i THEN its[j] ELSE its[j + 1]
  BY CutOut
<1> HIDE DEF t
<1>3. RunningWeight(Weights(its), its) /\ RunningWeight(Weights(t), t)
  BY <1>2, WeightsRun
<1>4. /\ Weights(its)[0] = 0 /\ Weights(t)[0] = 0
      /\ \A k \in 0..n : Weights(its)[k] \in Nat
      /\ \A k \in 0..(n - 1) : Weights(t)[k] \in Nat
  BY <1>2, <1>3 DEF RunningWeight
<1> HIDE DEF n
<1>5. Weights(its)[0 + (i - 1)] + Weights(t)[0] = Weights(t)[0 + (i - 1)] + Weights(its)[0]
  <2>1. ASSUME NEW j \in 1..(i - 1) PROVE its[0 + j] = t[0 + j]
    <3>1. j \in 1..(n - 1) /\ j < i /\ 0 + j = j
      BY <1>1 DEF n
    <3> QED
      BY <1>2, <3>1
  <2>2. 0 \in Nat /\ 0 + (i - 1) <= Len(its) /\ 0 + (i - 1) <= Len(t)
    BY <1>1, <1>2 DEF n
  <2>3. Stretch(its, t, 0, 0, i - 1)
    BY <1>1, <2>1, <2>2 DEF Stretch
  <2> QED
    BY <1>2, <2>3, EqualStretches
<1>6. Weights(its)[i + (n - i)] + Weights(t)[i - 1] = Weights(t)[(i - 1) + (n - i)] + Weights(its)[i]
  <2>1. ASSUME NEW j \in 1..(n - i) PROVE its[i + j] = t[(i - 1) + j]
    <3>1. (i - 1) + j \in 1..(n - 1) /\ ~((i - 1) + j < i) /\ ((i - 1) + j) + 1 = i + j
      BY <1>1
    <3> QED
      BY <1>2, <3>1
  <2>2. i + (n - i) <= Len(its) /\ (i - 1) + (n - i) <= Len(t)
    BY <1>1, <1>2 DEF n
  <2>3. Stretch(its, t, i, i - 1, n - i)
    BY <1>1, <2>1, <2>2 DEF Stretch
  <2> QED
    BY <1>2, <2>3, EqualStretches
<1>7. /\ 0 + (i - 1) = i - 1 /\ (i - 1) + (n - i) = n - 1
      /\ i - 1 \in 0..n /\ i \in 0..n /\ n \in 0..n /\ n - 1 \in 0..(n - 1) /\ i - 1 \in 0..(n - 1)
  BY <1>1 DEF n
<1>8. Weights(its)[i] = Weights(its)[i - 1] + its[i].size /\ its[i].size \in Nat
  BY <1>3, ItemsKnown DEF RunningWeight
<1>9. Weights(its)[i - 1] = Weights(t)[i - 1]
  BY <1>4, <1>5, <1>7
<1>10. Weights(its)[n] + Weights(t)[i - 1] = Weights(t)[n - 1] + Weights(its)[i]
  BY <1>1, <1>6, <1>7
<1> DEFINE wn == Weights(its)[n]
           ti == Weights(t)[i - 1]
           tn == Weights(t)[n - 1]
           z == its[i].size
<1>11. wn \in Nat /\ ti \in Nat /\ tn \in Nat /\ z \in Nat /\ wn + ti = tn + (ti + z)
  BY <1>4, <1>7, <1>8, <1>9, <1>10
<1> HIDE DEF wn, ti, tn, z
<1>12. tn = wn - z
  BY <1>11
<1> QED
  BY <1>2, <1>12 DEF t, n, wn, tn, z, Weight

-----------------------------------------------------------------------------
(* The bodies held, each counted once, and within the bounds.              *)
Held(its) == {its[i] : i \in 1..Len(its)}
OnePerUrl(its) == \A i, j \in 1..Len(its) : its[i].url = its[j].url => i = j
InBounds(its, n) ==
  /\ its \in Seq(ImageItem) /\ OnePerUrl(its)
  /\ n = Weight(its) /\ n <= MaxBytes /\ Len(its) <= MaxEntries

(* What was put and not evicted is held until it expires.                  *)
HeldWhileFresh(its, expiry, time) ==
  /\ \A e \in Held(its) : expiry[e.url] <= e.expires
  /\ \A u \in Url : (\A e \in Held(its) : e.url # u) => expiry[u] < time

Stage == {"idle", "created", "gated", "fetching", "shrinking", "done"}

AvatarInv ==
  /\ InBounds(items, bytes)
  /\ clock \in Nat /\ kept \in [Url -> Int] /\ HeldWhileFresh(items, kept, clock)
  /\ at \in [Asker -> Stage] /\ image \in [Viewer -> Url]

(* Eviction stops, within both bounds, at the first place where it may.    *)
Evicted(its, c) ==
  /\ InBounds(c[1], c[2])
  /\ Held(c[1]) \subseteq Held(its)

LEMMA TrimmedFits ==
  ASSUME NEW its \in Seq(ImageItem), OnePerUrl(its)
  PROVE  Evicted(its, Trimmed(its, Weight(its)))
<1> DEFINE n == Weight(its)
           fits(k) == Len(its) - k <= MaxEntries /\ n - Weights(its)[k] <= MaxBytes
           stops == {k \in 0..Len(its) : k = Len(its) \/ fits(k)}
           right(k) == (k = Len(its) \/ fits(k)) /\ \A m \in 0..(k - 1) : ~fits(m)
           cut == CHOOSE k \in 0..Len(its) : right(k)
           t == SubSeq(its, cut + 1, Len(its))
<1>1. Len(its) \in Nat /\ \A j \in 1..Len(its) : its[j] \in ImageItem
  BY ItemsKnown
<1>2. \E k \in 0..Len(its) : right(k)
  <2>1. stops \in SUBSET Nat /\ Len(its) \in stops
    BY <1>1
  <2> HIDE DEF fits
  <2>2. PICK k \in stops : \A m \in stops : k <= m
    BY <2>1, Least
  <2>3. k \in 0..Len(its) /\ (k = Len(its) \/ fits(k))
    BY <2>2
  <2>4. ASSUME NEW m \in 0..(k - 1) PROVE ~fits(m)
    <3>1. m \in 0..Len(its) /\ ~(k <= m)
      BY <1>1, <2>3
    <3> QED
      BY <2>2, <3>1
  <2> QED
    BY <2>3, <2>4
<1>3. cut \in 0..Len(its) /\ right(cut)
  BY <1>2
<1>4. Trimmed(its, n) = <<t, n - Weights(its)[cut]>>
  BY DEF Trimmed
<1> HIDE DEF cut
<1>5. /\ t \in Seq(ImageItem) /\ Len(t) = Len(its) - cut
      /\ \A j \in 1..(Len(its) - cut) : t[j] = its[cut + j]
      /\ Weight(t) = n - Weights(its)[cut]
  BY <1>3, SuffixWeighs
<1> HIDE DEF t
<1>6. Weights(its)[Len(its)] = n /\ n \in Nat /\ Weights(its)[cut] \in Nat
  <2>1. Len(its) \in 0..Len(its)
    BY <1>1
  <2> QED
    BY <1>3, <2>1, WeightsRun DEF RunningWeight, Weight
<1> HIDE DEF n
<1>7. Weight(t) <= MaxBytes /\ Len(t) <= MaxEntries
  <2>1. CASE cut = Len(its)
    <3>1. Len(t) = 0 /\ Weight(t) = 0
      BY <1>1, <1>5, <1>6, <2>1
    <3> QED
      BY <3>1, AvatarAssumption
  <2>2. CASE fits(cut)
    BY <1>5, <2>2
  <2> QED
    BY <1>3, <2>1, <2>2
<1>8. \A j \in 1..Len(t) : cut + j \in 1..Len(its) /\ t[j] = its[cut + j]
  BY <1>1, <1>3, <1>5
<1>9. OnePerUrl(t)
  <2> SUFFICES ASSUME NEW i \in 1..Len(t), NEW j \in 1..Len(t), t[i].url = t[j].url PROVE i = j
    BY DEF OnePerUrl
  <2>1. cut + i = cut + j
    BY <1>8 DEF OnePerUrl
  <2> QED
    BY <1>3, <2>1
<1>10. Held(t) \subseteq Held(its)
  BY <1>8 DEF Held
<1>11. InBounds(t, n - Weights(its)[cut])
  BY <1>5, <1>7, <1>9 DEF InBounds
<1> QED
  BY <1>4, <1>10, <1>11 DEF Evicted, n

(* The items of the other urls, in their order.                            *)
LEMMA OthersAre ==
  ASSUME InBounds(items, bytes), NEW u \in Url
  PROVE  /\ Others(u) \in Seq(ImageItem) /\ OnePerUrl(Others(u))
         /\ Held(Others(u)) = {e \in Held(items) : e.url # u}
         /\ SizeOf(u) \in Nat /\ bytes \in Nat /\ Weight(Others(u)) = bytes - SizeOf(u)
         /\ Len(Others(u)) = Len(items) - (IF HoldsImage(u) THEN 1 ELSE 0)
         /\ HoldsImage(u) => ItemOf(u) \in Held(items) /\ ItemOf(u).url = u
                             /\ ItemOf(u) \in ImageItem /\ ItemOf(u).size = SizeOf(u)
<1>1. /\ items \in Seq(ImageItem) /\ Len(items) \in Nat /\ DOMAIN items = 1..Len(items)
      /\ \A i \in 1..Len(items) : items[i] \in ImageItem /\ items[i].size \in Nat
  BY ItemsKnown DEF InBounds
<1>2. bytes = Weight(items) /\ bytes \in Nat
  <2>1. Len(items) \in 0..Len(items)
    BY <1>1
  <2> QED
    BY <1>1, <2>1, WeightsRun DEF RunningWeight, Weight, InBounds
<1>3. CASE ~HoldsImage(u)
  <2>1. Others(u) = items /\ SizeOf(u) = 0
    BY <1>3 DEF Others, SizeOf
  <2>2. Held(items) = {e \in Held(items) : e.url # u}
    BY <1>1, <1>3 DEF Held, HoldsImage
  <2> QED
    BY <1>1, <1>2, <1>3, <2>1, <2>2 DEF InBounds
<1>4. CASE HoldsImage(u)
  <2> DEFINE n == PlaceOf(u)
             s == RemoveAt(items, n)
             from(j) == IF j < n THEN j ELSE j + 1
  <2>1. n \in 1..Len(items) /\ items[n].url = u /\ n \in Nat
    BY <1>1, <1>4 DEF HoldsImage, PlaceOf
  <2>2. Others(u) = s /\ SizeOf(u) = items[n].size /\ ItemOf(u) = items[n]
    BY <1>4 DEF Others, SizeOf, ItemOf
  <2> HIDE DEF n
  <2>3. /\ s \in Seq(ImageItem) /\ Len(s) = Len(items) - 1
        /\ \A j \in 1..(Len(items) - 1) : s[j] = IF j < n THEN items[j] ELSE items[j + 1]
    BY <1>1, <2>1, CutOut
  <2>4. Weight(s) = Weight(items) - items[n].size
    BY <1>1, <2>1, RemovedWeighs
  <2> HIDE DEF s
  <2>5. \A j \in 1..Len(s) : s[j] = items[from(j)] /\ from(j) \in 1..Len(items) /\ from(j) # n
    BY <1>1, <2>1, <2>3
  <2>6. \A j, l \in 1..Len(s) : from(j) = from(l) => j = l
    BY <1>1, <2>1, <2>3
  <2>7. \A i \in 1..Len(items) : i # n => \E j \in 1..Len(s) : from(j) = i
    <3> SUFFICES ASSUME NEW i \in 1..Len(items), i # n PROVE \E j \in 1..Len(s) : from(j) = i
      OBVIOUS
    <3>1. CASE i < n
      <4>1. i \in 1..Len(s) /\ from(i) = i
        BY <1>1, <2>1, <2>3, <3>1
      <4> QED
        BY <4>1
    <3>2. CASE i > n
      <4>1. i - 1 \in 1..Len(s) /\ from(i - 1) = i
        BY <1>1, <2>1, <2>3, <3>2
      <4> QED
        BY <4>1
    <3> QED
      BY <1>1, <2>1, <3>1, <3>2
  <2> HIDE DEF from
  <2>8. \A i \in 1..Len(items) : items[i].url = u <=> i = n
    BY <2>1 DEF InBounds, OnePerUrl
  <2>9. OnePerUrl(s)
    BY <2>5, <2>6 DEF InBounds, OnePerUrl
  <2>10. Held(s) \subseteq {e \in Held(items) : e.url # u}
    BY <2>5, <2>8 DEF Held
  <2>11. ASSUME NEW e \in Held(items), e.url # u PROVE e \in Held(s)
    <3>1. PICK i \in 1..Len(items) : items[i] = e
      BY DEF Held
    <3>2. PICK j \in 1..Len(s) : from(j) = i
      BY <2>7, <2>8, <2>11, <3>1
    <3>3. s[j] = e
      BY <2>5, <3>1, <3>2
    <3> QED
      BY <3>3 DEF Held
  <2>12. items[n] \in Held(items) /\ items[n] \in ImageItem /\ items[n].size \in Nat
    BY <1>1, <2>1 DEF Held
  <2>13. Held(s) = {e \in Held(items) : e.url # u}
    BY <2>10, <2>11
  <2> QED
    BY <1>2, <1>4, <2>1, <2>2, <2>3, <2>4, <2>9, <2>12, <2>13
<1> QED
  BY <1>3, <1>4

(* One more item of a url that has none.                                   *)
LEMMA OneMore ==
  ASSUME NEW its \in Seq(ImageItem), OnePerUrl(its), NEW e \in ImageItem,
         \A x \in Held(its) : x.url # e.url
  PROVE  /\ Append(its, e) \in Seq(ImageItem) /\ OnePerUrl(Append(its, e))
         /\ Len(Append(its, e)) = Len(its) + 1
         /\ Weight(Append(its, e)) = Weight(its) + e.size
         /\ Held(Append(its, e)) = Held(its) \cup {e}
<1> DEFINE t == Append(its, e)
<1>1. /\ t \in Seq(ImageItem) /\ Len(t) = Len(its) + 1 /\ Weight(t) = Weight(its) + e.size
      /\ \A j \in 1..Len(its) : t[j] = its[j]
      /\ t[Len(its) + 1] = e
  BY AppendedWeighs
<1> HIDE DEF t
<1>2. /\ Len(its) \in Nat
      /\ \A j \in 1..Len(t) : j \in 1..Len(its) \/ j = Len(its) + 1
      /\ \A j \in 1..Len(its) : j \in 1..Len(t)
      /\ Len(its) + 1 \in 1..Len(t)
  <2>1. Len(its) \in Nat
    BY ItemsKnown
  <2> QED
    BY <1>1, <2>1
<1>3. Held(t) = Held(its) \cup {e}
  <2>1. Held(t) \subseteq Held(its) \cup {e}
    BY <1>1, <1>2 DEF Held
  <2>2. Held(its) \cup {e} \subseteq Held(t)
    BY <1>1, <1>2 DEF Held
  <2> QED
    BY <2>1, <2>2
<1>4. \A j \in 1..Len(its) : its[j].url # e.url
  BY DEF Held
<1>5. OnePerUrl(t)
  BY <1>1, <1>2, <1>4 DEF OnePerUrl
<1> QED
  BY <1>1, <1>3, <1>5 DEF t

LEMMA LookedUpInCache ==
  ASSUME AvatarInv, NEW u \in Url, Cached(Got(u)), clock' = clock, kept' = kept
  PROVE  /\ InBounds(items', bytes') /\ HeldWhileFresh(items', kept', clock')
         /\ ~IsFresh(u) => kept[u] < clock
<1> USE DEF AvatarInv
<1>1. /\ Others(u) \in Seq(ImageItem) /\ OnePerUrl(Others(u))
      /\ Held(Others(u)) = {e \in Held(items) : e.url # u}
      /\ SizeOf(u) \in Nat /\ bytes \in Nat /\ Weight(Others(u)) = bytes - SizeOf(u)
      /\ Len(Others(u)) = Len(items) - (IF HoldsImage(u) THEN 1 ELSE 0)
      /\ HoldsImage(u) => ItemOf(u) \in Held(items) /\ ItemOf(u).url = u
                          /\ ItemOf(u) \in ImageItem /\ ItemOf(u).size = SizeOf(u)
  BY OthersAre
<1>2. /\ Len(items) \in Nat /\ bytes <= MaxBytes /\ Len(items) <= MaxEntries
      /\ \A e \in Held(items) : kept[e.url] <= e.expires
      /\ \A x \in Url : (\A e \in Held(items) : e.url # x) => kept[x] < clock
  BY LenProperties DEF InBounds, HeldWhileFresh
<1>3. CASE IsFresh(u)
  <2>1. items' = Append(Others(u), ItemOf(u)) /\ bytes' = bytes /\ HoldsImage(u)
    BY <1>3 DEF Cached, Got, IsFresh
  <2>2. /\ items' \in Seq(ImageItem) /\ OnePerUrl(items') /\ Len(items') = Len(Others(u)) + 1
        /\ Weight(items') = Weight(Others(u)) + ItemOf(u).size
        /\ Held(items') = Held(Others(u)) \cup {ItemOf(u)}
    <3>1. \A x \in Held(Others(u)) : x.url # ItemOf(u).url
      BY <1>1, <2>1
    <3> QED
      BY <1>1, <2>1, <3>1, OneMore
  <2>3. Weight(items') = bytes /\ Len(items') = Len(items)
    BY <1>1, <1>2, <2>1, <2>2
  <2>4. Held(items') = Held(items) \/ \A x : (\A e \in Held(items') : e.url # x) => \A e \in Held(items) : e.url # x
    BY <1>1, <2>1, <2>2
  <2>5. Held(items') \subseteq Held(items)
    BY <1>1, <2>1, <2>2
  <2> QED
    BY <1>2, <1>3, <2>1, <2>2, <2>3, <2>4, <2>5 DEF InBounds, HeldWhileFresh
<1>4. CASE ~IsFresh(u)
  <2>1. items' = Others(u) /\ bytes' = bytes - SizeOf(u)
    BY <1>4 DEF Cached, Got
  <2>2. bytes' <= MaxBytes /\ Len(items') <= MaxEntries
    BY <1>1, <1>2, <2>1, AvatarAssumption
  <2>3. kept[u] < clock
    <3>1. CASE HoldsImage(u)
      <4>1. ItemOf(u).expires \in Nat /\ ~(clock <= ItemOf(u).expires) /\ kept[u] <= ItemOf(u).expires
        BY <1>1, <1>2, <1>4, <3>1 DEF IsFresh, ImageItem
      <4>2. kept[u] \in Int /\ clock \in Nat
        OBVIOUS
      <4> QED
        BY <4>1, <4>2
    <3>2. CASE ~HoldsImage(u)
      <4>1. DOMAIN items = 1..Len(items)
        BY LenProperties DEF InBounds
      <4>2. \A e \in Held(items) : e.url # u
        BY <3>2, <4>1 DEF Held, HoldsImage
      <4> QED
        BY <1>2, <4>2
    <3> QED
      BY <3>1, <3>2
  <2>4. ASSUME NEW x \in Url, \A e \in Held(items') : e.url # x PROVE kept[x] < clock
    <3>1. CASE x = u
      BY <2>3, <3>1
    <3>2. CASE x # u
      <4>1. \A e \in Held(items) : e.url # x
        BY <1>1, <2>1, <2>4, <3>2
      <4> QED
        BY <1>2, <4>1
    <3> QED
      BY <3>1, <3>2
  <2>5. HeldWhileFresh(items', kept', clock')
    BY <1>1, <1>2, <2>1, <2>4 DEF HeldWhileFresh
  <2>6. InBounds(items', bytes')
    BY <1>1, <2>1, <2>2 DEF InBounds
  <2> QED
    BY <2>3, <2>5, <2>6
<1> QED
  BY <1>3, <1>4

LEMMA PutInCache ==
  ASSUME AvatarInv, NEW u \in Url, NEW size \in Size, Cached(Put(u, size)), clock' = clock,
         kept' = [x \in Url |-> IF ~HoldsImage(x)' THEN -1
                                ELSE IF x = u /\ size <= MaxBytes THEN clock + ImageTTL ELSE kept[x]]
  PROVE  InBounds(items', bytes') /\ HeldWhileFresh(items', kept', clock') /\ kept' \in [Url -> Int]
<1> USE DEF AvatarInv
<1> DEFINE e == NewItem(u, size)
           its == Append(Others(u), e)
<1>1. /\ Others(u) \in Seq(ImageItem) /\ OnePerUrl(Others(u))
      /\ Held(Others(u)) = {x \in Held(items) : x.url # u}
      /\ SizeOf(u) \in Nat /\ bytes \in Nat /\ Weight(Others(u)) = bytes - SizeOf(u)
  BY OthersAre
<1>2. /\ e \in ImageItem /\ e.url = u /\ e.size = size /\ e.expires = clock + ImageTTL
      /\ size \in Nat /\ ImageTTL \in Nat /\ clock \in Nat
  BY AvatarAssumption DEF NewItem, ImageItem
<1> HIDE DEF e
<1>3. kept' \in [Url -> Int]
  BY <1>2
<1>4. ASSUME InBounds(items', bytes') PROVE \A x \in Url : HoldsImage(x)' <=> \E y \in Held(items') : y.url = x
  <2>1. DOMAIN items' = 1..Len(items')
    BY <1>4, LenProperties DEF InBounds
  <2> QED
    BY <2>1 DEF HoldsImage, Held
<1>5. ASSUME InBounds(items', bytes') PROVE \A y \in Held(items') : y.url \in Url
  BY <1>5, ItemsKnown DEF InBounds, Held
<1>6. ASSUME InBounds(items', bytes'), \A y \in Held(items') : kept'[y.url] <= y.expires
      PROVE  HeldWhileFresh(items', kept', clock')
  <2>1. ASSUME NEW x \in Url, \A y \in Held(items') : y.url # x PROVE kept'[x] < clock'
    <3>1. kept'[x] = -1
      BY <1>4, <1>6, <2>1
    <3> QED
      BY <1>2, <3>1
  <2> QED
    BY <1>6, <2>1 DEF HeldWhileFresh
<1>7. CASE size > MaxBytes
  <2>1. items' = items /\ bytes' = bytes
    BY <1>7 DEF Cached, Put
  <2>2. InBounds(items', bytes')
    BY <2>1
  <2>3. ~(size <= MaxBytes)
    BY <1>2, <1>7, AvatarAssumption
  <2>4. \A y \in Held(items') : kept'[y.url] = kept[y.url]
    BY <1>4, <1>5, <2>2, <2>3
  <2>5. \A y \in Held(items') : kept'[y.url] <= y.expires
    BY <2>1, <2>4 DEF HeldWhileFresh
  <2> QED
    BY <1>3, <1>6, <2>2, <2>5
<1>8. CASE ~(size > MaxBytes)
  <2>1. /\ its \in Seq(ImageItem) /\ OnePerUrl(its) /\ Weight(its) = Weight(Others(u)) + size
        /\ Held(its) = Held(Others(u)) \cup {e}
    <3>1. \A x \in Held(Others(u)) : x.url # e.url
      BY <1>1, <1>2
    <3> QED
      BY <1>1, <1>2, <3>1, OneMore
  <2> HIDE DEF its
  <2>2. bytes - SizeOf(u) + size = Weight(its)
    BY <1>1, <1>2, <2>1
  <2>3. items' = Trimmed(its, Weight(its))[1] /\ bytes' = Trimmed(its, Weight(its))[2]
    <3>1. Put(u, size) = Trimmed(its, bytes - SizeOf(u) + size)
      BY <1>8 DEF Put, its, e
    <3>2. Put(u, size) = Trimmed(its, Weight(its))
      BY <2>2, <3>1
    <3> QED
      BY <3>2 DEF Cached
  <2>4. InBounds(items', bytes') /\ Held(items') \subseteq Held(its)
    BY <2>1, <2>3, TrimmedFits DEF Evicted
  <2>5. ASSUME NEW y \in Held(items') PROVE kept'[y.url] <= y.expires
    <3>1. y.url \in Url /\ HoldsImage(y.url)'
      BY <1>4, <1>5, <2>4
    <3>2. size <= MaxBytes
      BY <1>2, <1>8, AvatarAssumption
    <3>3. CASE y = e
      BY <1>2, <3>1, <3>2, <3>3
    <3>4. CASE y # e
      <4>1. y \in Held(items) /\ y.url # u
        BY <1>1, <2>1, <2>4, <3>4
      <4>2. kept'[y.url] = kept[y.url]
        BY <3>1, <4>1
      <4> QED
        BY <4>1, <4>2 DEF HeldWhileFresh
    <3> QED
      BY <3>3, <3>4
  <2> QED
    BY <1>3, <1>6, <2>4, <2>5
<1> QED
  BY <1>7, <1>8

LEMMA AvatarInitial == AvatarInit => AvatarInv
<1> SUFFICES ASSUME AvatarInit PROVE AvatarInv
  OBVIOUS
<1> USE DEF AvatarInit
<1>1. items \in Seq(ImageItem) /\ Len(items) = 0 /\ Held(items) = {}
  BY EmptySeq DEF Held
<1>2. Weight(items) = 0
  BY <1>1, WeightsRun DEF Weight, RunningWeight
<1>3. InBounds(items, bytes)
  BY <1>1, <1>2, AvatarAssumption DEF InBounds, OnePerUrl
<1>4. HeldWhileFresh(items, kept, clock)
  BY <1>1 DEF HeldWhileFresh
<1>5. at \in [Asker -> Stage] /\ image \in [Viewer -> Url]
  BY AvatarAssumption DEF Stage
<1> QED
  BY <1>3, <1>4, <1>5 DEF AvatarInv

(* Only a caller that was refused by the second look goes out.             *)
NoneGoesOut == \A c \in Asker : at'[c] = "fetching" => at[c] = "fetching"
GoesOutForLack ==
  \A c \in Asker : at[c] # "fetching" /\ at'[c] = "fetching" => kept[UrlOf(c)] < clock

LEMMA UrlsOfAskers ==
  ASSUME AvatarInv, NEW c \in Asker
  PROVE  UrlOf(c) \in Url
BY DEF AvatarInv, Asker, Task, UrlOf

(* A caller that moves on, but not out.                                    *)
LEMMA MovedOn ==
  ASSUME at \in [Asker -> Stage], NEW c \in Asker, NEW p \in Stage \ {"fetching"},
         at' = [at EXCEPT ![c] = p]
  PROVE  at' \in [Asker -> Stage] /\ NoneGoesOut
BY DEF NoneGoesOut

LEMMA ServedMovesOn ==
  ASSUME at \in [Asker -> Stage], NEW c \in Asker, Served(c)
  PROVE  at' \in [Asker -> Stage] /\ NoneGoesOut
BY MovedOn DEF Served, Stage

LEMMA AvatarStep ==
  ASSUME AvatarInv, [AvatarNext]_avatarVars
  PROVE  AvatarInv' /\ GoesOutForLack
<1>1. NoneGoesOut => GoesOutForLack
  BY DEF NoneGoesOut, GoesOutForLack
<1>2. ASSUME NEW c \in Asker, NEW u \in Url, First(c, u),
             clock' = clock, kept' = kept, image' \in [Viewer -> Url]
      PROVE  AvatarInv' /\ NoneGoesOut
  <2>1. InBounds(items', bytes') /\ HeldWhileFresh(items', kept', clock')
    BY <1>2, LookedUpInCache DEF First
  <2>2. at' \in [Asker -> Stage] /\ NoneGoesOut
    BY <1>2, ServedMovesOn, MovedOn DEF First, AvatarInv, Stage
  <2> QED
    BY <1>2, <2>1, <2>2 DEF AvatarInv
<1>3. ASSUME NEW v \in Viewer, NEW u \in Url, AskImage(v, u)
      PROVE  AvatarInv' /\ NoneGoesOut
  <2>1. v \in Asker /\ image' \in [Viewer -> Url]
    BY <1>3 DEF Asker, AskImage, AvatarInv
  <2> QED
    BY <1>2, <1>3, <2>1 DEF AskImage
<1>4. ASSUME NEW t \in Task, BeginTask(t)
      PROVE  AvatarInv' /\ NoneGoesOut
  <2>1. t \in Asker /\ t[2] \in Url /\ image' \in [Viewer -> Url]
    BY <1>4 DEF Asker, Task, BeginTask, AvatarInv
  <2> QED
    BY <1>2, <1>4, <2>1 DEF BeginTask
<1>5. ASSUME NEW c \in Asker, Enter(c)
      PROVE  AvatarInv' /\ GoesOutForLack
  <2>1. UrlOf(c) \in Url
    BY UrlsOfAskers
  <2>2. /\ InBounds(items', bytes') /\ HeldWhileFresh(items', kept', clock')
        /\ ~IsFresh(UrlOf(c)) => kept[UrlOf(c)] < clock
    BY <1>5, <2>1, LookedUpInCache DEF Enter
  <2>3. CASE IsFresh(UrlOf(c))
    <3>1. at' \in [Asker -> Stage] /\ NoneGoesOut
      BY <1>5, <2>3, ServedMovesOn DEF Enter, AvatarInv
    <3> QED
      BY <1>1, <1>5, <2>2, <3>1 DEF AvatarInv, Enter
  <2>4. CASE ~IsFresh(UrlOf(c))
    <3>1. at \in [Asker -> Stage] /\ at' = [at EXCEPT ![c] = "fetching"]
      BY <1>5, <2>4 DEF Enter, AvatarInv
    <3>2. at' \in [Asker -> Stage] /\ \A d \in Asker : d # c => at'[d] = at[d]
      BY <3>1 DEF Stage
    <3>3. GoesOutForLack
      BY <2>2, <2>4, <3>2 DEF GoesOutForLack
    <3> QED
      BY <1>5, <2>2, <3>2, <3>3 DEF AvatarInv, Enter
  <2> QED
    BY <2>3, <2>4
<1>6. ASSUME NEW c \in Asker, NEW s \in Size, FetchedImage(c, s)
      PROVE  AvatarInv' /\ NoneGoesOut
  <2>1. UrlOf(c) \in Url
    BY UrlsOfAskers
  <2>2. /\ InBounds(items', bytes') /\ HeldWhileFresh(items', kept', clock')
        /\ kept' \in [Url -> Int]
    BY <1>6, <2>1, PutInCache DEF FetchedImage
  <2>3. at' \in [Asker -> Stage] /\ NoneGoesOut
    BY <1>6, ServedMovesOn DEF FetchedImage, AvatarInv
  <2> QED
    BY <1>6, <2>2, <2>3 DEF AvatarInv, FetchedImage
<1>7. ASSUME UNCHANGED <<items, bytes, clock, image, kept>>, at' \in [Asker -> Stage], NoneGoesOut
      PROVE  AvatarInv' /\ NoneGoesOut
  BY <1>7 DEF AvatarInv
<1>8. ASSUME \/ \E c \in Asker : FetchFailed(c)
             \/ \E t \in Task : Shrunk(t)
             \/ StartReport \/ ReportSent \/ UNCHANGED avatarVars
      PROVE  AvatarInv' /\ NoneGoesOut
  <2>1. ASSUME NEW c \in Asker, FetchFailed(c) PROVE AvatarInv' /\ NoneGoesOut
    BY <1>7, <2>1, MovedOn DEF FetchFailed, AvatarInv, Stage
  <2>2. ASSUME NEW t \in Task, Shrunk(t) PROVE AvatarInv' /\ NoneGoesOut
    <3>1. t \in Asker /\ at \in [Asker -> Stage] /\ "done" \in Stage \ {"fetching"}
      BY DEF Asker, AvatarInv, Stage
    <3>2. at' = [at EXCEPT ![t] = "done"] /\ UNCHANGED <<items, bytes, clock, image, kept>>
      BY <2>2 DEF Shrunk
    <3> QED
      BY <1>7, <3>1, <3>2, MovedOn
  <2>3. CASE StartReport \/ ReportSent
    <3>1. /\ UNCHANGED <<items, bytes, clock, image, kept>>
          /\ \E p \in {"created", "done"} : at' = [c \in Asker |-> IF c \in Task THEN p ELSE at[c]]
      BY <2>3 DEF StartReport, ReportSent
    <3>2. at' \in [Asker -> Stage] /\ NoneGoesOut
      BY <3>1 DEF AvatarInv, Stage, NoneGoesOut
    <3> QED
      BY <1>7, <3>1, <3>2
  <2>4. CASE UNCHANGED avatarVars
    BY <1>7, <2>4 DEF avatarVars, AvatarInv, NoneGoesOut
  <2> QED
    BY <1>8, <2>1, <2>2, <2>3, <2>4
<1>9. CASE Pass
  <2>1. UNCHANGED <<items, bytes, at, image, kept>> /\ clock' = clock + 1
    BY <1>9 DEF Pass
  <2>2. \A u \in Url : kept[u] < clock => kept'[u] < clock'
    BY <2>1 DEF AvatarInv
  <2>3. HeldWhileFresh(items', kept', clock')
    BY <2>1, <2>2 DEF AvatarInv, HeldWhileFresh
  <2> QED
    BY <1>1, <2>1, <2>3 DEF AvatarInv, NoneGoesOut
<1> QED
  BY <1>1, <1>3, <1>4, <1>5, <1>6, <1>8, <1>9 DEF AvatarNext

(* app._AvatarCache: through replacement, expiry and eviction, for any     *)
(* bounds and any bodies, the counter is what the bodies held weigh, and   *)
(* neither bound is passed.                                                *)
THEOREM CounterStaysWeight == AvatarSpec => []CounterIsWeight
<1>1. AvatarInv => CounterIsWeight
  BY DEF AvatarInv, InBounds, CounterIsWeight
<1>2. AvatarInv /\ [AvatarNext]_avatarVars => AvatarInv'
  BY AvatarStep
<1> QED
  BY <1>1, <1>2, AvatarInitial, PTL DEF AvatarSpec

(* app._avatar_bytes: the second look behind the gate, for any callers and *)
(* any number let through it, keeps a caller from fetching what another    *)
(* has brought back and the cache still holds.                             *)
THEOREM FetchedForLack == AvatarSpec => KeptIsNotFetched
<1>1. AvatarInv /\ [AvatarNext]_avatarVars => AvatarInv'
  BY AvatarStep
<1>2. ASSUME AvatarInv, [AvatarNext]_avatarVars
      PROVE  [\A c \in Asker : at[c] # "fetching" /\ at'[c] = "fetching"
                               => kept[UrlOf(c)] < clock]_avatarVars
  BY <1>2, AvatarStep DEF GoesOutForLack
<1> QED
  BY <1>1, <1>2, AvatarInitial, PTL DEF AvatarSpec, KeptIsNotFetched
=============================================================================
