---------------------------- MODULE Rules_proofs ----------------------------
(*****************************************************************************)
(* The theorems about the rules a run decides by: which sites it asks, what a*)
(* pivot records, how a page is judged and which accounts belong together.   *)
(*****************************************************************************)
EXTENDS SitePlan, Pivots, Judgement, Correlation, FiniteSetTheorems,
        SequenceTheorems, WellFoundedInduction, TLAPS

-----------------------------------------------------------------------------
(* The site plan                                                           *)

(* The sites an engine can be asked for; one of each name.                 *)
Askable(e) == IF e = "whatsmyname" THEN Keyed(FullSet(e)) ELSE ToSet(Catalogue[e])

(* The place in the list of the call that is next.                         *)
Turn == 7 - Len(planning)

RowOf(s, e) == [site |-> s.name, engine |-> e]

Settled(c) ==
  /\ \A s \in plan[c] : ~DeniedSite(s)
  /\ \A s \in Asked(c) \ plan[c] :
       IF DeniedSite(s) THEN RowOf(s, c.engine) \in skipped ELSE RowOf(s, c.engine) \in degraded

PlanTyped ==
  /\ DOMAIN plan = ToSet(Calls)
  /\ planning \in Seq(ToSet(Calls)) /\ Len(planning) <= 6
  /\ \A i \in 1..Len(planning) : planning[i] = Calls[(Turn - 1) + i]

Reported ==
  /\ \A r \in skipped : \E e \in Engines : \E s \in Askable(e) : DeniedSite(s) /\ r = RowOf(s, e)
  /\ \A r \in degraded : \E e \in Engines : \E s \in Askable(e) : ~DeniedSite(s) /\ r = RowOf(s, e)

PlanInv ==
  /\ PlanTyped
  /\ Reported
  /\ \A i \in 1..6 : i < Turn => Settled(Calls[i])
  /\ 2 < Turn => plan[Calls[2]] \subseteq plan[Calls[1]]

----------------------------------------------------------------------------
(* A set of numbers has a least one, a bounded one a greatest.             *)
LEMMA Least ==
  ASSUME NEW S \in SUBSET Nat, S # {}
  PROVE  \E m \in S : \A k \in S : m <= k
<1> DEFINE R == {ss \in Nat \X Nat : ss[1] < ss[2]}
<1>1. IsWellFoundedOn(R, Nat)
  BY NatLessThanWellFounded DEF OpToRel
<1> HIDE DEF R
<1>2. PICK x \in S : \A y \in S : ~(<<y, x>> \in R)
  BY <1>1, WFMin
<1>3. \A y \in S : ~(y < x)
  BY <1>2 DEF R
<1> QED
  BY <1>2, <1>3

LEMMA Greatest ==
  ASSUME NEW n \in Nat, NEW S \in SUBSET (1..n), S # {}
  PROVE  \E m \in S : \A k \in S : k <= m
<1> DEFINE T == {n - k : k \in S}
<1>1. T \in SUBSET Nat /\ T # {}
  <2>1. \A k \in S : k \in 1..n /\ n - k \in Nat
    OBVIOUS
  <2> QED
    BY <2>1
<1>2. PICK t \in T : \A u \in T : t <= u
  BY <1>1, Least
<1>3. PICK m \in S : t = n - m
  BY <1>2
<1>4. \A k \in S : n - m <= n - k
  BY <1>2, <1>3
<1> QED
  BY <1>4

(* _match_names picks from the mapping and from the database.              *)
LEMMA PickedIsThere ==
  ASSUME NEW sites, NEW mapping, sites \in Seq(ToSet(sites))
  PROVE  Picked(sites, mapping) \subseteq mapping \cap ToSet(sites)
<1> DEFINE has(n) == {i \in DOMAIN sites : sites[i].norm = n /\ sites[i] \in mapping}
           last(n) == sites[CHOOSE i \in has(n) : \A j \in has(n) : j <= i]
           hits(w) == {i \in DOMAIN w : has(w[i]) # {}}
           first(w) == CHOOSE i \in hits(w) : \A j \in hits(w) : i <= j
<1>1. ASSUME NEW n, has(n) # {} PROVE last(n) \in mapping \cap ToSet(sites)
  <2>1. DOMAIN sites = 1..Len(sites) /\ Len(sites) \in Nat
    BY LenProperties
  <2>2. has(n) \in SUBSET (1..Len(sites))
    BY <2>1
  <2>3. \E i \in has(n) : \A j \in has(n) : j <= i
    BY <1>1, <2>1, <2>2, Greatest
  <2>4. (CHOOSE i \in has(n) : \A j \in has(n) : j <= i) \in has(n)
    BY <2>3
  <2> QED
    BY <2>4 DEF ToSet
<1>2. ASSUME NEW w \in Wanted, hits(w) # {} PROVE has(w[first(w)]) # {}
  <2>1. DOMAIN w = 1..Len(w) /\ Len(w) \in Nat
    BY PlanAssumption, LenProperties
  <2>2. hits(w) \in SUBSET Nat
    BY <2>1
  <2> HIDE DEF has
  <2>3. \E i \in hits(w) : \A j \in hits(w) : i <= j
    BY <1>2, <2>2, Least
  <2>4. first(w) \in hits(w)
    BY <2>3
  <2> QED
    BY <2>4
<1>3. Picked(sites, mapping) = {last(w[first(w)]) : w \in {v \in Wanted : hits(v) # {}}}
  BY DEF Picked
<1> HIDE DEF has, last, hits, first
<1> QED
  BY <1>1, <1>2, <1>3

LEMMA CallsAre ==
  /\ Calls[1] = Call("sherlock", "full") /\ Calls[2] = Call("sherlock", "reduced")
  /\ Calls[3] = Call("maigret", "full") /\ Calls[4] = Call("maigret", "reduced")
  /\ Calls[5] = Call("whatsmyname", "full") /\ Calls[6] = Call("whatsmyname", "reduced")
  /\ Len(Calls) = 6 /\ DOMAIN Calls = 1..6
  /\ ToSet(Calls) = {Calls[1], Calls[2], Calls[3], Calls[4], Calls[5], Calls[6]}
<1>1. Len(Calls) = 6 /\ DOMAIN Calls = 1..6
  BY DEF Calls
<1>2. ToSet(Calls) = {Calls[1], Calls[2], Calls[3], Calls[4], Calls[5], Calls[6]}
  BY <1>1 DEF ToSet
<1>3. /\ Calls[1] = Call("sherlock", "full") /\ Calls[2] = Call("sherlock", "reduced")
      /\ Calls[3] = Call("maigret", "full") /\ Calls[4] = Call("maigret", "reduced")
      /\ Calls[5] = Call("whatsmyname", "full") /\ Calls[6] = Call("whatsmyname", "reduced")
  BY DEF Calls
<1> QED
  BY <1>1, <1>2, <1>3

LEMMA CallsDiffer == \A i, j \in 1..6 : Calls[i] = Calls[j] => i = j
<1>1. \A i \in 1..6 : i \in {1, 2, 3, 4, 5, 6}
  OBVIOUS
<1> QED
  BY <1>1, CallsAre DEF Call

LEMMA AskedIsAskable ==
  ASSUME NEW c \in ToSet(Calls)
  PROVE  Asked(c) \subseteq Askable(c.engine) /\ c.engine \in Engines
<1>1. /\ c.engine \in Engines /\ c.set \in {"full", "reduced"}
      /\ c = Call("sherlock", "reduced") <=> c.engine = "sherlock" /\ c.set = "reduced"
  BY CallsAre DEF Call, Engines
<1>2. \A e \in Engines : FullSet(e) \subseteq ToSet(Catalogue[e])
  BY DEF FullSet, ToSet
<1>3. ASSUME c.engine # "whatsmyname" PROVE Asked(c) \subseteq Askable(c.engine)
  <2>1. c.engine \in {"sherlock", "maigret"} /\ Catalogue[c.engine] \in Seq(ToSet(Catalogue[c.engine]))
    BY <1>1, <1>3, PlanAssumption DEF Engines
  <2>2. Curated(c.engine) \subseteq ToSet(Catalogue[c.engine])
    BY <2>1, PickedIsThere DEF Curated
  <2> QED
    BY <1>1, <1>2, <1>3, <2>2 DEF Asked, Askable
<1>4. ASSUME c.engine = "whatsmyname" PROVE Asked(c) \subseteq Askable(c.engine)
  <2> DEFINE all == Catalogue["whatsmyname"]
             full == FullSet("whatsmyname")
             some == Curated("whatsmyname")
             at(s) == CHOOSE i \in DOMAIN all : all[i] = s
  <2>1. full = ToSet(all) /\ some = {s \in full : \E w \in Wanted : s.norm = w[1]}
    BY DEF FullSet, Curated, ToSet
  <2>2. \A s, t \in full : s.name = t.name => (s \in some <=> t \in some)
    BY <2>1, PlanAssumption
  <2>3. /\ Keyed(full) = {s \in full : ~\E t \in full : t.name = s.name /\ at(t) > at(s)}
        /\ Keyed(some) = {s \in some : ~\E t \in some : t.name = s.name /\ at(t) > at(s)}
    BY DEF Keyed
  <2> HIDE DEF at
  <2>4. Keyed(some) \subseteq Keyed(full)
    BY <2>1, <2>2, <2>3
  <2> QED
    BY <1>1, <1>4, <2>4 DEF Asked, Askable
<1> QED
  BY <1>1, <1>3, <1>4

LEMMA NamesAreOnce ==
  ASSUME NEW e \in Engines, NEW s \in Askable(e), NEW t \in Askable(e), s.name = t.name
  PROVE  s = t
<1>1. CASE e # "whatsmyname"
  <2>1. e \in {"sherlock", "maigret"} /\ s \in ToSet(Catalogue[e]) /\ t \in ToSet(Catalogue[e])
    BY <1>1 DEF Askable, Engines
  <2>2. PICK i \in DOMAIN Catalogue[e], j \in DOMAIN Catalogue[e] : s = Catalogue[e][i] /\ t = Catalogue[e][j]
    BY <2>1 DEF ToSet
  <2>3. i = j
    BY <2>1, <2>2, PlanAssumption
  <2> QED
    BY <2>2, <2>3
<1>2. CASE e = "whatsmyname"
  <2> DEFINE all == Catalogue["whatsmyname"]
             full == FullSet("whatsmyname")
             at(x) == CHOOSE i \in DOMAIN all : all[i] = x
  <2>1. \A x \in full : at(x) \in DOMAIN all /\ all[at(x)] = x
    BY DEF FullSet
  <2>2. DOMAIN all = 1..Len(all) /\ Len(all) \in Nat
    BY PlanAssumption, LenProperties
  <2>3. Keyed(full) = {x \in full : ~\E y \in full : y.name = x.name /\ at(y) > at(x)}
    BY DEF Keyed
  <2> HIDE DEF at, full, all
  <2>4. s \in Keyed(full) /\ t \in Keyed(full)
    BY <1>2 DEF Askable, full
  <2>5. ~(at(s) > at(t)) /\ ~(at(t) > at(s)) /\ at(s) \in Nat /\ at(t) \in Nat
    BY <2>1, <2>2, <2>3, <2>4
  <2>6. at(s) = at(t)
    BY <2>5
  <2> QED
    BY <2>1, <2>3, <2>4, <2>6
<1> QED
  BY <1>1, <1>2

----------------------------------------------------------------------------
LEMMA FilterStep ==
  ASSUME PlanInv, Filter
  PROVE  PlanInv'
<1>1. planning # <<>> /\ planning' = Tail(planning) /\ denied' = denied
  BY DEF Filter
<1>2. planning \in Seq(ToSet(Calls)) /\ Len(planning) \in Nat /\ Len(planning) <= 6 /\ Len(planning) # 0
  BY <1>1, LenProperties, EmptySeq DEF PlanInv, PlanTyped
<1>3. \E i \in 1..6 : i = Turn
  BY <1>2 DEF Turn
<1>4. PICK n \in 1..6 : n = Turn
  BY <1>3
<1> DEFINE c == Calls[n]
           asks == Asked(c)
           kept == Permitted(asks)
           off == IF c = Call("sherlock", "reduced") THEN {} ELSE Benched(c.engine, kept)
<1>5. c = planning[1] /\ c \in ToSet(Calls)
  <2>1. 1 \in 1..Len(planning) /\ (n - 1) + 1 = n
    BY <1>2
  <2>2. planning[1] = Calls[(n - 1) + 1]
    BY <1>4, <2>1 DEF PlanInv, PlanTyped
  <2> QED
    BY <1>2, <2>1, <2>2, ElementOfSeq
<1>6. /\ plan' = [plan EXCEPT ![c] = kept \ off]
      /\ skipped' = skipped \cup AsRows(c.engine, asks \ kept)
      /\ degraded' = degraded \cup AsRows(c.engine, off)
  BY <1>5 DEF Filter
<1>7. /\ kept = {s \in asks : ~DeniedSite(s)} /\ off \subseteq kept
      /\ \A s \in asks \ kept : DeniedSite(s)
  BY DEF Permitted, Benched
<1>8. asks \subseteq Askable(c.engine) /\ c.engine \in Engines
  BY <1>5, AskedIsAskable
<1>9. /\ Turn' = n + 1
      /\ planning' \in Seq(ToSet(Calls)) /\ Len(planning') <= 6
      /\ \A i \in 1..Len(planning') : planning'[i] = Calls[(Turn' - 1) + i]
  <2>1. /\ planning' \in Seq(ToSet(Calls)) /\ Len(planning') = Len(planning) - 1
        /\ \A i \in 1..Len(planning') : planning'[i] = planning[i + 1]
    BY <1>1, <1>2, HeadTailProperties
  <2>2. Turn' = n + 1
    BY <1>2, <1>4, <2>1 DEF Turn
  <2>3. ASSUME NEW i \in 1..Len(planning') PROVE planning'[i] = Calls[(Turn' - 1) + i]
    <3>1. i + 1 \in 1..Len(planning) /\ (n - 1) + (i + 1) = ((n + 1) - 1) + i
      BY <1>2, <2>1
    <3>2. planning[i + 1] = Calls[(n - 1) + (i + 1)]
      BY <1>4, <3>1 DEF PlanInv, PlanTyped
    <3> QED
      BY <2>1, <2>2, <3>1, <3>2
  <2> QED
    BY <1>2, <2>1, <2>2, <2>3
<1>10. plan'[c] = kept \ off /\ \A d \in ToSet(Calls) : d # c => plan'[d] = plan[d]
  BY <1>6, <1>5 DEF PlanInv, PlanTyped
<1>11. \A s : DeniedSite(s)' <=> DeniedSite(s)
  BY <1>1 DEF DeniedSite
<1>12. \A e : Askable(e)' = Askable(e)
  BY DEF Askable, Keyed, FullSet
<1>13. \A i \in 1..6 : i <= n => Asked(Calls[i])' = Asked(Calls[i])
  <2> SUFFICES ASSUME NEW i \in 1..6, i <= n PROVE Asked(Calls[i])' = Asked(Calls[i])
    OBVIOUS
  <2>1. CASE i = 2
    <3>1. Calls[1] # Calls[n] /\ Calls[1] \in ToSet(Calls)
      BY <1>5, <2>1, CallsDiffer, CallsAre
    <3>2. plan'[Call("sherlock", "full")] = plan[Call("sherlock", "full")]
      BY <1>5, <1>10, <3>1, CallsAre
    <3> QED
      BY <3>2 DEF Asked, Curated, Keyed, FullSet, Calls
  <2>2. CASE i # 2
    <3>1. Calls[i].engine # "sherlock" \/ Calls[i].set = "full"
      BY <2>2, CallsAre DEF Call
    <3> QED
      BY <3>1, CallsAre DEF Asked, Curated, Keyed, FullSet, Calls
  <2> QED
    BY <2>1, <2>2
<1>14. /\ Asked(c)' = Asked(c) /\ plan'[c] = kept \ off
       /\ skipped' = skipped \cup AsRows(c.engine, asks \ kept)
       /\ degraded' = degraded \cup AsRows(c.engine, off)
  BY <1>6, <1>10, <1>13
<1> HIDE DEF c, asks, kept, off
<1>15. Settled(Calls[n])'
  <2>1. \A s \in plan'[c] : ~DeniedSite(s)
    BY <1>7, <1>14
  <2>2. \A s \in asks \ plan'[c] : IF DeniedSite(s) THEN RowOf(s, c.engine) \in skipped' ELSE RowOf(s, c.engine) \in degraded'
    BY <1>7, <1>14 DEF AsRows, RowOf
  <2> QED
    BY <1>11, <1>14, <2>1, <2>2 DEF Settled, RowOf, c, asks
<1>16. ASSUME NEW i \in 1..6, i < Turn' PROVE Settled(Calls[i])'
  <2>1. CASE i = n
    BY <1>15, <2>1
  <2>2. CASE i # n
    <3>1. i < n /\ Settled(Calls[i])
      BY <1>9, <1>16, <1>4, <2>2 DEF PlanInv
    <3>2. Asked(Calls[i])' = Asked(Calls[i]) /\ plan'[Calls[i]] = plan[Calls[i]]
      BY <1>10, <1>13, <2>2, <3>1, CallsDiffer, CallsAre DEF c
    <3>3. skipped \subseteq skipped' /\ degraded \subseteq degraded'
      BY <1>14
    <3> QED
      BY <1>11, <3>1, <3>2, <3>3 DEF Settled, RowOf
  <2> QED
    BY <2>1, <2>2
<1>17. 2 < Turn' => plan'[Calls[2]] \subseteq plan'[Calls[1]]
  <2> SUFFICES ASSUME 2 < n + 1 PROVE plan'[Calls[2]] \subseteq plan'[Calls[1]]
    BY <1>9
  <2>1. plan'[Calls[1]] = plan[Calls[1]]
    BY <1>10, CallsDiffer, CallsAre DEF c
  <2>2. CASE n = 2
    <3>1. asks = Picked(Catalogue["sherlock"], plan[Calls[1]])
      BY <2>2, CallsAre DEF asks, c, Asked, Curated, Call
    <3>2. asks \subseteq plan[Calls[1]]
      BY <3>1, PickedIsThere, PlanAssumption
    <3> QED
      BY <1>7, <1>14, <2>1, <2>2, <3>2 DEF c
  <2>3. CASE n # 2
    <3>1. 2 < Turn
      BY <1>4, <2>3
    <3>2. plan'[Calls[2]] = plan[Calls[2]]
      BY <1>10, <2>3, CallsDiffer, CallsAre DEF c
    <3> QED
      BY <2>1, <3>1, <3>2 DEF PlanInv
  <2> QED
    BY <2>2, <2>3
<1>18. Reported'
  <2>1. ASSUME NEW r \in skipped'
        PROVE  \E e \in Engines : \E s \in Askable(e) : DeniedSite(s) /\ r = RowOf(s, e)
    <3>1. CASE r \in skipped
      BY <3>1 DEF PlanInv, Reported
    <3>2. CASE r \notin skipped
      <4>1. PICK s \in asks \ kept : r = RowOf(s, c.engine)
        BY <1>14, <2>1, <3>2 DEF AsRows, RowOf
      <4> QED
        BY <1>7, <1>8, <4>1
    <3> QED
      BY <3>1, <3>2
  <2>2. ASSUME NEW r \in degraded'
        PROVE  \E e \in Engines : \E s \in Askable(e) : ~DeniedSite(s) /\ r = RowOf(s, e)
    <3>1. CASE r \in degraded
      BY <3>1 DEF PlanInv, Reported
    <3>2. CASE r \notin degraded
      <4>1. PICK s \in off : r = RowOf(s, c.engine)
        BY <1>14, <2>2, <3>2 DEF AsRows, RowOf
      <4> QED
        BY <1>7, <1>8, <4>1
    <3> QED
      BY <3>1, <3>2
  <2> QED
    BY <1>11, <1>12, <2>1, <2>2 DEF Reported, RowOf
<1>19. PlanTyped'
  BY <1>9, <1>6 DEF PlanInv, PlanTyped
<1> QED
  BY <1>16, <1>17, <1>18, <1>19 DEF PlanInv

LEMMA PlanStep ==
  ASSUME PlanInv, [PlanNext]_planVars
  PROVE  PlanInv'
<1>1. CASE denied' = denied /\ plan' = plan /\ skipped' = skipped /\ degraded' = degraded /\ planning' = planning
  <2>1. /\ Turn' = Turn /\ \A s : DeniedSite(s)' <=> DeniedSite(s)
        /\ \A e : Askable(e)' = Askable(e)
    BY <1>1 DEF Turn, DeniedSite, Askable, Keyed, FullSet
  <2>2. \A c : Asked(c)' = Asked(c)
    BY <1>1 DEF Asked, Curated, Keyed, FullSet
  <2>3. \A c : Settled(c) => Settled(c)'
    BY <1>1, <2>1, <2>2 DEF Settled, RowOf
  <2>4. PlanTyped'
    BY <1>1, <2>1 DEF PlanInv, PlanTyped
  <2>5. Reported'
    BY <1>1, <2>1 DEF PlanInv, Reported, RowOf
  <2> QED
    BY <1>1, <2>1, <2>3, <2>4, <2>5 DEF PlanInv
<1> QED
  BY <1>1, FilterStep DEF PlanNext, CircuitsMove, planVars

LEMMA PlanInitial == PlanInit => PlanInv
<1> SUFFICES ASSUME PlanInit PROVE PlanInv
  OBVIOUS
<1>1. Calls \in Seq(ToSet(Calls))
  BY CallsAre DEF Calls
<1>2. Turn = 1
  BY CallsAre DEF PlanInit, Turn
<1>3. PlanTyped
  BY <1>1, <1>2, CallsAre DEF PlanInit, PlanTyped
<1> QED
  BY <1>2, <1>3 DEF PlanInit, PlanInv, Reported

(* plan_site_sets: whatever the databases hold, whoever is denied and       *)
(* however the circuits move between two filters, no set has a denied site, *)
(* what is left out is reported for what it is, once, and Sherlock's short  *)
(* set is part of its full one.                                            *)
THEOREM PlansAreHonest == PlanSpec => []PlanIsHonest
<1>1. PlanInv => PlanIsHonest
  <2> SUFFICES ASSUME PlanInv, planning = <<>> PROVE PlanIsHonest
    BY DEF PlanIsHonest
  <2>1. Turn = 7
    BY EmptySeq DEF Turn
  <2>2. \A c \in ToSet(Calls) : Settled(c)
    <3>1. \A i \in 1..6 : Settled(Calls[i])
      BY <2>1 DEF PlanInv
    <3> QED
      BY <3>1, CallsAre
  <2>3. \A s : DeniedSite(s) <=> \E u \in ToSet(s.urls) : u \in denied
    BY DEF DeniedSite, ToSet
  <2>4. plan[Call("sherlock", "reduced")] \subseteq plan[Call("sherlock", "full")]
    BY <2>1, CallsAre DEF PlanInv
  <2>5. skipped \cap degraded = {}
    <3> SUFFICES ASSUME NEW r \in skipped, r \in degraded PROVE FALSE
      OBVIOUS
    <3>1. PICK e \in Engines : \E s \in Askable(e) : DeniedSite(s) /\ r = RowOf(s, e)
      BY DEF PlanInv, Reported
    <3>2. PICK s \in Askable(e) : DeniedSite(s) /\ r = RowOf(s, e)
      BY <3>1
    <3>3. PICK f \in Engines : \E t \in Askable(f) : ~DeniedSite(t) /\ r = RowOf(t, f)
      BY DEF PlanInv, Reported
    <3>4. PICK t \in Askable(f) : ~DeniedSite(t) /\ r = RowOf(t, f)
      BY <3>3
    <3>5. e = f /\ s.name = t.name
      BY <3>2, <3>4 DEF RowOf
    <3> QED
      BY <3>2, <3>4, <3>5, NamesAreOnce
  <2> QED
    BY <2>2, <2>3, <2>4, <2>5 DEF PlanIsHonest, Settled, RowOf
<1> QED
  BY <1>1, PlanInitial, PlanStep, PTL DEF PlanSpec

-----------------------------------------------------------------------------
(* The pivots                                                              *)

(* The sources a pivot records something of; only the detectors record      *)
(* what they may not ask.                                                  *)
Listed == IF pivot \in Modular THEN Asks[pivot] \ Refused ELSE Asks[pivot]
Forbidden(s) == pivot = "signals" /\ s \in Refused

PivotTyped ==
  /\ pivot \in DOMAIN Asks
  /\ library \in (IF pivot \in Modular THEN {"here", "broken", "missing"} ELSE {"here"})
  /\ finished \in BOOLEAN

(* Without its library a pivot asks nobody, and says so if it is broken.    *)
Unavailable ==
  /\ todo = {} /\ asked = {} /\ DOMAIN said = {}
  /\ library = "missing" => DOMAIN entry = {}
  /\ library = "broken" => DOMAIN entry = {"library"} /\ entry["library"] = "error"

(* With it, every source is to be asked, asked or recorded, and what is     *)
(* recorded is the refusal or what its answer stands for.                  *)
Accounted ==
  /\ todo \cup asked \cup DOMAIN entry = Listed
  /\ DOMAIN said \subseteq DOMAIN entry
  /\ \A s \in DOMAIN said : said[s] \in Answers(pivot) /\ entry[s] = Entry(said[s])
  /\ \A s \in DOMAIN entry : s \notin DOMAIN said => Forbidden(s) /\ entry[s] = "policy"
  /\ \A s \in asked \cup DOMAIN said : ~Forbidden(s)

Closed ==
  /\ todo = {} /\ asked = {}
  /\ pivot = "signals" =>
       observed = [s \in {t \in DOMAIN entry : entry[t] # "policy"} |-> entry[s] # "blocked"]

PivotInv ==
  /\ PivotTyped
  /\ IF library = "here" THEN Accounted ELSE Unavailable
  /\ finished => Closed

(* What each answer is recorded as.                                        *)
LEMMA EntryIs ==
  ASSUME PivotTyped, NEW a \in Answers(pivot)
  PROVE  /\ Entry(a) # "policy"
         /\ Entry(a) = "absent" => a \in Denials
         /\ pivot = "signals" => (Entry(a) # "blocked" <=> a \in Denials \cup {"profile"})
<1>1. pivot \in {"email", "phone", "brokers", "domain", "signals"}
  BY PivotAssumption DEF PivotTyped
<1>2. CASE pivot \in Modular
  BY <1>2 DEF Modular, Answers, Entry, ModuleEntry, Denials
<1>3. CASE pivot = "brokers"
  BY <1>3 DEF Modular, Answers, Entry, BrokerEntry, Denials
<1>4. CASE pivot = "domain"
  BY <1>4 DEF Modular, Answers, Entry, RegisterEntry, Denials
<1>5. CASE pivot = "signals"
  BY <1>5 DEF Modular, Answers, Entry, DetectorEntry, Denials
<1> QED
  BY <1>1, <1>2, <1>3, <1>4, <1>5 DEF Modular

LEMMA PivotInitial == PivotInit => PivotInv
<1> SUFFICES ASSUME PivotInit PROVE PivotInv
  OBVIOUS
<1>1. DOMAIN said = {} /\ DOMAIN observed = {} /\ asked = {} /\ ~finished
  BY DEF PivotInit
<1>2. PivotTyped
  BY DEF PivotInit, PivotTyped
<1>3. CASE library = "here"
  BY <1>1, <1>2, <1>3 DEF PivotInit, PivotInv, Accounted, Listed
<1>4. CASE library # "here"
  BY <1>1, <1>2, <1>4 DEF PivotInit, PivotInv, Unavailable, PivotTyped
<1> QED
  BY <1>3, <1>4

LEMMA AskStep ==
  ASSUME PivotInv, NEW s, Ask(s)
  PROVE  PivotInv'
<1>1. /\ s \in todo /\ todo' = todo \ {s} /\ pivot' = pivot /\ library' = library
      /\ said' = said /\ observed' = observed /\ finished' = finished
      /\ IF Forbidden(s) THEN entry' = Noted(entry, s, "policy") /\ asked' = asked
         ELSE asked' = asked \cup {s} /\ entry' = entry
  BY DEF Ask, Forbidden
<1>2. library = "here" /\ Accounted /\ ~finished
  BY <1>1 DEF PivotInv, Unavailable, Closed
<1>3. PivotTyped' /\ Listed' = Listed /\ \A t : Forbidden(t)' <=> Forbidden(t)
  BY <1>1 DEF PivotInv, PivotTyped, Listed, Forbidden
<1>4. \A a : Answers(pivot)' = Answers(pivot) /\ Entry(a)' = Entry(a)
  BY <1>1 DEF Entry, Answers
<1>5. Accounted'
  <2>1. CASE Forbidden(s)
    <3>1. /\ entry' = Noted(entry, s, "policy") /\ asked' = asked
          /\ DOMAIN entry' = DOMAIN entry \cup {s} /\ entry'[s] = "policy"
          /\ \A t \in DOMAIN entry : t # s => entry'[t] = entry[t]
      BY <1>1, <2>1 DEF Noted
    <3>2. s \notin DOMAIN said
      BY <1>2, <2>1 DEF Accounted
    <3>3. todo' \cup asked' \cup DOMAIN entry' = Listed
      BY <1>1, <1>2, <3>1 DEF Accounted
    <3>4. \A t \in DOMAIN said : said[t] \in Answers(pivot) /\ entry'[t] = Entry(said[t])
      BY <1>2, <3>1, <3>2 DEF Accounted
    <3>5. \A t \in DOMAIN entry' : t \notin DOMAIN said => Forbidden(t) /\ entry'[t] = "policy"
      BY <1>2, <2>1, <3>1 DEF Accounted
    <3>6. DOMAIN said \subseteq DOMAIN entry' /\ \A t \in asked' \cup DOMAIN said : ~Forbidden(t)
      BY <1>2, <3>1 DEF Accounted
    <3> QED
      BY <1>1, <1>3, <1>4, <3>3, <3>4, <3>5, <3>6 DEF Accounted
  <2>2. CASE ~Forbidden(s)
    <3>1. entry' = entry /\ asked' = asked \cup {s}
      BY <1>1, <2>2
    <3>2. todo' \cup asked' \cup DOMAIN entry' = Listed
      BY <1>1, <1>2, <3>1 DEF Accounted
    <3>3. \A t \in asked' \cup DOMAIN said : ~Forbidden(t)
      BY <1>2, <2>2, <3>1 DEF Accounted
    <3> QED
      BY <1>1, <1>2, <1>3, <1>4, <3>1, <3>2, <3>3 DEF Accounted
  <2> QED
    BY <2>1, <2>2
<1> QED
  BY <1>1, <1>2, <1>3, <1>5 DEF PivotInv

LEMMA AnswerStep ==
  ASSUME PivotInv, NEW s, NEW a \in Answers(pivot), Answer(s, a)
  PROVE  PivotInv'
<1>1. /\ s \in asked /\ asked' = asked \ {s} /\ said' = Noted(said, s, a)
      /\ entry' = Noted(entry, s, Entry(a)) /\ pivot' = pivot /\ library' = library
      /\ todo' = todo /\ observed' = observed /\ finished' = finished
  BY DEF Answer
<1>2. library = "here" /\ Accounted /\ ~finished /\ ~Forbidden(s)
  BY <1>1 DEF PivotInv, Unavailable, Closed, Accounted
<1>3. PivotTyped' /\ Listed' = Listed /\ \A t : Forbidden(t)' <=> Forbidden(t)
  BY <1>1 DEF PivotInv, PivotTyped, Listed, Forbidden
<1>4. Answers(pivot)' = Answers(pivot) /\ \A b : Entry(b)' = Entry(b)
  BY <1>1 DEF Entry, Answers
<1>5. /\ DOMAIN entry' = DOMAIN entry \cup {s} /\ entry'[s] = Entry(a)
      /\ \A t \in DOMAIN entry : t # s => entry'[t] = entry[t]
      /\ DOMAIN said' = DOMAIN said \cup {s} /\ said'[s] = a
      /\ \A t \in DOMAIN said : t # s => said'[t] = said[t]
  BY <1>1 DEF Noted
<1>6. todo' \cup asked' \cup DOMAIN entry' = Listed
  BY <1>1, <1>2, <1>5 DEF Accounted
<1>7. DOMAIN said' \subseteq DOMAIN entry' /\ \A t \in asked' \cup DOMAIN said' : ~Forbidden(t)
  BY <1>1, <1>2, <1>5 DEF Accounted
<1>8. \A t \in DOMAIN said' : said'[t] \in Answers(pivot) /\ entry'[t] = Entry(said'[t])
  BY <1>2, <1>5 DEF Accounted
<1>9. \A t \in DOMAIN entry' : t \notin DOMAIN said' => Forbidden(t) /\ entry'[t] = "policy"
  BY <1>2, <1>5 DEF Accounted
<1>10. Accounted'
  BY <1>3, <1>4, <1>6, <1>7, <1>8, <1>9 DEF Accounted
<1> QED
  BY <1>1, <1>2, <1>3, <1>10 DEF PivotInv

LEMMA FinishStep ==
  ASSUME PivotInv, Finish
  PROVE  PivotInv'
<1>1. /\ todo = {} /\ asked = {} /\ finished' = TRUE
      /\ pivot = "signals" =>
           observed' = [s \in {t \in DOMAIN entry : entry[t] # "policy"} |-> entry[s] # "blocked"]
      /\ pivot' = pivot /\ library' = library /\ todo' = todo /\ asked' = asked /\ said' = said
      /\ entry' = entry
  BY DEF Finish
<1> QED
  BY <1>1 DEF PivotInv, PivotTyped, Accounted, Unavailable, Closed, Listed, Forbidden, Entry, Answers

LEMMA PivotStep ==
  ASSUME PivotInv, [PivotNext]_pivotVars
  PROVE  PivotInv'
<1>1. CASE UNCHANGED pivotVars
  BY <1>1 DEF pivotVars, PivotInv, PivotTyped, Accounted, Unavailable, Closed, Listed, Forbidden,
              Entry, Answers
<1> QED
  BY <1>1, AskStep, AnswerStep, FinishStep DEF PivotNext

LEMMA NoStandsForNoes == PivotInv => NoIsAnAnswer
<1> SUFFICES ASSUME PivotInv, finished PROVE NoIsAnAnswer
  BY DEF NoIsAnAnswer
<1>1. todo = {} /\ asked = {} /\ PivotTyped
  BY DEF PivotInv, Closed
<1>2. With("absent") \subseteq Negative
  <2> SUFFICES ASSUME NEW s \in DOMAIN entry, entry[s] = "absent" PROVE s \in Negative
    BY DEF With
  <2>1. CASE library = "here"
    <3>1. s \in DOMAIN said
      BY <2>1 DEF PivotInv, Accounted
    <3>2. said[s] \in Answers(pivot) /\ Entry(said[s]) = "absent"
      BY <2>1, <3>1 DEF PivotInv, Accounted
    <3> QED
      BY <1>1, <3>1, <3>2, EntryIs DEF Negative
  <2>2. CASE library # "here"
    BY <1>1, <2>2 DEF PivotInv, Unavailable, PivotTyped
  <2> QED
    BY <2>1, <2>2
<1>3. ASSUME pivot = "email", EmailSentence = "no exposure"
      PROVE  2 * Cardinality(Negative) >= Cardinality(DOMAIN said)
  <2>1. With("found") = {} /\ ~Undetermined
    BY <1>3 DEF EmailSentence
  <2>2. CASE library # "here"
    <3>1. DOMAIN said = {} /\ Negative = {}
      BY <2>2 DEF PivotInv, Unavailable, Negative
    <3> QED
      BY <3>1, FS_EmptySet
  <2>3. CASE library = "here"
    <3>1. DOMAIN said = DOMAIN entry /\ DOMAIN entry \subseteq Asks[pivot]
      BY <1>3, <2>3 DEF PivotInv, Accounted, Forbidden, Listed
    <3>2. IsFiniteSet(DOMAIN said) /\ IsFiniteSet(Negative) /\ IsFiniteSet(Decided)
      <4>1. IsFiniteSet(Asks[pivot])
        BY <1>1, PivotAssumption DEF PivotTyped
      <4>2. Negative \subseteq Asks[pivot] /\ Decided \subseteq Asks[pivot]
        BY <3>1 DEF Negative, Decided, With
      <4> QED
        BY <3>1, <4>1, <4>2, FS_Subset
    <3>3. Decided \subseteq Negative
      BY <1>2, <2>1 DEF Decided
    <3>4. /\ Cardinality(Decided) \in Nat /\ Cardinality(Negative) \in Nat
          /\ Cardinality(DOMAIN said) \in Nat /\ Cardinality(Decided) <= Cardinality(Negative)
      BY <3>2, <3>3, FS_CardinalityType, FS_Subset
    <3>5. CASE DOMAIN entry = {}
      BY <3>1, <3>4, <3>5, FS_EmptySet
    <3>6. CASE DOMAIN entry # {}
      <4>1. ~(2 * Cardinality(Decided) < Cardinality(DOMAIN said))
        BY <2>1, <3>1, <3>6 DEF Undetermined
      <4> QED
        BY <3>4, <4>1
    <3> QED
      BY <3>5, <3>6
  <2> QED
    BY <2>2, <2>3
<1>4. ASSUME pivot \in Modular, library = "here" PROVE DOMAIN entry = Asks[pivot] \ Refused
  BY <1>1, <1>4 DEF PivotInv, Accounted, Listed
<1>5. ASSUME pivot = "signals"
      PROVE  /\ DOMAIN observed = Asks[pivot] \ Refused
             /\ \A s \in DOMAIN observed : observed[s] <=> said[s] \in Denials \cup {"profile"}
  <2>1. library = "here" /\ DOMAIN entry = Asks[pivot]
    BY <1>1, <1>5 DEF PivotInv, PivotTyped, Accounted, Listed, Modular
  <2>2. \A s \in DOMAIN entry : entry[s] # "policy" <=> s \in DOMAIN said
    BY <1>1, <2>1, EntryIs DEF PivotInv, Accounted
  <2>3. \A s \in DOMAIN entry : s \in DOMAIN said <=> s \notin Refused
    BY <1>5, <2>1 DEF PivotInv, Accounted, Forbidden
  <2>4. observed = [s \in {t \in DOMAIN entry : entry[t] # "policy"} |-> entry[s] # "blocked"]
    BY <1>5 DEF PivotInv, Closed
  <2>5. DOMAIN observed = Asks[pivot] \ Refused
    BY <2>1, <2>2, <2>3, <2>4
  <2>6. ASSUME NEW s \in DOMAIN observed
        PROVE  observed[s] <=> said[s] \in Denials \cup {"profile"}
    <3>1. s \in DOMAIN said /\ s \in DOMAIN entry /\ (observed[s] <=> entry[s] # "blocked")
      BY <2>2, <2>4, <2>6
    <3>2. said[s] \in Answers(pivot) /\ entry[s] = Entry(said[s])
      BY <2>1, <3>1 DEF PivotInv, Accounted
    <3> QED
      BY <1>1, <1>5, <3>1, <3>2, EntryIs
  <2> QED
    BY <2>5, <2>6
<1> QED
  BY <1>2, <1>3, <1>4, <1>5 DEF NoIsAnAnswer

(* The pivots and what the case says of them: whatever the sources answer,  *)
(* in whatever order, with whatever of them refused, no "no" is made up.   *)
THEOREM NoIsNeverMadeUp == PivotSpec => []NoIsAnAnswer
BY PivotInitial, PivotStep, NoStandsForNoes, PTL DEF PivotSpec

-----------------------------------------------------------------------------
(* Verdict and tier of one account                                         *)

Status == {"confirmed", "unconfirmed", "likely_false_positive", "indeterminate", "not_examined"}

(* What the environment hands over: a page that was read, or none.          *)
NoPage == [reply : {"absent", "refused", "noHtml", "unfetched"}, marker : {"none"},
           inTitle : {FALSE}, wall : {FALSE}, removed : {FALSE}, notFound : {FALSE},
           notFoundTop : {FALSE}, like : {FALSE}, names : {FALSE}, meta : {FALSE},
           name : {"none"}, conflict : {FALSE}, probe : Probe]
PageTyped(p) == p \in Feature \cup NoPage

DecidedOnce ==
  /\ verdict.status \in Status
  /\ verdict = IF page.reply = "unfetched" THEN Verdict(page, "not_examined", "none")
               ELSE VerifyUsername(page)

JudgementInv ==
  /\ PageTyped(page)
  /\ judging \in {"page", "verdict", "row"}
  /\ judging # "page" => DecidedOnce
  /\ judging = "row" => evidence \in Row

LEMMA PagesAreTyped ==
  ASSUME NEW p \in Bare \cup Readable
  PROVE  PageTyped(p)
<1>1. CASE p \in Readable
  BY <1>1 DEF Readable, PageTyped
<1>2. CASE p \in Bare
  <2>1. \A r \in {"absent", "refused", "noHtml", "unfetched"}, c \in Probe :
          Absence(r, c) \in NoPage
    BY DEF Absence, Blank, NoPage
  <2> QED
    BY <1>2, <2>1 DEF Bare, PageTyped
<1> QED
  BY <1>1, <1>2

LEMMA VerdictIs ==
  ASSUME NEW p, NEW s, NEW m
  PROVE  /\ Verdict(p, s, m).status = s
         /\ Verdict(p, s, m).note <=> p.probe = "failed" /\ s \in {"confirmed", "unconfirmed"}
BY DEF Verdict

(* A status is one of five, and "not examined" is not among the verifier's. *)
LEMMA StatusIs ==
  ASSUME NEW p
  PROVE  VerifyUsername(p).status \in Status \ {"not_examined"}
BY VerdictIs DEF VerifyUsername, Unreadable, ForAll, Named, Status

LEMMA JudgementStep ==
  ASSUME JudgementInv, [JudgementNext]_judgementVars
  PROVE  JudgementInv'
<1>1. CASE UNCHANGED judgementVars
  BY <1>1 DEF judgementVars, JudgementInv, DecidedOnce
<1>2. CASE JudgePage
  <2>1. /\ verdict' = IF page.reply = "unfetched" THEN Verdict(page, "not_examined", "none")
                      ELSE VerifyUsername(page)
        /\ judging' = "verdict" /\ page' = page /\ evidence' = evidence
    BY <1>2 DEF JudgePage
  <2>2. verdict'.status \in Status
    BY <2>1, VerdictIs, StatusIs DEF Status
  <2> QED
    BY <2>1, <2>2 DEF JudgementInv, DecidedOnce
<1>3. ASSUME NEW e \in Row, Attach(e) PROVE JudgementInv'
  BY <1>3 DEF Attach, JudgementInv, DecidedOnce
<1> QED
  BY <1>1, <1>2, <1>3 DEF JudgementNext

(* What speaks against an account does not confirm it.                      *)
LEMMA StrikesDoNotConfirm ==
  ASSUME NEW p \in Feature, NEW q \in Against(p), VerifyUsername(q).status = "confirmed"
  PROVE  VerifyUsername(p).status = "confirmed"
<1>1. q.reply = "ok" /\ ~Challenged(q)
  BY VerdictIs DEF VerifyUsername, Unreadable
<1>2. /\ q.reply = p.reply /\ q.name = p.name /\ q.names = p.names /\ q.inTitle = p.inTitle
      /\ q.marker \in {p.marker, "strong"} /\ (p.wall => q.wall)
  BY DEF Against, Feature
<1>3. p.reply = "ok" /\ ~Challenged(p) /\ q.name = p.name /\ q.names = p.names
  BY <1>1, <1>2 DEF Challenged
<1>4. CASE p.name = "match"
  BY <1>3, <1>4, VerdictIs DEF VerifyUsername
<1>5. CASE p.name # "match"
  <2>1. /\ ~q.removed /\ ~q.notFound /\ ~SameForAll(q) /\ q.names
        /\ VerifyUsername(q) = Named(q, q.name)
    BY <1>1, <1>3, <1>5, VerdictIs DEF VerifyUsername, ForAll
  <2>2. ~q.conflict
    BY <2>1, VerdictIs DEF Named
  <2>3. ~p.removed /\ ~p.notFound /\ ~SameForAll(p) /\ ~p.conflict
    BY <2>1, <2>2 DEF Against, Feature, SameForAll
  <2> QED
    BY <1>3, <1>5, <2>1, <2>3, VerdictIs DEF VerifyUsername, Named
<1> QED
  BY <1>4, <1>5

(* A page with the subject's name, or a notice of removal, is not refuted.  *)
LEMMA BackingIsNotRefuted ==
  ASSUME NEW p \in Feature, NEW q \in Backed(p)
  PROVE  VerifyUsername(q).status # "likely_false_positive"
<1>1. q.reply = "ok" /\ (q.name = "match" \/ q.removed)
  BY DEF Backed, Feature
<1> QED
  BY <1>1, VerdictIs DEF VerifyUsername

(* Nothing is made of a page that was not read but its absence.             *)
LEMMA NothingOfNoPage ==
  ASSUME NEW p, PageTyped(p), p.reply # "ok", NEW q \in Against(p) \cup Backed(p)
  PROVE  /\ VerifyUsername(q).status # "confirmed"
         /\ VerifyUsername(q).status = "likely_false_positive" => p.reply = "absent"
<1>1. q.reply = p.reply
  BY DEF PageTyped, Feature, NoPage, Against, Backed
<1> QED
  BY <1>1, VerdictIs DEF VerifyUsername, Unreadable

LEMMA VerdictsFit == JudgementInv => VerdictFitsThePage
<1> SUFFICES ASSUME JudgementInv, judging = "verdict" PROVE VerdictFitsThePage
  BY DEF VerdictFitsThePage
<1>1. PageTyped(page) /\ DecidedOnce
  BY DEF JudgementInv
<1>2. page.reply = "ok" => page \in Feature /\ verdict = VerifyUsername(page)
  BY <1>1 DEF PageTyped, NoPage, DecidedOnce
<1>3. ASSUME NEW q \in Against(page), VerifyUsername(q).status = "confirmed"
      PROVE  verdict.status = "confirmed"
  BY <1>1, <1>2, <1>3, StrikesDoNotConfirm, NothingOfNoPage
<1>4. ASSUME NEW q \in Backed(page), VerifyUsername(q).status = "likely_false_positive"
      PROVE  page.reply = "absent"
  BY <1>1, <1>2, <1>4, BackingIsNotRefuted, NothingOfNoPage
<1>5. (page.reply = "ok" /\ Challenged(page)) \/ page.reply \notin {"ok", "absent"} =>
        verdict.status \in {"indeterminate", "not_examined"}
  BY <1>1, VerdictIs DEF DecidedOnce, VerifyUsername, Unreadable
<1>6. ASSUME verdict.status = "confirmed", SameForAll(page) PROVE page.name = "match"
  <2>1. verdict = VerifyUsername(page) /\ page.reply = "ok"
    BY <1>1, <1>6, VerdictIs DEF DecidedOnce, VerifyUsername, Unreadable
  <2> QED
    BY <1>6, <2>1, VerdictIs DEF VerifyUsername, ForAll
<1>7. page.probe = "failed" /\ verdict.status \in {"confirmed", "unconfirmed"} => verdict.note
  BY <1>1, VerdictIs DEF DecidedOnce, VerifyUsername, Unreadable, ForAll, Named
<1>8. ASSUME page.names, verdict.status = "likely_false_positive"
      PROVE  page.notFound \/ SameForAll(page)
  <2>1. page \in Feature
    BY <1>1, <1>8 DEF PageTyped, NoPage
  <2>2. verdict = VerifyUsername(page) /\ page.reply = "ok"
    BY <1>2, <2>1 DEF Feature
  <2> QED
    BY <1>8, <2>2, VerdictIs DEF VerifyUsername, Named
<1> QED
  BY <1>3, <1>4, <1>5, <1>6, <1>7, <1>8 DEF VerdictFitsThePage

LEMMA TiersAreEarned == JudgementInv => TierIsEarned
<1> SUFFICES ASSUME JudgementInv, judging = "row" PROVE TierIsEarned
  BY DEF TierIsEarned
<1>1. DecidedOnce /\ evidence \in Row /\ PageTyped(page)
  BY DEF JudgementInv
<1>2. ASSUME AccountTier(evidence) \in {"strong", "confirmed"} PROVE page.reply = "ok" /\ ~Challenged(page)
  <2>1. verdict.status \in {"confirmed", "unconfirmed"}
    BY <1>1, <1>2 DEF AccountTier, VerdictBucket, DecidedOnce, Status
  <2> QED
    BY <1>1, <2>1, VerdictIs DEF DecidedOnce, VerifyUsername, Unreadable
<1>3. ASSUME NEW e \in Row, e.engines >= evidence.engines, evidence.identity => e.identity,
             SourceRank[e.source] >= SourceRank[evidence.source]
      PROVE  /\ AccountConfidence(e) >= AccountConfidence(evidence)
             /\ TierRank[AccountTier(e)] >= TierRank[AccountTier(evidence)]
  <2>1. /\ e.engines \in 1..2 /\ evidence.engines \in 1..2
        /\ e.identity \in BOOLEAN /\ evidence.identity \in BOOLEAN
        /\ e.source \in {"name", "variant", "base"} /\ evidence.source \in {"name", "variant", "base"}
    BY <1>1 DEF Row
  <2>2. /\ SourcePenalty(e.source) \in Int /\ SourcePenalty(evidence.source) \in Int
        /\ SourcePenalty(e.source) >= SourcePenalty(evidence.source)
    BY <1>3, <2>1 DEF SourcePenalty, SourceRank
  <2>3. VerifyBonus(verdict.status) \in Int
    BY <1>1 DEF DecidedOnce, Status, VerifyBonus
  <2> DEFINE Points(x) == (IF x.engines >= 2 THEN 15 ELSE 0) + (IF x.identity THEN 15 ELSE 0)
  <2>4. Points(e) \in Int /\ Points(evidence) \in Int /\ Points(e) >= Points(evidence)
    BY <1>3, <2>1
  <2>5. /\ AccountConfidence(e) >= AccountConfidence(evidence)
        /\ AccountConfidence(e) \in Int /\ AccountConfidence(evidence) \in Int
    BY <2>2, <2>3, <2>4 DEF AccountConfidence
  <2>6. TierRank[AccountTier(e)] >= TierRank[AccountTier(evidence)]
    <3>1. VerdictBucket \in {"found", "flagged", "indeterminate", "not_examined", "lead"}
      BY <1>1 DEF DecidedOnce, Status, VerdictBucket
    <3>2. CASE VerdictBucket = "lead"
      BY <2>5, <3>2 DEF AccountTier, TierRank
    <3>3. CASE VerdictBucket # "lead"
      <4>1. AccountTier(e) = AccountTier(evidence)
            /\ AccountTier(e) \in {"confirmed", "refuted", "weak"}
        BY <3>1, <3>3 DEF AccountTier
      <4> QED
        BY <4>1 DEF TierRank
    <3> QED
      BY <3>2, <3>3
  <2> QED
    BY <2>5, <2>6
<1> QED
  BY <1>2, <1>3 DEF TierIsEarned

(* verify_username and confidence.py, for every combination of what the     *)
(* verifier reads off a page: what speaks against an account never confirms *)
(* it, what speaks for it never has it refuted, a recognised block is       *)
(* neither, a page for everyone is confirmed only by the subject's name, a  *)
(* page that names the handle is refuted only by its heading or the control, *)
(* and no tier is higher than the evidence makes it.                       *)
THEOREM JudgementsFit == JudgementSpec => []JudgementFits
<1>1. JudgementInit => JudgementInv
  BY PagesAreTyped DEF JudgementInit, JudgementInv
<1>2. JudgementInv => JudgementFits
  BY VerdictsFit, TiersAreEarned DEF JudgementFits
<1> QED
  BY <1>1, <1>2, JudgementStep, PTL DEF JudgementSpec

-----------------------------------------------------------------------------
(* Correlation: no bond without evidence                                   *)

Evident(i, j) ==
  /\ found[i].real /\ found[j].real /\ found[i].page # found[j].page
  /\ ImageEvidence(i, j) \/ WordEvidence(i, j)

CorrelationInv ==
  /\ DOMAIN found = 1..Rows
  /\ \A i \in 1..Rows : IsFiniteSet(found[i].bio)
  /\ candidates \subseteq 1..Rows
  /\ \A i \in candidates : found[i].real
  /\ \A i, j \in candidates : i # j => found[i].page # found[j].page
  /\ unseen \subseteq PairsOf(candidates)
  /\ correlating \in {"download", "link", "done"}
  /\ correlating = "download" => links = {}
  /\ correlating = "link" => unseen # {}
  /\ BondsNeedEvidence

LEMMA CandidatesAreFew ==
  ASSUME CorrelationInv
  PROVE  candidates \subseteq Nat /\ IsFiniteSet(candidates)
<1>1. candidates \subseteq 1..Rows /\ Rows \in Nat
  BY CorrelationAssumption DEF CorrelationInv
<1>2. IsFiniteSet(1..Rows)
  BY <1>1, FS_Interval
<1>3. IsFiniteSet(candidates)
  BY <1>1, <1>2, FS_Subset
<1> QED
  BY <1>1, <1>3

LEMMA NextIsUnseen ==
  ASSUME CorrelationInv, unseen # {}
  PROVE  NextPair \in unseen
<1>1. \A p \in unseen : p[1] \in Nat /\ p[2] \in Nat
  <2>1. candidates \subseteq Nat
    BY CandidatesAreFew
  <2>2. unseen \subseteq candidates \X candidates
    BY DEF CorrelationInv, PairsOf
  <2> QED
    BY <2>1, <2>2
<1> DEFINE firsts == {p[1] : p \in unseen}
<1>2. firsts \in SUBSET Nat /\ firsts # {}
  BY <1>1
<1>3. PICK a \in firsts : \A k \in firsts : a <= k
  BY <1>2, Least
<1> DEFINE seconds == {p[2] : p \in {q \in unseen : q[1] = a}}
<1>4. seconds \in SUBSET Nat /\ seconds # {}
  BY <1>1
<1>5. PICK b \in seconds : \A k \in seconds : b <= k
  BY <1>4, Least
<1>6. PICK p \in unseen : p[1] = a /\ p[2] = b
  BY <1>5
<1>7. \A q \in unseen : Before(p, q)
  <2> SUFFICES ASSUME NEW q \in unseen PROVE p[1] < q[1] \/ (p[1] = q[1] /\ p[2] <= q[2])
    BY DEF Before
  <2>1. a <= q[1] /\ q[1] \in Nat /\ a \in Nat
    BY <1>1, <1>2, <1>3
  <2>2. CASE q[1] = a
    BY <1>5, <1>6, <2>2
  <2>3. CASE q[1] # a
    BY <1>6, <2>1, <2>3
  <2> QED
    BY <2>2, <2>3
<1> QED
  BY <1>7 DEF NextPair

(* The sums that reach the bar: a picture, or a name and a bio.            *)
LEMMA BarTakes ==
  ASSUME NEW i, NEW j, ScorePair(i, j) >= CORRELATION_LINK_MIN
  PROVE  \/ AvatarMatch(i, j) /\ (SameSite(i, j) => ~NamesConflict(found[i].name, found[j].name))
         \/ ~SameSite(i, j) /\ SimilarNames(found[i].name, found[j].name) /\ BiosOverlap(i, j)
<1>1. /\ AvatarPoints(i, j) \in {0, 30, 50} /\ NamePoints(i, j) \in {0, 25, 30}
      /\ BioPoints(i, j) \in {0, 20}
  BY DEF AvatarPoints, NamePoints, BioPoints, AVATAR_WEIGHT, NAME_WEIGHT, SimilarWeight, BIO_WEIGHT,
         NAME_CONFLICT_PENALTY
<1>2. AvatarPoints(i, j) # 0 \/ (NamePoints(i, j) # 0 /\ BioPoints(i, j) # 0)
  BY <1>1 DEF ScorePair, CORRELATION_LINK_MIN
<1>3. AvatarPoints(i, j) # 0 =>
        AvatarMatch(i, j) /\ (SameSite(i, j) => ~NamesConflict(found[i].name, found[j].name))
  BY DEF AvatarPoints, AVATAR_WEIGHT, NAME_CONFLICT_PENALTY
<1>4. NamePoints(i, j) # 0 => ~SameSite(i, j) /\ SimilarNames(found[i].name, found[j].name)
  BY DEF NamePoints
<1>5. BioPoints(i, j) # 0 => BiosOverlap(i, j)
  BY DEF BioPoints
<1> QED
  BY <1>2, <1>3, <1>4, <1>5

LEMMA ImagesTell ==
  ASSUME CorrelationInv, NEW i \in candidates, NEW j \in candidates, AvatarMatch(i, j),
         SameSite(i, j) => ~NamesConflict(found[i].name, found[j].name)
  PROVE  ImageEvidence(i, j) /\ ImageEvidence(j, i)
<1> DEFINE p == hash[i]
           q == hash[j]
<1>1. /\ p # "none" /\ q # "none" /\ (p = q \/ {p, q} = {"face", "crop"})
      /\ p \notin PlaceholderHashes /\ q \notin PlaceholderHashes
  BY DEF AvatarMatch, Alike8, Alike16
<1>2. p \in {hash[k] : k \in candidates} \ {"none"} /\ q \in {hash[k] : k \in candidates} \ {"none"}
  BY <1>1
<1>3. p # "logo" /\ q # "logo" /\ ~(Cardinality(Shows(p)) >= 3) /\ ~(Cardinality(Shows(q)) >= 3)
  BY <1>1, <1>2 DEF PlaceholderHashes
<1>4. \A m, n \in Shows(p) : SameSite(m, n) => found[m].handle = found[n].handle
  BY <1>1, <1>2 DEF PlaceholderHashes
<1>5. \A h : Cardinality(Shows(h)) \in Nat
  <2>1. IsFiniteSet(candidates)
    BY CandidatesAreFew
  <2>2. \A h : IsFiniteSet(Shows(h))
    BY <2>1, FS_Subset DEF Shows
  <2> QED
    BY <2>2, FS_CardinalityType
<1>6. Cardinality(Shows(p)) <= 2 /\ Cardinality(Shows(q)) <= 2
  BY <1>3, <1>5
<1>7. {p, q} # {"face", "twin"} /\ {p, q} # {"crop", "twin"}
  BY <1>1
<1>8. SameSite(i, j) /\ p = q => found[i].handle = found[j].handle
  BY <1>4 DEF Shows
<1>9. /\ NamesConflict(found[i].name, found[j].name) <=> NamesConflict(found[j].name, found[i].name)
      /\ SameSite(i, j) <=> SameSite(j, i)
  BY DEF NamesConflict, SameSite
<1>10. {p, q} = {q, p}
  OBVIOUS
<1> QED
  BY <1>1, <1>3, <1>6, <1>7, <1>8, <1>9, <1>10 DEF ImageEvidence

(* Words that are left of two bios are a phrase of neither site.           *)
LEMMA WordsTell ==
  ASSUME CorrelationInv, NEW i \in candidates, NEW j \in candidates, ~SameSite(i, j),
         SimilarNames(found[i].name, found[j].name), BiosOverlap(i, j)
  PROVE  WordEvidence(i, j) /\ WordEvidence(j, i)
<1> DEFINE x == BioTokens(i)
           y == BioTokens(j)
<1>1. x # {} /\ y # {} /\ 10 * Cardinality(x \cap y) >= 3 * Cardinality(x \cup y)
  BY DEF BiosOverlap
<1>2. IsFiniteSet(x) /\ IsFiniteSet(y)
  BY FS_Subset DEF CorrelationInv, BioTokens
<1>3. x \subseteq found[i].bio /\ y \subseteq found[j].bio
  BY DEF BioTokens
<1> HIDE DEF x, y
<1>4. PICK t \in x : t \in y
  <2> SUFFICES ASSUME x \cap y = {} PROVE FALSE
    OBVIOUS
  <2>1. Cardinality(x \cap y) = 0
    BY FS_EmptySet
  <2>2. IsFiniteSet(x \cup y) /\ x \cup y # {}
    BY <1>1, <1>2, FS_Union
  <2>3. Cardinality(x \cup y) \in Nat /\ Cardinality(x \cup y) # 0
    BY <2>2, FS_CardinalityType, FS_EmptySet
  <2> QED
    BY <1>1, <2>1, <2>3
<1>5. ASSUME NEW m \in candidates, t \in BioTokens(m) PROVE ~Phrase(t, m)
  <2> DEFINE bios == {k \in candidates : SameSite(k, m) /\ found[k].bio # {}}
             with == {k \in bios : t \in found[k].bio}
  <2>1. t \in found[m].bio /\ t \notin Template(found[m].site) /\ m \in bios
    BY <1>5 DEF BioTokens, SameSite
  <2>2. bios = {k \in candidates : found[k].site = found[m].site /\ found[k].bio # {}}
    BY DEF SameSite
  <2>3. IsFiniteSet(bios)
    <3>1. IsFiniteSet(candidates)
      BY CandidatesAreFew
    <3> QED
      BY <3>1, FS_Subset
  <2>4. with \subseteq bios
    OBVIOUS
  <2>5. /\ Cardinality(with) \in Nat /\ Cardinality(bios) \in Nat
        /\ Cardinality(with) <= Cardinality(bios)
    BY <2>3, <2>4, FS_Subset, FS_CardinalityType
  <2>6. Template(found[m].site) =
          IF Cardinality(bios) < 3 THEN {}
          ELSE {u \in UNION {found[k].bio : k \in bios} :
                  /\ Cardinality({k \in bios : u \in found[k].bio}) >= 3
                  /\ 5 * Cardinality({k \in bios : u \in found[k].bio}) >= 3 * Cardinality(bios)}
    BY <2>2 DEF Template
  <2>7. t \in UNION {found[k].bio : k \in bios}
    BY <2>1
  <2>8. ~(Cardinality(with) >= 3 /\ 5 * Cardinality(with) >= 3 * Cardinality(bios))
    <3>1. CASE Cardinality(bios) < 3
      BY <2>5, <3>1
    <3>2. CASE ~(Cardinality(bios) < 3)
      BY <2>1, <2>6, <2>7, <3>2
    <3> QED
      BY <3>1, <3>2
  <2> QED
    BY <2>8 DEF Phrase
<1>6. ~Phrase(t, i) /\ ~Phrase(t, j)
  BY <1>4, <1>5 DEF x, y
<1>7. SimilarNames(found[j].name, found[i].name) /\ found[i].site # found[j].site
  BY DEF SimilarNames, SameSite
<1> QED
  BY <1>3, <1>4, <1>6, <1>7 DEF WordEvidence

LEMMA DownloadStep ==
  ASSUME CorrelationInv, NEW arrived, DownloadAvatars(arrived)
  PROVE  CorrelationInv'
<1>1. /\ correlating = "download" /\ candidates' = Unique /\ unseen' = PairsOf(Unique)
      /\ correlating' = IF unseen' = {} THEN "done" ELSE "link"
      /\ found' = found /\ links' = {}
  BY DEF DownloadAvatars, CorrelationInv
<1>2. Unique \subseteq 1..Rows /\ \A i \in Unique : found[i].real
  BY DEF Unique, Participates, CorrelationInv
<1>3. ASSUME NEW i \in Unique, NEW j \in Unique, i # j PROVE found[i].page # found[j].page
  <2>1. i \in Nat /\ j \in Nat
    BY <1>2
  <2>2. i < j \/ j < i
    BY <1>3, <2>1
  <2> QED
    BY <2>2 DEF Unique
<1> QED
  BY <1>1, <1>2, <1>3 DEF CorrelationInv, BondsNeedEvidence, PairsOf

(* Evidence is of the rows and their pictures, which no comparison touches. *)
LEMMA EvidenceStands ==
  ASSUME UNCHANGED <<found, candidates, hash>>
  PROVE  \A m, n : Evident(m, n) = Evident(m, n)'
<1>1. found' = found /\ candidates' = candidates /\ hash' = hash
  OBVIOUS
<1> SUFFICES ASSUME NEW m, NEW n PROVE Evident(m, n) = Evident(m, n)'
  OBVIOUS
<1>2. ImageEvidence(m, n) = ImageEvidence(m, n)'
  BY <1>1 DEF ImageEvidence, Shows, SameSite
<1>3. \A t : Phrase(t, m) = Phrase(t, m)'
  BY <1>1 DEF Phrase, SameSite
<1>4. \A t : Phrase(t, n) = Phrase(t, n)'
  BY <1>1 DEF Phrase, SameSite
<1>5. WordEvidence(m, n) = WordEvidence(m, n)'
  BY <1>1, <1>3, <1>4 DEF WordEvidence
<1> QED
  BY <1>1, <1>2, <1>5 DEF Evident

LEMMA CompareStep ==
  ASSUME CorrelationInv, Compare
  PROVE  CorrelationInv'
<1> DEFINE i == NextPair[1]
           j == NextPair[2]
<1>1. /\ correlating = "link" /\ unseen' = unseen \ {NextPair}
      /\ IF ScorePair(i, j) >= CORRELATION_LINK_MIN THEN links' = links \cup {{i, j}} ELSE links' = links
      /\ correlating' = IF unseen' = {} THEN "done" ELSE "link"
      /\ found' = found /\ candidates' = candidates /\ hash' = hash
  BY DEF Compare
<1>2. NextPair \in unseen
  BY <1>1, NextIsUnseen DEF CorrelationInv
<1>3. i \in candidates /\ j \in candidates /\ i # j
  <2>1. NextPair \in candidates \X candidates /\ NextPair[1] < NextPair[2]
    BY <1>2 DEF CorrelationInv, PairsOf
  <2>2. i \in candidates /\ j \in candidates /\ i < j
    BY <2>1
  <2> QED
    BY <2>2, CandidatesAreFew
<1> HIDE DEF i, j
<1>4. ScorePair(i, j) >= CORRELATION_LINK_MIN => Evident(i, j) /\ Evident(j, i)
  <2> SUFFICES ASSUME ScorePair(i, j) >= CORRELATION_LINK_MIN PROVE Evident(i, j) /\ Evident(j, i)
    OBVIOUS
  <2>1. /\ found[i].real /\ found[j].real /\ found[i].page # found[j].page
    BY <1>3 DEF CorrelationInv
  <2>2. \/ ImageEvidence(i, j) /\ ImageEvidence(j, i)
        \/ WordEvidence(i, j) /\ WordEvidence(j, i)
    BY <1>3, BarTakes, ImagesTell, WordsTell
  <2> QED
    BY <2>1, <2>2 DEF Evident
<1>5. \A l \in links' : \A m, n \in l : m # n => Evident(m, n)
  <2>1. \A l \in links : \A m, n \in l : m # n => Evident(m, n)
    BY DEF CorrelationInv, BondsNeedEvidence, Evident
  <2> QED
    BY <1>1, <1>4, <2>1
<1>6. BondsNeedEvidence'
  BY <1>1, <1>5, EvidenceStands DEF BondsNeedEvidence, Evident
<1> QED
  BY <1>1, <1>6 DEF CorrelationInv, PairsOf

LEMMA CorrelationStep ==
  ASSUME CorrelationInv, [CorrelationNext]_correlationVars
  PROVE  CorrelationInv'
<1>1. CASE UNCHANGED correlationVars
  <2>1. UNCHANGED <<found, candidates, hash, unseen, links, correlating>>
    BY <1>1 DEF correlationVars
  <2>2. BondsNeedEvidence'
    BY <2>1, EvidenceStands DEF CorrelationInv, BondsNeedEvidence, Evident
  <2> QED
    BY <2>1, <2>2 DEF CorrelationInv, PairsOf
<1> QED
  BY <1>1, DownloadStep, CompareStep DEF CorrelationNext

LEMMA CorrelationInitial == CorrelationInit => CorrelationInv
<1> SUFFICES ASSUME CorrelationInit PROVE CorrelationInv
  OBVIOUS
<1>1. PICK f \in {g \in [1..Rows -> DOMAIN Pool] : \A k \in 2..Rows : g[k - 1] < g[k]} :
        found = [k \in 1..Rows |-> Pool[f[k]]]
  BY DEF CorrelationInit
<1>2. DOMAIN found = 1..Rows /\ \A k \in 1..Rows : f[k] \in DOMAIN Pool /\ found[k] = Pool[f[k]]
  BY <1>1
<1>3. \A k \in 1..Rows : IsFiniteSet(found[k].bio)
  BY <1>2, CorrelationAssumption
<1> QED
  BY <1>2, <1>3 DEF CorrelationInit, CorrelationInv, BondsNeedEvidence

(* correlate(): whatever rows a run hands over and whichever avatars        *)
(* arrive, two accounts are bonded only on an image of a person or on a     *)
(* name together with words of their own.                                  *)
THEOREM BondsRestOnEvidence == CorrelationSpec => []BondsNeedEvidence
<1>1. CorrelationInv => BondsNeedEvidence
  BY DEF CorrelationInv
<1> QED
  BY <1>1, CorrelationInitial, CorrelationStep, PTL DEF CorrelationSpec

-----------------------------------------------------------------------------
(* Correlation: the clusters are the components of the bonds               *)

(* The values a function from S to itself takes on its way from x.         *)
Course(g, S, f, x, n) ==
  /\ g \in [0..n -> S]
  /\ g[0] = x /\ \A k \in 1..n : g[k] = f[g[k - 1]]
  /\ Iterated(f, x, n) = g[n]

LEMMA Iterates ==
  ASSUME NEW S, NEW f \in [S -> S], NEW x \in S, NEW n \in Nat
  PROVE  \E g : Course(g, S, f, x, n)
<1> DEFINE Is(g, m) == g = [k \in 0..m |-> IF k = 0 THEN x ELSE f[g[k - 1]]]
           bad == {m \in Nat : ~\E g : Is(g, m)}
<1>1. bad = {}
  <2> SUFFICES ASSUME bad # {} PROVE FALSE
    OBVIOUS
  <2>1. PICK m \in bad : \A k \in bad : m <= k
    BY Least
  <2>2. m \in Nat
    OBVIOUS
  <2>3. CASE m = 0
    <3> DEFINE h == [k \in 0..0 |-> x]
    <3>1. Is(h, 0)
      OBVIOUS
    <3> QED
      BY <2>1, <2>3, <3>1
  <2>4. CASE m # 0
    <3>1. m - 1 \in Nat /\ ~(m <= m - 1)
      BY <2>2, <2>4
    <3>2. PICK g : Is(g, m - 1)
      BY <2>1, <3>1
    <3> DEFINE h == [k \in 0..m |-> IF k = m THEN f[g[m - 1]] ELSE g[k]]
    <3>3. \A k \in 0..m : h[k] = IF k = 0 THEN x ELSE f[h[k - 1]]
      <4> SUFFICES ASSUME NEW k \in 0..m PROVE h[k] = IF k = 0 THEN x ELSE f[h[k - 1]]
        OBVIOUS
      <4>1. CASE k = 0
        BY <2>2, <2>4, <3>1, <3>2, <4>1
      <4>2. CASE k # 0 /\ k = m
        BY <2>2, <3>1, <4>2
      <4>3. CASE k # 0 /\ k # m
        <5>1. k \in 0..(m - 1) /\ k - 1 \in 0..m /\ k - 1 # m
          BY <2>2, <4>3
        <5>2. h[k] = g[k] /\ h[k - 1] = g[k - 1]
          BY <4>3, <5>1
        <5>3. g[k] = f[g[k - 1]]
          BY <3>2, <4>3, <5>1
        <5> QED
          BY <4>3, <5>2, <5>3
      <4> QED
        BY <4>1, <4>2, <4>3
    <3>4. Is(h, m)
      BY <3>3
    <3> QED
      BY <2>1, <3>4
  <2> QED
    BY <2>3, <2>4
<1> DEFINE g == CHOOSE h : Is(h, n)
<1>2. Is(g, n)
  BY <1>1
<1>3. Iterated(f, x, n) = g[n]
  BY DEF Iterated
<1> HIDE DEF g
<1>4. DOMAIN g = 0..n /\ g = [k \in 0..n |-> g[k]]
  BY <1>2
<1>5. g[0] = x /\ \A k \in 1..n : g[k] = f[g[k - 1]] /\ k - 1 \in 0..n
  BY <1>2
<1> DEFINE out == {k \in 0..n : g[k] \notin S}
<1>6. out = {}
  <2> SUFFICES ASSUME out # {} PROVE FALSE
    OBVIOUS
  <2>1. out \in SUBSET Nat
    OBVIOUS
  <2>2. PICK m \in out : \A k \in out : m <= k
    BY <2>1, Least
  <2>3. m \in 0..n /\ m # 0
    BY <1>5, <2>2
  <2>4. m \in 1..n /\ m - 1 \in 0..n /\ ~(m <= m - 1)
    BY <2>3
  <2>5. g[m - 1] \in S
    BY <2>2, <2>4
  <2> QED
    BY <1>5, <2>2, <2>4, <2>5
<1>7. g \in [0..n -> S]
  BY <1>4, <1>6
<1> QED
  BY <1>3, <1>5, <1>7 DEF Course

(* A union-find forest over C: rho names the root of each tree, and d is    *)
(* how deep a node may lie, less than its tree has nodes.                  *)
Forest(C, p, rho, d) ==
  /\ \A k \in C : rho[p[k]] = rho[k] /\ p[rho[k]] = rho[k]
  /\ \A k \in C : p[k] = k => rho[k] = k
  /\ \A k \in C : p[k] # k => d[p[k]] < d[k]
  /\ \A k \in C : d[k] < Cardinality({m \in C : rho[m] = rho[k]})

AtMost(C, n) == n \in Nat /\ IsFiniteSet(C) /\ Cardinality(C) <= n

(* As many steps up as there are nodes lead to the root.                   *)
LEMMA StepsReachTheRoot ==
  ASSUME NEW C, NEW n, AtMost(C, n),
         NEW p \in [C -> C], NEW rho \in [C -> C], NEW d \in [C -> Nat], Forest(C, p, rho, d),
         NEW i \in C
  PROVE  Iterated(p, i, n) = rho[i]
<1> USE DEF AtMost
<1> PICK g : Course(g, C, p, i, n)
  BY Iterates
<1>1. /\ g \in [0..n -> C] /\ g[0] = i /\ \A k \in 1..n : g[k] = p[g[k - 1]]
      /\ Iterated(p, i, n) = g[n]
  BY DEF Course
<1> DEFINE ok(k) == rho[g[k]] = rho[i] /\ (p[g[k]] = g[k] \/ d[g[k]] + k <= d[i])
           bad == {k \in 0..n : ~ok(k)}
<1>2. bad = {}
  <2> SUFFICES ASSUME bad # {} PROVE FALSE
    OBVIOUS
  <2>1. bad \in SUBSET Nat
    OBVIOUS
  <2>2. PICK k \in bad : \A m \in bad : k <= m
    BY <2>1, Least
  <2>3. ~ok(k) /\ k \in 0..n
    BY <2>2
  <2>4. k # 0
    BY <1>1, <2>3
  <2>5. k \in 1..n /\ k - 1 \in 0..n /\ ~(k <= k - 1)
    BY <2>3, <2>4
  <2>6. ok(k - 1)
    BY <2>2, <2>5
  <2> DEFINE a == g[k - 1]
             b == g[k]
  <2>7. a \in C /\ b \in C /\ b = p[a]
    BY <1>1, <2>3, <2>5
  <2>8. rho[b] = rho[i]
    BY <2>6, <2>7 DEF Forest
  <2>9. CASE p[a] = a
    BY <2>3, <2>6, <2>7, <2>8, <2>9
  <2>10. CASE p[a] # a
    <3>1. d[a] + (k - 1) <= d[i]
      BY <2>6, <2>10
    <3>2. d[b] < d[a]
      BY <2>7, <2>10 DEF Forest
    <3>3. d[a] \in Nat /\ d[b] \in Nat /\ d[i] \in Nat /\ k \in Nat
      BY <2>3, <2>7
    <3> HIDE DEF a, b
    <3>4. d[b] + k <= d[i]
      BY <3>1, <3>2, <3>3
    <3> QED
      BY <2>3, <2>8, <3>4 DEF b
  <2> QED
    BY <2>9, <2>10
<1>3. ok(n)
  <2>1. n \in 0..n
    OBVIOUS
  <2> QED
    BY <1>2, <2>1
<1> DEFINE z == g[n]
<1>4. z \in C /\ p[z] \in C
  BY <1>1
<1>5. p[z] = z
  <2>1. d[i] < n
    <3>1. IsFiniteSet({m \in C : rho[m] = rho[i]})
          /\ Cardinality({m \in C : rho[m] = rho[i]}) <= Cardinality(C)
      BY FS_Subset
    <3>2. d[i] < Cardinality({m \in C : rho[m] = rho[i]})
      BY DEF Forest
    <3>3. Cardinality({m \in C : rho[m] = rho[i]}) \in Nat /\ Cardinality(C) \in Nat /\ d[i] \in Nat
      BY <3>1, FS_CardinalityType
    <3> QED
      BY <3>1, <3>2, <3>3
  <2>2. d[z] \in Nat /\ d[i] \in Nat
    BY <1>4
  <2>3. ~(d[z] + n <= d[i])
    BY <2>1, <2>2
  <2> QED
    BY <1>3, <2>3
<1> QED
  BY <1>1, <1>3, <1>4, <1>5 DEF Forest

(* The forest q has the trees of rho, with those of i and j made one.      *)
Merged(C, q, rho, i, j) ==
  \E rho2 \in [C -> C], d2 \in [C -> Nat] :
    /\ Forest(C, q, rho2, d2)
    /\ \A a, b \in C : rho2[a] = rho2[b] <=>
         rho[a] = rho[b] \/ {rho[a], rho[b]} \subseteq {rho[i], rho[j]}

(* Hanging one root under another makes one tree of two.                   *)
LEMMA UnionMakesOneTree ==
  ASSUME NEW C, IsFiniteSet(C), NEW p \in [C -> C], NEW rho \in [C -> C], NEW d \in [C -> Nat],
         Forest(C, p, rho, d), NEW i \in C, NEW j \in C
  PROVE  Merged(C, [p EXCEPT ![rho[i]] = rho[j]], rho, i, j)
<1> DEFINE r == rho[i]
           s == rho[j]
           q == [p EXCEPT ![r] = s]
<1>1. r \in C /\ s \in C /\ p[r] = r /\ p[s] = s /\ rho[r] = r /\ rho[s] = s
  BY DEF Forest
<1>2. CASE r = s
  <2>1. q = p
    BY <1>1, <1>2
  <2> QED
    BY ZenonT(30), <1>2, <2>1 DEF Merged
<1>3. CASE r # s
  <2> DEFINE rho2 == [k \in C |-> IF rho[k] = r THEN s ELSE rho[k]]
             d2 == [k \in C |-> IF rho[k] = r THEN d[k] + d[s] + 1 ELSE d[k]]
             tree(x) == {m \in C : rho[m] = x}
             tree2(x) == {m \in C : rho2[m] = x}
  <2>1. rho2 \in [C -> C] /\ d2 \in [C -> Nat]
    BY <1>1
  <2>2. q \in [C -> C] /\ q[r] = s /\ \A k \in C : k # r => q[k] = p[k]
    BY <1>1
  <2>3. \A k \in C : rho2[k] = IF rho[k] = r THEN s ELSE rho[k]
    OBVIOUS
  <2>4. \A k \in C : d2[k] = IF rho[k] = r THEN d[k] + d[s] + 1 ELSE d[k]
    OBVIOUS
  <2>5. \A k \in C : d[k] \in Nat /\ p[k] \in C /\ rho[k] \in C
    OBVIOUS
  <2> HIDE DEF r, s, q, rho2, d2
  <2>6. \A k \in C : rho2[q[k]] = rho2[k] /\ q[rho2[k]] = rho2[k]
    BY <1>1, <1>3, <2>2, <2>3, <2>5 DEF Forest
  <2>7. \A k \in C : q[k] = k => rho2[k] = k
    BY <1>1, <1>3, <2>2, <2>3, <2>5 DEF Forest
  <2>8. ASSUME NEW k \in C, q[k] # k PROVE d2[q[k]] < d2[k]
    <3>1. CASE k = r
      <4>1. d2[q[k]] = d[s] /\ d2[k] = d[r] + d[s] + 1 /\ d[r] \in Nat /\ d[s] \in Nat
        BY <1>1, <1>3, <2>2, <2>4, <2>5, <3>1
      <4> QED
        BY <4>1
    <3>2. CASE k # r
      <4>1. q[k] = p[k] /\ rho[p[k]] = rho[k] /\ d[p[k]] < d[k] /\ p[k] \in C
        BY <2>2, <2>5, <2>8, <3>2 DEF Forest
      <4>2. d[p[k]] \in Nat /\ d[k] \in Nat /\ d[s] \in Nat
        BY <1>1, <2>5, <4>1
      <4>3. d2[p[k]] = IF rho[k] = r THEN d[p[k]] + d[s] + 1 ELSE d[p[k]]
        BY <2>4, <4>1
      <4>4. d2[k] = IF rho[k] = r THEN d[k] + d[s] + 1 ELSE d[k]
        BY <2>4
      <4>5. CASE rho[k] = r
        BY <4>1, <4>2, <4>3, <4>4, <4>5
      <4>6. CASE rho[k] # r
        BY <4>1, <4>2, <4>3, <4>4, <4>6
      <4> QED
        BY <4>5, <4>6
    <3> QED
      BY <3>1, <3>2
  <2>9. /\ IsFiniteSet(tree(r)) /\ IsFiniteSet(tree(s))
        /\ Cardinality(tree(r)) \in Nat /\ Cardinality(tree(s)) \in Nat
    <3>1. IsFiniteSet(tree(r)) /\ IsFiniteSet(tree(s))
      BY FS_Subset
    <3> QED
      BY <3>1, FS_CardinalityType
  <2>10. Cardinality(tree2(s)) = Cardinality(tree(r)) + Cardinality(tree(s))
    <3>1. tree2(s) = tree(r) \cup tree(s)
      BY <2>3
    <3>2. tree(r) \cap tree(s) = {}
      BY <1>3
    <3> HIDE DEF tree, tree2
    <3>3. Cardinality(tree(r) \cup tree(s))
            = Cardinality(tree(r)) + Cardinality(tree(s)) - Cardinality(tree(r) \cap tree(s))
      BY <2>9, FS_Union
    <3>4. Cardinality(tree(r) \cap tree(s)) = 0
      BY <3>2, FS_EmptySet
    <3> DEFINE u == Cardinality(tree(r))
               v == Cardinality(tree(s))
    <3>5. Cardinality(tree2(s)) = u + v - 0 /\ u \in Nat /\ v \in Nat
      BY <2>9, <3>1, <3>3, <3>4
    <3> HIDE DEF u, v
    <3>6. Cardinality(tree2(s)) = u + v
      BY <3>5
    <3> QED
      BY <3>6 DEF u, v
  <2>11. ASSUME NEW k \in C PROVE d2[k] < Cardinality(tree2(rho2[k]))
    <3>1. d[k] < Cardinality(tree(rho[k])) /\ d[s] < Cardinality(tree(s))
      BY <1>1 DEF Forest
    <3>2. d[k] \in Nat /\ d[s] \in Nat
      BY <1>1, <2>5
    <3>3. CASE rho[k] = r
      <4>1. d2[k] = d[k] + d[s] + 1 /\ rho2[k] = s /\ d[k] < Cardinality(tree(r))
        BY <2>3, <2>4, <3>1, <3>3
      <4> HIDE DEF tree, tree2
      <4> QED
        BY <2>9, <2>10, <3>1, <3>2, <4>1
    <3>4. CASE rho[k] = s
      <4>1. d2[k] = d[k] /\ rho2[k] = s /\ d[k] < Cardinality(tree(s))
        BY <1>3, <2>3, <2>4, <3>1, <3>4
      <4> HIDE DEF tree, tree2
      <4> QED
        BY <2>9, <2>10, <3>1, <3>2, <4>1
    <3>5. CASE rho[k] # r /\ rho[k] # s
      <4>1. d2[k] = d[k] /\ rho2[k] = rho[k]
        BY <2>3, <2>4, <3>5
      <4>2. tree2(rho[k]) = tree(rho[k])
        BY <2>3, <3>5
      <4> QED
        BY <3>1, <4>1, <4>2
    <3> QED
      BY <3>3, <3>4, <3>5
  <2>12. Forest(C, q, rho2, d2)
    BY <2>6, <2>7, <2>8, <2>11 DEF Forest
  <2>13. \A a, b \in C : rho2[a] = rho2[b] <=> rho[a] = rho[b] \/ {rho[a], rho[b]} \subseteq {r, s}
    BY <2>3
  <2> QED
    BY <2>1, <2>12, <2>13 DEF Merged, r, s, q
<1> QED
  BY <1>2, <1>3


(* The trees of rho are what the bonds ls join: both ends of a bond are in  *)
(* one tree, and who is closed under the bonds is closed under the trees.  *)
ClosedUnder(C, ls, s) == \A m \in s, k \in C : {m, k} \in ls => k \in s
Joins(C, ls, rho) ==
  /\ \A l \in ls : \E a, b \in C : a # b /\ l = {a, b} /\ rho[a] = rho[b]
  /\ \A s \in SUBSET C : ClosedUnder(C, ls, s) => \A a \in s, b \in C : rho[a] = rho[b] => b \in s

LEMMA NothingJoined ==
  ASSUME NEW C, IsFiniteSet(C)
  PROVE  \E rho \in [C -> C], d \in [C -> Nat] : Forest(C, [k \in C |-> k], rho, d) /\ Joins(C, {}, rho)
<1> DEFINE rho == [k \in C |-> k]
           d == [k \in C |-> 0]
<1>1. rho \in [C -> C] /\ d \in [C -> Nat]
  OBVIOUS
<1>2. \A k \in C : rho[k] = k /\ d[k] = 0
  OBVIOUS
<1>3. ASSUME NEW k \in C, NEW t, t = {m \in C : m = k} PROVE 0 < Cardinality(t)
  <2>1. t = {k}
    BY <1>3
  <2>2. Cardinality({k}) = 1
    BY FS_Singleton
  <2> QED
    BY <2>1, <2>2
<1> HIDE DEF rho, d
<1>4. ASSUME NEW k \in C PROVE d[k] < Cardinality({m \in C : rho[m] = rho[k]})
  <2>1. {m \in C : rho[m] = rho[k]} = {m \in C : m = k}
    BY <1>2
  <2>2. 0 < Cardinality({m \in C : rho[m] = rho[k]})
    BY <1>3, <2>1
  <2> QED
    BY <1>2, <2>2
<1>5. Forest(C, [k \in C |-> k], rho, d)
  BY <1>2, <1>4 DEF Forest
<1>6. Joins(C, {}, rho)
  BY <1>2 DEF Joins
<1> QED
  BY <1>1, <1>5, <1>6

LEMMA OneBondMore ==
  ASSUME NEW C, NEW ls, NEW rho \in [C -> C], NEW rho2 \in [C -> C], Joins(C, ls, rho),
         NEW i \in C, NEW j \in C, i # j,
         \A a, b \in C : rho2[a] = rho2[b] <=>
           rho[a] = rho[b] \/ {rho[a], rho[b]} \subseteq {rho[i], rho[j]}
  PROVE  Joins(C, ls \cup {{i, j}}, rho2)
<1>1. \A l \in ls : \E a, b \in C : a # b /\ l = {a, b} /\ rho2[a] = rho2[b]
  BY DEF Joins
<1>2. rho2[i] = rho2[j]
  OBVIOUS
<1>3. ASSUME NEW s \in SUBSET C, ClosedUnder(C, ls \cup {{i, j}}, s), NEW a \in s, NEW b \in C,
             rho2[a] = rho2[b]
      PROVE  b \in s
  <2>1. ClosedUnder(C, ls, s)
    BY <1>3 DEF ClosedUnder
  <2>2. \A x \in s, y \in C : rho[x] = rho[y] => y \in s
    BY <2>1 DEF Joins
  <2>3. i \in s <=> j \in s
    <3>1. {i, j} = {j, i}
      OBVIOUS
    <3> QED
      BY <1>3, <3>1 DEF ClosedUnder
  <2>4. CASE rho[a] = rho[b]
    BY <2>2, <2>4
  <2>5. CASE {rho[a], rho[b]} \subseteq {rho[i], rho[j]}
    <3>1. rho[a] = rho[i] \/ rho[a] = rho[j]
      BY <2>5
    <3>2. i \in s /\ j \in s
      BY <2>2, <2>3, <3>1
    <3>3. rho[b] = rho[i] \/ rho[b] = rho[j]
      BY <2>5
    <3> QED
      BY <2>2, <3>2, <3>3
  <2> QED
    BY <1>3, <2>4, <2>5
<1> QED
  BY <1>1, <1>2, <1>3 DEF Joins

(* Going out from i bond by bond, as often as there are candidates, reaches *)
(* the least set with i that is closed under the bonds.                    *)
Span(C, ls, i, r) ==
  /\ i \in r /\ r \in SUBSET C /\ ClosedUnder(C, ls, r)
  /\ \A s \in SUBSET C : i \in s /\ ClosedUnder(C, ls, s) => r \subseteq s

LEMMA SpreadIsClosed ==
  ASSUME NEW C, IsFiniteSet(C), NEW ls, NEW i \in C, NEW n \in Nat, Cardinality(C) <= n,
         NEW f, f = [s \in SUBSET C |-> s \cup {k \in C : \E m \in s : {m, k} \in ls}]
  PROVE  Span(C, ls, i, Iterated(f, {i}, n))
<1>1. f \in [SUBSET C -> SUBSET C] /\ {i} \in SUBSET C
  OBVIOUS
<1>2. \A s \in SUBSET C : f[s] = s \cup {k \in C : \E m \in s : {m, k} \in ls}
  OBVIOUS
<1> PICK g : Course(g, SUBSET C, f, {i}, n)
  BY <1>1, Iterates
<1>3. /\ g \in [0..n -> SUBSET C] /\ g[0] = {i} /\ \A k \in 1..n : g[k] = f[g[k - 1]]
      /\ Iterated(f, {i}, n) = g[n]
  BY DEF Course
<1>4. \A k \in 0..n : IsFiniteSet(g[k]) /\ Cardinality(g[k]) \in Nat /\ Cardinality(g[k]) <= Cardinality(C)
  <2> SUFFICES ASSUME NEW k \in 0..n
               PROVE  IsFiniteSet(g[k]) /\ Cardinality(g[k]) \in Nat /\ Cardinality(g[k]) <= Cardinality(C)
    OBVIOUS
  <2>1. g[k] \in SUBSET C
    BY <1>3
  <2>2. IsFiniteSet(g[k]) /\ Cardinality(g[k]) <= Cardinality(C)
    BY <2>1, FS_Subset
  <2> QED
    BY <2>2, FS_CardinalityType
<1> DEFINE within(s) == \A t \in SUBSET C : i \in t /\ ClosedUnder(C, ls, t) => s \subseteq t
           ok(k) == /\ i \in g[k] /\ within(g[k])
                    /\ ClosedUnder(C, ls, g[k]) \/ k < Cardinality(g[k])
           bad == {k \in 0..n : ~ok(k)}
<1>5. bad = {}
  <2> SUFFICES ASSUME bad # {} PROVE FALSE
    OBVIOUS
  <2>1. bad \in SUBSET Nat
    OBVIOUS
  <2>2. PICK k \in bad : \A m \in bad : k <= m
    BY <2>1, Least
  <2>3. ~ok(k) /\ k \in 0..n
    BY <2>2
  <2>4. CASE k = 0
    <3>1. Cardinality(g[k]) = 1
      BY <1>3, <2>4, FS_Singleton
    <3>2. i \in g[k] /\ within(g[k])
      BY <1>3, <2>4
    <3> QED
      BY <2>3, <2>4, <3>1, <3>2
  <2>5. CASE k # 0
    <3>1. k \in 1..n /\ k - 1 \in 0..n /\ ~(k <= k - 1)
      BY <2>3, <2>5
    <3>2. ok(k - 1)
      BY <2>2, <3>1
    <3> DEFINE a == g[k - 1]
               b == g[k]
    <3>3. a \in SUBSET C /\ b \in SUBSET C /\ b = a \cup {x \in C : \E m \in a : {m, x} \in ls}
      BY <1>2, <1>3, <2>3, <3>1
    <3>4. i \in a /\ within(a) /\ (ClosedUnder(C, ls, a) \/ k - 1 < Cardinality(a))
      BY <3>2
    <3>5. /\ Cardinality(a) \in Nat /\ Cardinality(b) \in Nat /\ IsFiniteSet(a) /\ IsFiniteSet(b)
      BY <1>4, <2>3, <3>1
    <3> HIDE DEF a, b
    <3>6. within(b)
      BY <3>3, <3>4 DEF ClosedUnder
    <3>7. CASE ClosedUnder(C, ls, a)
      <4>1. b = a
        BY <3>3, <3>7 DEF ClosedUnder
      <4> QED
        BY <2>3, <3>4, <3>6, <3>7, <4>1 DEF b
    <3>8. CASE ~ClosedUnder(C, ls, a)
      <4>1. PICK m \in a, x \in C : {m, x} \in ls /\ x \notin a
        BY <3>8 DEF ClosedUnder
      <4>2. x \in b /\ a \subseteq b /\ a # b
        BY <3>3, <4>1
      <4>3. Cardinality(a) <= Cardinality(b) /\ Cardinality(a) # Cardinality(b)
        BY <3>5, <4>2, FS_Subset
      <4>4. k - 1 < Cardinality(a) /\ k \in Nat
        BY <2>3, <3>4, <3>8
      <4>5. k < Cardinality(b)
        BY <3>5, <4>3, <4>4
      <4>6. i \in b
        BY <3>3, <3>4
      <4> QED
        BY <2>3, <3>6, <4>5, <4>6 DEF b
    <3> QED
      BY <3>7, <3>8
  <2> QED
    BY <2>4, <2>5
<1>6. ok(n)
  <2>1. n \in 0..n
    OBVIOUS
  <2> QED
    BY <1>5, <2>1
<1>7. ClosedUnder(C, ls, g[n])
  <2>1. Cardinality(g[n]) \in Nat /\ Cardinality(g[n]) <= Cardinality(C) /\ Cardinality(C) \in Nat
    BY <1>4, FS_CardinalityType
  <2>2. ~(n < Cardinality(g[n]))
    BY <2>1
  <2> QED
    BY <1>6, <2>2
<1>8. g[n] \in SUBSET C
  BY <1>3
<1> QED
  BY <1>3, <1>6, <1>7, <1>8 DEF Span


ClusterInv ==
  /\ CorrelationInv
  /\ Len(found) = Rows /\ \A k \in 1..Rows : \E n \in DOMAIN Pool : found[k] = Pool[n]
  /\ correlating # "download" =>
       /\ parent \in [candidates -> candidates]
       /\ \E rho \in [candidates -> candidates], d \in [candidates -> Nat] :
            Forest(candidates, parent, rho, d) /\ Joins(candidates, links, rho)

(* There are at most as many candidates as find() may take steps.          *)
LEMMA StepsAreEnough ==
  ASSUME ClusterInv
  PROVE  /\ IsFiniteSet(candidates) /\ Rows \in Nat /\ Len(found) = Rows
         /\ Cardinality(candidates) <= Rows
<1>1. candidates \subseteq 1..Rows /\ Rows \in Nat /\ Len(found) = Rows
  BY CorrelationAssumption DEF ClusterInv, CorrelationInv
<1>2. IsFiniteSet(1..Rows) /\ Cardinality(1..Rows) = Rows
  BY <1>1, FS_Interval
<1>3. IsFiniteSet(candidates) /\ Cardinality(candidates) <= Cardinality(1..Rows)
  BY <1>1, <1>2, FS_Subset
<1> QED
  BY <1>1, <1>2, <1>3

LEMMA RootsAre ==
  ASSUME ClusterInv, parent \in [candidates -> candidates],
         NEW rho \in [candidates -> candidates], NEW d \in [candidates -> Nat],
         Forest(candidates, parent, rho, d), NEW i \in candidates
  PROVE  Root(i) = rho[i]
<1>1. IsFiniteSet(candidates) /\ Rows \in Nat /\ Len(found) = Rows /\ Cardinality(candidates) <= Rows
  BY StepsAreEnough
<1>2. AtMost(candidates, Rows)
  BY <1>1 DEF AtMost
<1>3. Iterated(parent, i, Rows) = rho[i]
  BY <1>2, StepsReachTheRoot
<1> QED
  BY <1>1, <1>3 DEF Root

LEMMA DownloadBuilds ==
  ASSUME ClusterInv, NEW arrived, DownloadAvatars(arrived)
  PROVE  ClusterInv'
<1>1. /\ candidates' = Unique /\ parent' = [i \in Unique |-> i] /\ links' = {} /\ found' = found
  BY DEF DownloadAvatars, ClusterInv, CorrelationInv
<1>2. CorrelationInv'
  BY DownloadStep DEF ClusterInv
<1>3. IsFiniteSet(Unique)
  <2>1. Unique \subseteq 1..Rows /\ Rows \in Nat
    BY CorrelationAssumption DEF Unique, Participates, ClusterInv, CorrelationInv
  <2>2. IsFiniteSet(1..Rows)
    BY <2>1, FS_Interval
  <2> QED
    BY <2>1, <2>2, FS_Subset
<1>4. \E rho \in [Unique -> Unique], d \in [Unique -> Nat] :
        Forest(Unique, [i \in Unique |-> i], rho, d) /\ Joins(Unique, {}, rho)
  BY <1>3, NothingJoined
<1> QED
  BY <1>1, <1>2, <1>4 DEF ClusterInv

LEMMA CompareBuilds ==
  ASSUME ClusterInv, Compare
  PROVE  ClusterInv'
<1> DEFINE i == NextPair[1]
           j == NextPair[2]
<1>1. /\ correlating = "link" /\ found' = found /\ candidates' = candidates
      /\ \/ links' = links \cup {{i, j}} /\ parent' = [parent EXCEPT ![Root(i)] = Root(j)]
         \/ links' = links /\ parent' = parent
  BY DEF Compare, Union
<1>2. CorrelationInv'
  BY CompareStep DEF ClusterInv
<1>3. i \in candidates /\ j \in candidates /\ i # j
  <2>1. NextPair \in unseen
    BY <1>1, NextIsUnseen DEF ClusterInv, CorrelationInv
  <2>2. NextPair \in candidates \X candidates /\ NextPair[1] < NextPair[2]
    BY <2>1 DEF ClusterInv, CorrelationInv, PairsOf
  <2>3. candidates \subseteq Nat
    BY CandidatesAreFew DEF ClusterInv
  <2>4. i \in candidates /\ j \in candidates /\ i < j
    BY <2>2
  <2>5. i \in Nat /\ j \in Nat
    BY <2>3, <2>4
  <2> QED
    BY <2>4, <2>5
<1> HIDE DEF i, j
<1>4. parent \in [candidates -> candidates]
  BY <1>1 DEF ClusterInv
<1>5. PICK rho \in [candidates -> candidates], d \in [candidates -> Nat] :
        Forest(candidates, parent, rho, d) /\ Joins(candidates, links, rho)
  BY <1>1 DEF ClusterInv
<1>6. CASE links' = links /\ parent' = parent
  BY <1>1, <1>2, <1>4, <1>5, <1>6 DEF ClusterInv
<1>7. CASE links' = links \cup {{i, j}} /\ parent' = [parent EXCEPT ![Root(i)] = Root(j)]
  <2>1. Root(i) = rho[i] /\ Root(j) = rho[j]
    BY <1>3, <1>4, <1>5, RootsAre
  <2>2. IsFiniteSet(candidates)
    BY StepsAreEnough
  <2> DEFINE p == [parent EXCEPT ![rho[i]] = rho[j]]
  <2>8. Merged(candidates, p, rho, i, j)
    BY <1>3, <1>4, <1>5, <2>2, UnionMakesOneTree
  <2>3. PICK rho2 \in [candidates -> candidates], d2 \in [candidates -> Nat] :
          /\ Forest(candidates, p, rho2, d2)
          /\ \A a, b \in candidates : rho2[a] = rho2[b] <=>
               rho[a] = rho[b] \/ {rho[a], rho[b]} \subseteq {rho[i], rho[j]}
    BY <2>8 DEF Merged
  <2>4. p \in [candidates -> candidates]
    BY <1>3, <1>4
  <2>5. parent' = p
    BY <1>7, <2>1
  <2> HIDE DEF p
  <2>6. Joins(candidates, links \cup {{i, j}}, rho2)
    BY <1>3, <1>5, <2>3, OneBondMore
  <2>7. /\ parent' \in [candidates' -> candidates']
        /\ rho2 \in [candidates' -> candidates'] /\ d2 \in [candidates' -> Nat]
    BY <1>1, <2>4, <2>5
  <2>9. Forest(candidates', parent', rho2, d2)
    BY <1>1, <2>3, <2>5
  <2>10. Joins(candidates', links', rho2)
    BY <1>1, <1>7, <2>6
  <2> QED
    BY <1>1, <1>2, <2>7, <2>9, <2>10 DEF ClusterInv
<1> QED
  BY <1>1, <1>6, <1>7

LEMMA ClusterStep ==
  ASSUME ClusterInv, [CorrelationNext]_correlationVars
  PROVE  ClusterInv'
<1>1. CASE UNCHANGED correlationVars
  <2>1. CorrelationInv'
    BY CorrelationStep DEF ClusterInv
  <2> QED
    BY <1>1, <2>1 DEF correlationVars, ClusterInv
<1> QED
  BY <1>1, DownloadBuilds, CompareBuilds DEF CorrelationNext

LEMMA ClusterInitial == CorrelationInit => ClusterInv
<1> SUFFICES ASSUME CorrelationInit PROVE ClusterInv
  OBVIOUS
<1>1. CorrelationInv
  BY CorrelationInitial
<1>2. PICK f \in {g \in [1..Rows -> DOMAIN Pool] : \A k \in 2..Rows : g[k - 1] < g[k]} :
        found = [k \in 1..Rows |-> Pool[f[k]]]
  BY DEF CorrelationInit
<1>3. \A k \in 1..Rows : f[k] \in DOMAIN Pool /\ found[k] = Pool[f[k]]
  BY <1>2
<1>4. Len(found) = Rows
  <2> DEFINE S == {Pool[n] : n \in DOMAIN Pool}
  <2>1. found \in [1..Rows -> S] /\ Rows \in Nat
    BY <1>2, <1>3, CorrelationAssumption
  <2>2. found \in Seq(S)
    BY <2>1
  <2>3. DOMAIN found = 1..Len(found) /\ Len(found) \in Nat
    BY <2>2
  <2> HIDE DEF S
  <2>4. 1..Rows = 1..Len(found)
    BY <2>1, <2>3
  <2> QED
    BY <2>1, <2>3, <2>4
<1> QED
  BY <1>1, <1>3, <1>4 DEF ClusterInv, CorrelationInit

(* Two candidates are in one tree exactly if bonds lead from one to the other. *)
LEMMA TreesAreComponents ==
  ASSUME ClusterInv, correlating # "download", NEW i \in candidates, NEW j \in candidates
  PROVE  Root(i) = Root(j) <=> Connected(i, j)
<1>1. PICK rho \in [candidates -> candidates], d \in [candidates -> Nat] :
        Forest(candidates, parent, rho, d) /\ Joins(candidates, links, rho)
  BY DEF ClusterInv
<1>2. Root(i) = rho[i] /\ Root(j) = rho[j]
  BY <1>1, RootsAre DEF ClusterInv
<1>3. /\ IsFiniteSet(candidates) /\ Rows \in Nat /\ Len(found) = Rows
      /\ Cardinality(candidates) <= Rows
  BY StepsAreEnough
<1> DEFINE r == Iterated(Spread, {i}, Rows)
<1>4. /\ i \in r /\ r \in SUBSET candidates /\ ClosedUnder(candidates, links, r)
      /\ \A s \in SUBSET candidates : i \in s /\ ClosedUnder(candidates, links, s) => r \subseteq s
  <2>1. Spread = [s \in SUBSET candidates |->
                    s \cup {k \in candidates : \E m \in s : {m, k} \in links}]
    BY DEF Spread
  <2>2. Span(candidates, links, i, r)
    BY <1>3, <2>1, SpreadIsClosed
  <2> QED
    BY <2>2 DEF Span
<1>5. Connected(i, j) <=> j \in r
  BY <1>3 DEF Connected
<1> HIDE DEF r
<1>6. ASSUME rho[i] = rho[j] PROVE j \in r
  BY <1>1, <1>4, <1>6 DEF Joins
<1>7. ASSUME j \in r PROVE rho[i] = rho[j]
  <2> DEFINE s == {k \in candidates : rho[k] = rho[i]}
  <2>1. ASSUME NEW m \in s, NEW k \in candidates, {m, k} \in links PROVE k \in s
    <3>1. PICK a \in candidates, b \in candidates : a # b /\ {m, k} = {a, b} /\ rho[a] = rho[b]
      BY <1>1, <2>1 DEF Joins
    <3> QED
      BY <2>1, <3>1
  <2>2. s \in SUBSET candidates /\ i \in s /\ ClosedUnder(candidates, links, s)
    BY <2>1 DEF ClosedUnder
  <2>3. j \in s
    BY <1>4, <1>7, <2>2
  <2> QED
    BY <2>3
<1> QED
  BY <1>2, <1>5, <1>6, <1>7

LEMMA LabelsTell ==
  ASSUME ClusterInv, NEW i \in candidates, NEW j \in candidates, found[i].label = found[j].label
  PROVE  i = j
<1>1. i \in 1..Rows /\ j \in 1..Rows
  BY DEF ClusterInv, CorrelationInv
<1>2. PICK m \in DOMAIN Pool : found[i] = Pool[m]
  BY <1>1 DEF ClusterInv
<1>3. PICK n \in DOMAIN Pool : found[j] = Pool[n]
  BY <1>1 DEF ClusterInv
<1>4. found[i].page = found[j].page
  BY <1>2, <1>3, CorrelationAssumption
<1> QED
  BY <1>4 DEF ClusterInv, CorrelationInv

(* A bond is shown in the cluster of its two accounts and in no other.     *)
LEMMA LinksAreShownOnce ==
  ASSUME ClusterInv, correlating # "download", NEW l \in links
  PROVE  \E g \in Groups : l \subseteq g /\ {h \in Groups : l \in MemberLinks(h)} = {g}
<1>1. PICK rho \in [candidates -> candidates], d \in [candidates -> Nat] :
        Forest(candidates, parent, rho, d) /\ Joins(candidates, links, rho)
  BY DEF ClusterInv
<1>2. \A k \in candidates : Root(k) = rho[k]
  BY <1>1, RootsAre DEF ClusterInv
<1>3. PICK a \in candidates, b \in candidates : a # b /\ l = {a, b} /\ rho[a] = rho[b]
  BY <1>1 DEF Joins
<1> DEFINE g == {k \in candidates : Root(k) = Root(a)}
<1>4. a \in g /\ b \in g /\ l \subseteq g
  BY <1>2, <1>3
<1>5. Cardinality(g) >= 2
  <2>1. IsFiniteSet(candidates)
    BY StepsAreEnough
  <2>2. IsFiniteSet(g)
    BY <2>1, FS_Subset
  <2>3. Cardinality(g) \in Nat
    BY <2>2, FS_CardinalityType
  <2>4. Cardinality(g) # 0
    BY <1>4, <2>2, FS_EmptySet
  <2>5. Cardinality(g) # 1
    <3> SUFFICES ASSUME Cardinality(g) = 1 PROVE FALSE
      OBVIOUS
    <3>1. \E x : g = {x}
      BY <2>2, FS_Singleton
    <3> QED
      BY <1>3, <1>4, <3>1
  <2> HIDE DEF g
  <2> QED
    BY <2>3, <2>4, <2>5
<1>6. g \in Groups
  BY <1>5 DEF Groups
<1>7. l \in MemberLinks(g)
  BY <1>4 DEF MemberLinks
<1>8. ASSUME NEW h \in Groups, l \in MemberLinks(h) PROVE h = g
  <2>1. PICK x \in candidates : h = {k \in candidates : Root(k) = Root(x)}
    BY <1>8 DEF Groups
  <2>2. \E k \in h : found[a].label = found[k].label
    BY <1>3, <1>8 DEF MemberLinks
  <2>3. a \in h
    BY <2>1, <2>2, LabelsTell
  <2> QED
    BY <2>1, <2>3
<1> HIDE DEF g
<1>9. {h \in Groups : l \in MemberLinks(h)} = {g}
  BY <1>6, <1>7, <1>8
<1> QED
  BY <1>4, <1>6, <1>9

(* correlate(): however many rows a run hands over and whichever avatars    *)
(* arrive, the union-find's trees are the connected components of the       *)
(* bonds, and each bond is shown with the cluster of its two accounts.     *)
THEOREM ClustersAreWhole == CorrelationSpec => []ClustersAreComponents
<1>1. ClusterInv => ClustersAreComponents
  BY TreesAreComponents, LinksAreShownOnce DEF ClustersAreComponents
<1> QED
  BY <1>1, ClusterInitial, ClusterStep, PTL DEF CorrelationSpec
=============================================================================
