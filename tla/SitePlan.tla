------------------------------ MODULE SitePlan ------------------------------
(***************************************************************************)
(* Which sites a run may scan (recon/plan.py): every engine's sets go      *)
(* through the access policy (recon/policy.py) and then through the open   *)
(* circuits (RunRouter.filter_sites), and what is left out is reported     *)
(* once.  A site carries the URLs the engine fetches or shows, profile     *)
(* first.                                                                  *)
(***************************************************************************)
EXTENDS Naturals, Sequences, SequencesExt, FiniteSets

CONSTANTS Catalogue,    \* engine -> its sites, in database order
          Hosts,
          Wanted,       \* HIGH_VALUE_SITES, each with its aliases after it
          TopRank       \* DEFAULT_MAIGRET_LIMIT

(* Sherlock's and Maigret's databases are keyed by name; WhatsMyName's is a *)
(* list in which a name may come twice, and spelt alike either time.        *)
ASSUME PlanAssumption ==
  /\ DOMAIN Catalogue = {"sherlock", "maigret", "whatsmyname"}
  /\ \A e \in DOMAIN Catalogue : Catalogue[e] \in Seq(ToSet(Catalogue[e]))
  /\ \A w \in Wanted : w \in Seq(ToSet(w))
  /\ \A e \in {"sherlock", "maigret"} : \A i, j \in DOMAIN Catalogue[e] :
       Catalogue[e][i].name = Catalogue[e][j].name => i = j
  /\ \A s, t \in ToSet(Catalogue["whatsmyname"]) : s.name = t.name => s.norm = t.norm

VARIABLES denied,       \* DENIED_HOSTS
          circuits,     \* engine -> sites whose circuit is open, which other
                        \* runs change while this one plans
          moved,        \* whether they did (bound: once)
          plan,         \* call -> the set it left
          skipped,      \* skipped_policy
          degraded,     \* RunRouter.degraded
          planning      \* the filter calls still to come

planVars == <<denied, circuits, moved, plan, skipped, degraded, planning>>

Engines == {"sherlock", "maigret", "whatsmyname"}
Call(e, set) == [engine |-> e, set |-> set]
Calls == <<Call("sherlock", "full"), Call("sherlock", "reduced"), Call("maigret", "full"),
           Call("maigret", "reduced"), Call("whatsmyname", "full"), Call("whatsmyname", "reduced")>>
Circuits(e) == {{}} \cup {{s.name} : s \in ToSet(Catalogue[e])}

PlanInit ==
  /\ denied \in SUBSET Hosts
  /\ circuits \in [Engines -> UNION {Circuits(e) : e \in Engines}]
  /\ \A e \in Engines : circuits[e] \in Circuits(e)
  /\ moved = FALSE
  /\ plan = [c \in ToSet(Calls) |-> {}]
  /\ skipped = {} /\ degraded = {}
  /\ planning = Calls

----------------------------------------------------------------------------
\* fault: only the URL that is shown is checked
DeniedSiteProfile(s) == s.urls[1] \in denied

(* policy.filter_site_mapping: one denied URL among those of a site denies  *)
(* the site, in whatever position.                                         *)
DeniedSite(s) == \E i \in DOMAIN s.urls : s.urls[i] \in denied

(* _match_names: for each wanted site the first of its names the mapping    *)
(* has; of two spellings of one name the later one in the database.        *)
Picked(sites, mapping) ==
  LET has(n) == {i \in DOMAIN sites : sites[i].norm = n /\ sites[i] \in mapping}
      last(n) == sites[CHOOSE i \in has(n) : \A j \in has(n) : j <= i]
      hits(w) == {i \in DOMAIN w : has(w[i]) # {}}
  IN  {last(w[CHOOSE i \in hits(w) : \A j \in hits(w) : i <= j]) : w \in {v \in Wanted : hits(v) # {}}}

(* What the pipeline hands over: Maigret's first sites by rank, the whole   *)
(* list of the others, WhatsMyName's keyed by name, the later one staying;  *)
(* the curated sets raw, but Sherlock's from what is left of the full one.  *)
FullSet(e) == {Catalogue[e][i] : i \in {j \in DOMAIN Catalogue[e] : e = "maigret" => j <= TopRank}}
Keyed(sites) ==
  LET all == Catalogue["whatsmyname"]
      at(s) == CHOOSE i \in DOMAIN all : all[i] = s
  IN  {s \in sites : ~\E t \in sites : t.name = s.name /\ at(t) > at(s)}
Curated(e) ==
  CASE e = "maigret" -> Picked(Catalogue[e], ToSet(Catalogue[e]))
    [] e = "whatsmyname" -> {s \in FullSet(e) : \E w \in Wanted : s.norm = w[1]}
    [] e = "sherlock" -> Picked(Catalogue[e], plan[Call("sherlock", "full")])
Asked(c) ==
  LET sites == IF c.set = "full" THEN FullSet(c.engine) ELSE Curated(c.engine)
  IN  IF c.engine = "whatsmyname" THEN Keyed(sites) ELSE sites

Permitted(sites) == {s \in sites : ~DeniedSite(s)}
AsRows(e, sites) == {[site |-> s.name, engine |-> e] : s \in sites}
(* filter_sites: by the circuits as they are at this call. *)
Benched(e, sites) == {s \in sites : s.name \in circuits[e]}

(* One turn of plan_site_sets.  sherlock_variant_site_data filters by       *)
(* policy alone.                                                           *)
Filter ==
  LET c == planning[1]
      kept == Permitted(Asked(c))
      off == IF c = Call("sherlock", "reduced") THEN {} ELSE Benched(c.engine, kept)
  IN  /\ planning # <<>>
      /\ plan' = [plan EXCEPT ![c] = kept \ off]
      /\ skipped' = skipped \cup AsRows(c.engine, Asked(c) \ kept)
      /\ degraded' = degraded \cup AsRows(c.engine, off)
      /\ planning' = Tail(planning)
      /\ UNCHANGED <<denied, circuits, moved>>

(* Another run, or the monitor's thread, stores what it observed. *)
CircuitsMove(e, sites) ==
  /\ ~moved /\ planning # <<>> /\ sites \in Circuits(e)
  /\ circuits' = [circuits EXCEPT ![e] = sites]
  /\ moved' = TRUE
  /\ UNCHANGED <<denied, plan, skipped, degraded, planning>>

PlanNext ==
  \/ Filter
  \/ \E e \in Engines : \E sites \in Circuits(e) : CircuitsMove(e, sites)

PlanSpec == PlanInit /\ [][PlanNext]_planVars

----------------------------------------------------------------------------
(* No set of a plan holds a site one of whose URLs is on a denied host; a   *)
(* site that is asked for and left out is reported, as denied if it is and  *)
(* as degraded only if it is not, however the circuits move meanwhile; and  *)
(* a curated set of Sherlock asks for nothing its full set left out.        *)
PlanIsHonest ==
  planning = <<>> =>
    /\ \A c \in ToSet(Calls) :
         LET denies(s) == \E u \in ToSet(s.urls) : u \in denied
             row(s) == [site |-> s.name, engine |-> c.engine]
         IN  /\ \A s \in plan[c] : ~denies(s)
             /\ \A s \in Asked(c) \ plan[c] :
                  IF denies(s) THEN row(s) \in skipped ELSE row(s) \in degraded
    /\ plan[Call("sherlock", "reduced")] \subseteq plan[Call("sherlock", "full")]
    /\ skipped \cap degraded = {}
=============================================================================
