----------------------------- MODULE MCParts ------------------------------
(***************************************************************************)
(* The parts of the program that share nothing with one another: the run   *)
(* router, the services beside the scans, and the rules a run applies to    *)
(* what it found.  A behaviour is one of one part, chosen at the start, so  *)
(* TLC explores the sum of their state spaces and not the product.         *)
(***************************************************************************)
EXTENDS RunRouter, StealthBrowser, WmnScan, SourceCache, AvatarProxy, QuickScan,
        Migration, Correlation, Judgement, SitePlan, Pivots

CONSTANTS w1, w2, h1, h2, s1, s2          \* the router's workers, handles and sites

TwoNames == <<"u", "v">>

(* The router: a base pass over two handles, next to a candidate pass over  *)
(* one of them on the reduced site set.                                    *)
MixedPlan == [w \in {w1, w2} |-> IF w = w1 THEN <<h1, h2>> ELSE <<h1>>]
MixedSites == [w \in {w1, w2} |-> IF w = w1 THEN {s1, s2} ELSE {s2}]

(* Accounts: four handles of one site with pictures and bios in common, one *)
(* profile under two site labels, a lookalike, a logo, a page not read.     *)
Account(address, label, site, login, real, picture, name, bio) ==
  [page |-> address, label |-> label, site |-> site, host |-> site, handle |-> login,
   real |-> real, image |-> picture, src |-> <<address, picture>>, name |-> name, bio |-> bio]
People == <<
  Account("a1", "a1", "A", "h1", TRUE, "face", "ann", {"p"}),
  Account("a2", "a2", "A", "h2", TRUE, "face", "ann", {"t"}),
  Account("a3", "a3", "A", "h3", TRUE, "crop", "hann", {"t", "p"}),
  Account("a4", "a4", "A", "h4", TRUE, "none", "anne", {"t", "q"}),
  Account("b1", "b1", "B", "h1", TRUE, "face", "bob", {"p"}),
  Account("b1", "b2", "B2", "h1", TRUE, "face", "bob", {"p"}),
  Account("c1", "c1", "C", "h1", TRUE, "twin", "ann", {"p", "q"}),
  Account("c2", "c2", "C", "h2", TRUE, "logo", "", {"q"}),
  Account("d9", "d9", "D", "h9", TRUE, "crop", "", {}),
  Account("e1", "e1", "E", "h1", FALSE, "face", "ann", {"p"})>>

(* Sites with one URL and with two, two spellings of one name, an alias, a  *)
(* site that is listed twice.                                              *)
Listed(name, norm, urls) == [name |-> name, norm |-> norm, urls |-> urls]
Listing == [
  sherlock |-> <<Listed("Git", "git", <<"g">>), Listed("News", "news", <<"n", "api">>),
                 Listed("Steam (user)", "steamuser", <<"s">>),
                 Listed("Steam", "steam", <<"s", "n">>)>>,
  maigret |-> <<Listed("Git", "git", <<"g">>), Listed("git!", "git", <<"g", "api">>),
                Listed("News", "news", <<"api", "n">>)>>,
  whatsmyname |-> <<Listed("Steam", "steam", <<"api">>), Listed("News", "news", <<"n">>),
                    Listed("Steam", "steam", <<"s">>)>>]
HighValueSites == {<<"git">>, <<"steam", "steamuser">>, <<"news">>}

Sourced == [p \in {"email", "phone", "brokers", "domain", "signals"} |-> {"p1", "p2", "p3", "p4"}]

VARIABLE part

services == <<cacheVars, avatarVars, browserVars, quickVars, migrationVars, wmnVars>>
rules == <<correlationVars, judgementVars, planVars, pivotVars>>
partVars == <<part, services, vars, rules>>

Part == {"cache", "avatar", "browser", "quick", "migration", "wmn", "router",
         "correlation", "judgement", "plan", "pivot"}

(* A part that is not looked at stands still in one state.                 *)
CorrelationStart ==
  IF part = "correlation" THEN CorrelationInit
  ELSE /\ found = <<>> /\ candidates = {} /\ hash = <<>> /\ parent = <<>> /\ unseen = {}
       /\ links = {} /\ correlating = "done"
JudgementStart ==
  IF part = "judgement" THEN JudgementInit
  ELSE /\ page = Blank /\ verdict = [status |-> "none"] /\ judging = "page"
       /\ evidence = [engines |-> 1, identity |-> FALSE, source |-> "base"]
PlanStart ==
  IF part = "plan" THEN PlanInit
  ELSE /\ denied = {} /\ circuits = [e \in Engines |-> {}] /\ moved = FALSE
       /\ plan = [c \in {} |-> {}] /\ skipped = {} /\ degraded = {} /\ planning = Calls
PivotStart ==
  IF part = "pivot" THEN PivotInit
  ELSE /\ pivot = "domain" /\ library = "here" /\ todo = {} /\ asked = {}
       /\ said = <<>> /\ entry = <<>> /\ observed = <<>> /\ finished = FALSE

PartsInit ==
  /\ part \in Part
  /\ CacheInit /\ (part = "cache" \/ source = "ip")
  /\ AvatarInit /\ BrowserInit /\ QuickInit
  /\ MigrationInit /\ (part = "migration" \/ (postgres /\ db = {}))
  /\ WmnInit
  /\ Init
  /\ CorrelationStart /\ JudgementStart /\ PlanStart /\ PivotStart

Beside(others) == UNCHANGED <<part, vars, rules, others>>
CacheStep == part = "cache" /\ CacheNext /\ Beside(<<avatarVars, browserVars, quickVars, migrationVars, wmnVars>>)
AvatarStep == part = "avatar" /\ AvatarNext /\ Beside(<<cacheVars, browserVars, quickVars, migrationVars, wmnVars>>)
BrowserStep == part = "browser" /\ BrowserNext /\ Beside(<<cacheVars, avatarVars, quickVars, migrationVars, wmnVars>>)
QuickStep == part = "quick" /\ QuickNext /\ Beside(<<cacheVars, avatarVars, browserVars, migrationVars, wmnVars>>)
MigrationStep == part = "migration" /\ MigrationNext /\ Beside(<<cacheVars, avatarVars, browserVars, quickVars, wmnVars>>)
WmnStep == part = "wmn" /\ WmnNext /\ Beside(<<cacheVars, avatarVars, browserVars, quickVars, migrationVars>>)

RouterStep == part = "router" /\ Next /\ UNCHANGED <<part, services, rules>>

Apart(others) == UNCHANGED <<part, services, vars, others>>
CorrelationStep == part = "correlation" /\ CorrelationNext /\ Apart(<<judgementVars, planVars, pivotVars>>)
JudgementStep == part = "judgement" /\ JudgementNext /\ Apart(<<correlationVars, planVars, pivotVars>>)
PlanStep == part = "plan" /\ PlanNext /\ Apart(<<correlationVars, judgementVars, pivotVars>>)
PivotStep == part = "pivot" /\ PivotNext /\ Apart(<<correlationVars, judgementVars, planVars>>)

PartsNext ==
  \/ CacheStep \/ AvatarStep \/ BrowserStep \/ QuickStep \/ MigrationStep \/ WmnStep
  \/ RouterStep
  \/ CorrelationStep \/ JudgementStep \/ PlanStep \/ PivotStep

PartsSpec == PartsInit /\ [][PartsNext]_partVars
=============================================================================
