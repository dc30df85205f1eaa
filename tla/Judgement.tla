----------------------------- MODULE Judgement -----------------------------
(***************************************************************************)
(* What a fetched page is taken for (recon/verify.py) and what that is     *)
(* worth (recon/confidence.py).  What a page is - a profile, a block, the   *)
(* page a site serves for every handle - the verifier cannot see: the      *)
(* environment hands over every combination of what it can read off one,   *)
(* and the rules are judged by how they weigh it.                          *)
(***************************************************************************)
EXTENDS Naturals, Integers, FiniteSets

VARIABLES page,         \* what came back for the handle
          verdict,      \* _verdict(): status, identity_match, note
          evidence,     \* what the row brings beside its verdict
          judging       \* "page" | "verdict" | "row"

judgementVars == <<page, verdict, evidence, judging>>

Probe == {"ran", "failed", "not_applicable"}

(* What can be read off a page: the class of its status; a challenge       *)
(* marker, and whether a weak one stands in the title; a consent wall; a    *)
(* removed or not-found phrase in the headline, a not-found phrase at the   *)
(* top; whether it looks like the control page (its text, or its title     *)
(* alone, with the handles masked), names the handle, has profile metadata; *)
(* its structured name against the subject's, and a conflicting one next to *)
(* the handle.                                                             *)
Feature == [reply : {"ok"}, marker : {"none", "weak", "strong"}, inTitle : BOOLEAN,
            wall : BOOLEAN, removed : BOOLEAN, notFound : BOOLEAN, notFoundTop : BOOLEAN,
            like : BOOLEAN, names : BOOLEAN, meta : BOOLEAN,
            name : {"none", "match", "other"}, conflict : BOOLEAN, probe : Probe]

(* Names are read off the structured fields, which count as metadata.       *)
Readable ==
  {p \in Feature : /\ p.inTitle => p.marker = "weak"
                   /\ p.name # "none" \/ p.conflict => p.meta}

(* No page at all, or none yet. *)
Blank == [reply |-> "refused", marker |-> "none", inTitle |-> FALSE, wall |-> FALSE,
          removed |-> FALSE, notFound |-> FALSE, notFoundTop |-> FALSE, like |-> FALSE,
          names |-> FALSE, meta |-> FALSE, name |-> "none", conflict |-> FALSE,
          probe |-> "not_applicable"]
Absence(r, c) == [Blank EXCEPT !.reply = r, !.probe = c]
Bare == {Absence(r, c) : r \in {"absent", "refused", "noHtml", "unfetched"}, c \in Probe}

Row == [engines : 1..2, identity : BOOLEAN, source : {"name", "variant", "base"}]

JudgementInit ==
  /\ page \in Bare \cup Readable
  /\ verdict = [status |-> "none"]
  /\ evidence = [engines |-> 1, identity |-> FALSE, source |-> "base"]
  /\ judging = "page"

----------------------------------------------------------------------------
(* verify_username *)

Verdict(p, status, match) ==
  [status |-> status, match |-> match,
   note |-> p.probe = "failed" /\ status \in {"confirmed", "unconfirmed"}]

(* Rule 0: absence and blockage are different claims. *)
Unreadable(p) ==
  IF p.reply = "absent" THEN Verdict(p, "likely_false_positive", "none")
  ELSE Verdict(p, "indeterminate", "none")

(* A weak phrase is excused on a page that names the handle, outside of its *)
(* title.                                                                  *)
Challenged(p) ==
  \/ p.marker = "strong"
  \/ p.marker = "weak" /\ ~(p.names /\ ~p.inTitle)
  \/ p.wall

(* Rule 4, where the control ran: the same page for everyone is a          *)
(* refutation if it has metadata or echoes the handle, else a block page.  *)
SameForAll(p) == p.probe = "ran" /\ p.like
ForAll(p, match) ==
  IF p.meta \/ p.names THEN Verdict(p, "likely_false_positive", match)
  ELSE Verdict(p, "indeterminate", match)

(* Rule 5: the page names the handle, but maybe next to someone else.      *)
Named(p, match) ==
  IF p.conflict THEN Verdict(p, "unconfirmed", "other") ELSE Verdict(p, "confirmed", match)

\* fault: the handle in the title decides before the control is looked at
VerifyUsernameByHandle(p) ==
  CASE p.reply # "ok" -> Unreadable(p)
    [] p.reply = "ok" /\ Challenged(p) -> Verdict(p, "indeterminate", "none")
    [] p.reply = "ok" /\ ~Challenged(p) /\ p.names -> Named(p, p.name)
    [] OTHER -> Verdict(p, "unconfirmed", p.name)

VerifyUsername(p) ==
  IF p.reply # "ok" THEN Unreadable(p)
  ELSE IF Challenged(p) THEN Verdict(p, "indeterminate", "none")
  ELSE IF p.name = "match" THEN Verdict(p, "confirmed", "match")
  ELSE IF p.removed THEN Verdict(p, "unconfirmed", p.name)
  ELSE IF p.notFound THEN Verdict(p, "likely_false_positive", p.name)
  ELSE IF SameForAll(p) THEN ForAll(p, p.name)
  ELSE IF p.names THEN Named(p, p.name)
  ELSE IF p.notFoundTop THEN Verdict(p, "likely_false_positive", p.name)
  ELSE Verdict(p, "unconfirmed", p.name)

JudgePage ==
  /\ judging = "page"
  /\ verdict' = IF page.reply = "unfetched" THEN Verdict(page, "not_examined", "none")
                ELSE VerifyUsername(page)
  /\ judging' = "verdict"
  /\ UNCHANGED <<page, evidence>>

(* The row the verdict belongs to: its engines, its page's identity, and   *)
(* how its handle came about.                                              *)
Attach(e) ==
  /\ judging = "verdict"
  /\ evidence' = e
  /\ judging' = "row"
  /\ UNCHANGED <<page, verdict>>

JudgementNext == JudgePage \/ \E e \in Row : Attach(e)

JudgementSpec == JudgementInit /\ [][JudgementNext]_judgementVars

----------------------------------------------------------------------------
(* confidence.py *)

VerifyBonus(status) ==
  CASE status = "confirmed" -> 45 [] status = "unconfirmed" -> -8
    [] status = "likely_false_positive" -> -60 [] status = "indeterminate" -> -10
    [] status = "not_examined" -> -12

SourcePenalty(source) ==
  CASE source = "name" -> -12 [] source = "variant" -> -6 [] source = "base" -> 0

(* _BASE and the bonuses, kept within 5..100. *)
AccountConfidence(e) ==
  LET s == 30 + (IF e.engines >= 2 THEN 15 ELSE 0) + (IF e.identity THEN 15 ELSE 0)
              + VerifyBonus(verdict.status) + (IF verdict.match = "match" THEN 20 ELSE 0)
              + SourcePenalty(e.source)
  IN  IF s < 5 THEN 5 ELSE IF s > 100 THEN 100 ELSE s

VerdictBucket ==
  CASE verdict.status = "confirmed" -> "found"
    [] verdict.status = "likely_false_positive" -> "flagged"
    [] verdict.status = "indeterminate" -> "indeterminate"
    [] verdict.status = "not_examined" -> "not_examined"
    [] OTHER -> "lead"

AccountTier(e) ==
  CASE VerdictBucket = "found" -> "confirmed"
    [] VerdictBucket = "flagged" -> "refuted"
    [] VerdictBucket = "lead" /\ AccountConfidence(e) >= 40 -> "strong"
    [] OTHER -> "weak"

----------------------------------------------------------------------------
(* The page with one more thing against the account, and with one more for  *)
(* it: the control compared and found alike included.                      *)
Against(p) ==
  {[p EXCEPT !.marker = "strong"], [p EXCEPT !.wall = TRUE], [p EXCEPT !.removed = TRUE],
   [p EXCEPT !.notFound = TRUE], [p EXCEPT !.notFoundTop = TRUE], [p EXCEPT !.like = TRUE],
   [p EXCEPT !.conflict = TRUE], [p EXCEPT !.probe = "ran"]}
Backed(p) == {[p EXCEPT !.name = "match"], [p EXCEPT !.removed = TRUE]}

(* Whatever is read off a page, in whatever combination: what speaks        *)
(* against an account never confirms it, and a matching name or a notice    *)
(* of removal never has a page refuted; a block that is recognised, or no   *)
(* page, neither confirms nor refutes; where the control ran, a page that   *)
(* looks like its page is confirmed only by the subject's name, and where   *)
(* it failed, what is confirmed or left open says so; a page that names the *)
(* handle is refuted only by its own heading or by the control.             *)
VerdictFitsThePage ==
  judging = "verdict" =>
    /\ \A q \in Against(page) :
         VerifyUsername(q).status = "confirmed" => verdict.status = "confirmed"
    /\ \A q \in Backed(page) :
         VerifyUsername(q).status = "likely_false_positive" => page.reply = "absent"
    /\ (page.reply = "ok" /\ Challenged(page)) \/ page.reply \notin {"ok", "absent"} =>
         verdict.status \in {"indeterminate", "not_examined"}
    /\ verdict.status = "confirmed" => (SameForAll(page) => page.name = "match")
    /\ page.probe = "failed" /\ verdict.status \in {"confirmed", "unconfirmed"} => verdict.note
    /\ page.names /\ verdict.status = "likely_false_positive" =>
         page.notFound \/ SameForAll(page)

(* A row is shown as strong or confirmed only if a page was read that is no *)
(* recognised block, and more evidence (an engine, an identity, a likelier  *)
(* handle) never lowers it.                                                *)
TierRank == [refuted |-> 0, weak |-> 1, strong |-> 2, confirmed |-> 3]
SourceRank == [name |-> 0, variant |-> 1, base |-> 2]
TierIsEarned ==
  judging = "row" =>
    /\ AccountTier(evidence) \in {"strong", "confirmed"} => page.reply = "ok" /\ ~Challenged(page)
    /\ \A e \in Row :
         /\ e.engines >= evidence.engines /\ (evidence.identity => e.identity)
         /\ SourceRank[e.source] >= SourceRank[evidence.source]
         => /\ AccountConfidence(e) >= AccountConfidence(evidence)
            /\ TierRank[AccountTier(e)] >= TierRank[AccountTier(evidence)]

(* Both at once: the verdict fits the page and the tier fits the evidence. *)
JudgementFits == VerdictFitsThePage /\ TierIsEarned
=============================================================================
