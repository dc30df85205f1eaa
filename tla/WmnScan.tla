------------------------------ MODULE WmnScan ------------------------------
(***************************************************************************)
(* One scan of the third engine (recon/whatsmyname.py): all sites at once  *)
(* through a semaphore of WMN_CONCURRENCY.  A site on a denied host is     *)
(* never asked.  The answer is classified; an UNKNOWN of a high-value site *)
(* that is no rate limit may spend one of the scan's few stealth retries.  *)
(***************************************************************************)
EXTENDS Naturals, Integers, FiniteSets

CONSTANTS WmnSite, Denied, HighValue,   \* Denied, HighValue \subseteq WmnSite
          Slots,        \* WMN_CONCURRENCY
          Budget        \* _STEALTH_RETRY_BUDGET

ASSUME WmnAssumption == Budget \in Nat

VARIABLES doing,        \* site -> "waiting", "asking", "disguised", "reported"
          left,         \* budget["left"]
          disguises,    \* counters["stealth_retries"]
          limited,      \* history: sites whose answer was a rate limit
          result,       \* site -> the status handed to on_result
          scan          \* "running", "over", "cancelled"

wmnVars == <<doing, left, disguises, limited, result, scan>>

WmnInit ==
  /\ doing = [s \in WmnSite |-> "waiting"]
  /\ left = Budget /\ disguises = 0
  /\ limited = {}
  /\ result = [s \in WmnSite |-> "none"]
  /\ scan = "running"

(* classify_fetch and classify_response, of what an answer is: its code,   *)
(* whether it is below 300, whether the site's found and missing marks are  *)
(* in it, and whether recon.retrieval calls it blocked.                    *)
Fetch == [code : {"none", "limit", "found", "missing", "other"}, below300 : BOOLEAN,
          foundMark : BOOLEAN, missingMark : BOOLEAN, blocked : BOOLEAN]

ClassifyResponse(r) ==
  IF r.code = "found" /\ r.foundMark THEN "claimed"
  ELSE IF r.code = "missing" \/ r.missingMark \/ r.code = "found" THEN "available"
  ELSE "unknown"

ClassifyFetch(r) ==
  IF r.code \in {"none", "limit"} THEN "unknown"
  ELSE IF ClassifyResponse(r) = "available" /\ r.blocked /\ r.below300 THEN "unknown"
  ELSE ClassifyResponse(r)

Report(s, status) ==
  /\ doing' = [doing EXCEPT ![s] = "reported"]
  /\ result' = [result EXCEPT ![s] = status]

Running(s) == doing[s] \in {"asking", "disguised"}

BeginSite(s) ==
  /\ scan = "running" /\ doing[s] = "waiting"
  /\ Cardinality({t \in WmnSite : Running(t)}) < Slots
  /\ IF s \in Denied THEN Report(s, "policy")
     ELSE doing' = [doing EXCEPT ![s] = "asking"] /\ UNCHANGED result
  /\ UNCHANGED <<left, disguises, limited, scan>>

\* fault: the budget is spent when the disguised answer is there
JudgeUnspent(s, r) ==
  /\ scan = "running" /\ doing[s] = "asking"
  /\ limited' = IF r.code = "limit" THEN limited \cup {s} ELSE limited
  /\ IF ClassifyFetch(r) = "unknown" /\ r.code # "limit" /\ s \in HighValue /\ left > 0
     THEN /\ disguises' = disguises + 1
          /\ doing' = [doing EXCEPT ![s] = "disguised"]
          /\ UNCHANGED <<left, result>>
     ELSE Report(s, ClassifyFetch(r)) /\ UNCHANGED <<left, disguises>>
  /\ UNCHANGED scan

(* The budget is looked at and spent before the next await. *)
Judge(s, r) ==
  /\ scan = "running" /\ doing[s] = "asking"
  /\ limited' = IF r.code = "limit" THEN limited \cup {s} ELSE limited
  /\ IF ClassifyFetch(r) = "unknown" /\ r.code # "limit" /\ s \in HighValue /\ left > 0
     THEN /\ left' = left - 1 /\ disguises' = disguises + 1
          /\ doing' = [doing EXCEPT ![s] = "disguised"]
          /\ UNCHANGED result
     ELSE Report(s, ClassifyFetch(r)) /\ UNCHANGED <<left, disguises>>
  /\ UNCHANGED scan

(* The disguised answer counts where it decides; otherwise the site stays  *)
(* unknown.                                                                *)
Recover(s, r) ==
  /\ scan = "running" /\ doing[s] = "disguised"
  /\ Report(s, IF r.code = "none" THEN "unknown" ELSE ClassifyResponse(r))
  /\ UNCHANGED <<left, disguises, limited, scan>>

Gathered ==
  /\ scan = "running" /\ \A s \in WmnSite : doing[s] = "reported"
  /\ scan' = "over"
  /\ UNCHANGED <<doing, left, disguises, limited, result>>

CancelScan ==
  /\ scan = "running"
  /\ scan' = "cancelled"
  /\ UNCHANGED <<doing, left, disguises, limited, result>>

WmnNext ==
  \/ \E s \in WmnSite : BeginSite(s) \/ \E r \in Fetch : Judge(s, r) \/ Recover(s, r)
  \/ Gathered \/ CancelScan

WmnSpec == WmnInit /\ [][WmnNext]_wmnVars

----------------------------------------------------------------------------
(* Stealth is bounded: however the checks interleave, no scan sends more   *)
(* disguised requests than its budget, none to a host that asked to slow   *)
(* down or that policy denies.                                             *)
StealthIsBounded ==
  /\ disguises <= Budget
  /\ \A s \in WmnSite : doing[s] = "disguised" => s \in HighValue \ (Denied \cup limited)
=============================================================================
