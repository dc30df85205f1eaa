------------------------------- MODULE Pivots -------------------------------
(***************************************************************************)
(* The pivots: an email's or a number's registrations, module by module    *)
(* (recon/email_pivot.py, phone_accounts.py), a name's data brokers, one   *)
(* by one (brokers.py), a domain's registers (domain_pivot.py) and a       *)
(* handle's content detectors (detectors.py), all at once - and what the   *)
(* case says of them afterwards (pipeline.py, exposure.py, dossier.py).    *)
(***************************************************************************)
EXTENDS Naturals, FiniteSets

CONSTANTS Asks,         \* kind of pivot -> the sources it has
          Refused       \* those on hosts the access policy denies

ASSUME PivotAssumption ==
  /\ DOMAIN Asks \subseteq {"email", "phone", "brokers", "domain", "signals"}
  /\ \A p \in DOMAIN Asks : IsFiniteSet(Asks[p])

VARIABLES pivot,
          library,      \* holehe, ignorant: "here", "broken" or "missing"
          todo,         \* sources that are still to be asked
          asked,        \* those whose answer is awaited
          said,         \* history: source -> what it answered
          entry,        \* source -> what was recorded of it
          observed,     \* source -> what the router was told of it
          finished

pivotVars == <<pivot, library, todo, asked, said, entry, observed, finished>>

Modular == {"email", "phone"}          \* sequential, one library call a source
AtOnce == {"domain", "signals"}

Answers(p) ==
  CASE p \in Modular  -> {"yes", "no", "silent", "limited", "raised", "timed out"}
    [] p = "brokers"  -> {"gone", "match", "other", "wall", "failed"}
    [] p = "domain"   -> {"rows", "none", "gone", "odd", "failed"}
    [] p = "signals"  -> {"profile", "missing", "bare", "wall", "gone", "failed", "shell"}

(* Modules on denied hosts are not asked and leave no entry.               *)
PivotInit ==
  /\ pivot \in DOMAIN Asks
  /\ library \in (IF pivot \in Modular THEN {"here", "broken", "missing"} ELSE {"here"})
  /\ todo = IF library # "here" THEN {}
            ELSE IF pivot \in Modular THEN Asks[pivot] \ Refused ELSE Asks[pivot]
  /\ asked = {} /\ finished = FALSE
  /\ said = <<>> /\ observed = <<>>
  /\ entry = IF library = "broken" THEN [s \in {"library"} |-> "error"] ELSE <<>>

Noted(f, s, v) == [t \in DOMAIN f \cup {s} |-> IF t = s THEN v ELSE f[t]]

----------------------------------------------------------------------------
(* One module, one page, one register: what its answer is recorded as.  A   *)
(* module that returns without a word reads as a decisive no.              *)
ModuleEntry(a) ==
  CASE a = "yes" -> "found" [] a \in {"no", "silent"} -> "absent"
    [] a = "limited" -> "limited" [] a \in {"raised", "timed out"} -> "error"

(* classify_page: the wall phrases before the broker's match string.       *)
BrokerEntry(a) ==
  CASE a \in {"gone", "other"} -> "absent" [] a = "match" -> "found" [] OTHER -> "blocked"

(* _fetch_json and the parsers behind it: JSON of another shape is empty.  *)
RegisterEntry(a) ==
  CASE a = "rows" -> "found" [] a \in {"none", "gone", "odd"} -> "absent" [] a = "failed" -> "error"

(* HtmlDetector.outcome and classify, of the last page the ladder brought   *)
(* (escalate_shell): a marker, a wall, and only then the missing marker,    *)
(* which is how a soft 404 and a shell that nothing rendered read.          *)
DetectorEntry(a) ==
  CASE a = "profile" -> "found" [] a \in {"failed", "wall"} -> "blocked"
    [] a \in {"gone", "missing", "bare", "shell"} -> "absent"

Entry(a) == CASE pivot \in Modular  -> ModuleEntry(a)
              [] pivot = "brokers"  -> BrokerEntry(a)
              [] pivot = "domain"   -> RegisterEntry(a)
              [] pivot = "signals"  -> DetectorEntry(a)

Ask(s) ==
  /\ s \in todo
  /\ pivot \notin AtOnce => asked = {}
  /\ todo' = todo \ {s}
  /\ IF pivot = "signals" /\ s \in Refused
     THEN entry' = Noted(entry, s, "policy") /\ UNCHANGED asked
     ELSE asked' = asked \cup {s} /\ UNCHANGED entry
  /\ UNCHANGED <<pivot, library, said, observed, finished>>

Answer(s, a) ==
  /\ s \in asked
  /\ a \in Answers(pivot)
  /\ asked' = asked \ {s}
  /\ said' = Noted(said, s, a)
  /\ entry' = Noted(entry, s, Entry(a))
  /\ UNCHANGED <<pivot, library, todo, observed, finished>>

(* The pivot is over when every source has answered; what the detectors     *)
(* found, missed and could not see goes to the router, a refusal does not. *)
Finish ==
  /\ ~finished /\ todo = {} /\ asked = {}
  /\ finished' = TRUE
  /\ observed' = IF pivot = "signals"
                 THEN [s \in {t \in DOMAIN entry : entry[t] # "policy"} |-> entry[s] # "blocked"]
                 ELSE observed
  /\ UNCHANGED <<pivot, library, todo, asked, said, entry>>

Sources == UNION {Asks[p] : p \in DOMAIN Asks}

PivotNext ==
  \/ \E s \in Sources : Ask(s)
  \/ \E s \in Sources, a \in Answers(pivot) : Answer(s, a)
  \/ Finish

PivotSpec == PivotInit /\ [][PivotNext]_pivotVars

----------------------------------------------------------------------------
(* What the case says (holehe_tally, exposure._factors, dossier's summary). *)
With(v) == {s \in DOMAIN entry : entry[s] = v}
Decided == With("found") \cup With("absent")

\* fault: the silence of every module is needed before "none" is withheld
UndeterminedIfNone == DOMAIN entry # {} /\ Decided = {}

Undetermined ==
  /\ DOMAIN entry # {} /\ With("found") = {}
  /\ 2 * Cardinality(Decided) < Cardinality(DOMAIN entry)

EmailSentence ==
  CASE With("found") # {}                      -> "registered"
    [] With("found") = {} /\ Undetermined      -> "could not be determined"
    [] With("found") = {} /\ ~Undetermined     -> "no exposure"

(* The sources whose answer was a no, or that said nothing against it: a    *)
(* module's silence, a register's odd document and a page without its       *)
(* marker are read as one.                                                 *)
Denials == {"no", "silent", "none", "odd", "gone", "other", "missing", "bare", "shell"}
Negative == {s \in DOMAIN said : said[s] \in Denials}

(* "blocked is not absent", from the first answer to the sentence in the    *)
(* dossier: a source recorded as having nothing said so; with modules asked *)
(* "no registered-account exposure" takes as many noes as silences and no   *)
(* yes; a source nobody may ask claims nothing; and the circuit breaker     *)
(* hears of every detector that was asked, as healthy if it answered.       *)
NoIsAnAnswer ==
  finished =>
    /\ With("absent") \subseteq Negative
    /\ (pivot = "email" /\ EmailSentence = "no exposure") =>
         2 * Cardinality(Negative) >= Cardinality(DOMAIN said)
    /\ (pivot \in Modular /\ library = "here") => DOMAIN entry = Asks[pivot] \ Refused
    /\ pivot = "signals" =>
         /\ DOMAIN observed = Asks[pivot] \ Refused
         /\ \A s \in DOMAIN observed :
              observed[s] <=> said[s] \in Denials \cup {"profile"}
=============================================================================
