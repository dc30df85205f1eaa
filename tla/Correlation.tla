---------------------------- MODULE Correlation ----------------------------
(***************************************************************************)
(* Clusters of accounts (recon/correlate.py): which rows take part, which  *)
(* avatars arrive, which pairs bond, and the union-find over the bonds.    *)
(* An image stands for its two hashes, a name for its class of spellings,  *)
(* and a bio is a set of phrases of five words or more each.               *)
(***************************************************************************)
EXTENDS Integers, Sequences, FiniteSets

CONSTANTS Pool,         \* the account rows a run may hand over, in order
          Rows,         \* bound: how many of them it does
          MaxAvatars    \* MAX_AVATARS

(* A label holds the address.                                              *)
ASSUME CorrelationAssumption ==
  /\ Rows \in Nat /\ MaxAvatars \in Nat /\ \A i \in DOMAIN Pool : IsFiniteSet(Pool[i].bio)
  /\ \A i, j \in DOMAIN Pool : Pool[i].label = Pool[j].label => Pool[i].page = Pool[j].page

VARIABLES found,        \* rows of the run
          candidates,   \* the indexes of those that take part
          hash,         \* candidate -> the image it was seen with, or "none"
          parent,       \* the union-find forest
          unseen,       \* the pairs still to be compared
          links,        \* the bonds, as sets of two candidates
          correlating   \* "download" | "link" | "done"

correlationVars == <<found, candidates, hash, parent, unseen, links, correlating>>

AVATAR_WEIGHT == 50
NAME_WEIGHT == 30
SimilarWeight == 25     \* 22..30 fall on the same side of the bar in every sum
BIO_WEIGHT == 20
NAME_CONFLICT_PENALTY == 20
CORRELATION_LINK_MIN == 40

CorrelationInit ==
  /\ found \in {[k \in 1..Rows |-> Pool[f[k]]] :
                  f \in {g \in [1..Rows -> DOMAIN Pool] : \A k \in 2..Rows : g[k - 1] < g[k]}}
  /\ candidates = {} /\ hash = <<>> /\ parent = <<>> /\ unseen = {} /\ links = {}
  /\ correlating = "download"

----------------------------------------------------------------------------
(* Who takes part *)

(* Only a real page counts: one that was fetched, and not called a false   *)
(* positive, indeterminate or not examined.                                *)
Participates == {i \in DOMAIN found : found[i].real}
(* One profile, one row: the first of those with the same page stays.      *)
Unique == {i \in Participates : \A j \in Participates : j < i => found[j].page # found[i].page}
(* What is worth a request: no known placeholder, no denied host.          *)
Downloadable(r) == r.image \notin {"none", "default", "denied"}
Targets ==
  LET first == {i \in Participates : /\ Downloadable(found[i])
                                     /\ \A j \in Participates : j < i => found[j].src # found[i].src}
  IN  {found[i].src : i \in {i \in first : Cardinality({j \in first : j <= i}) <= MaxAvatars}}

PairsOf(c) == {p \in c \X c : p[1] < p[2]}

(* _download_avatars and the dedupe behind it: any of the requests may     *)
(* fail, which leaves its rows without a hash.                             *)
DownloadAvatars(arrived) ==
  /\ correlating = "download"
  /\ candidates' = Unique
  /\ hash' = [i \in Unique |-> IF Downloadable(found[i]) /\ found[i].src \in arrived
                              THEN found[i].image ELSE "none"]
  /\ parent' = [i \in Unique |-> i]
  /\ unseen' = PairsOf(Unique)
  /\ correlating' = IF unseen' = {} THEN "done" ELSE "link"
  /\ UNCHANGED <<found, links>>

----------------------------------------------------------------------------
(* What a pair shares *)

SameSite(i, j) == found[i].site = found[j].site
SameAccount(i, j) ==
  \/ found[i].page = found[j].page
  \/ found[i].host = found[j].host /\ found[i].handle = found[j].handle

(* Hashes within the distance: at 8x8 the twin passes for the face, at     *)
(* 16x16 only the crop does.                                               *)
Alike8(p, q) == p # "none" /\ (p = q \/ (q # "none" /\ {p, q} \subseteq {"face", "crop", "twin"}))
Alike16(p, q) == p = q \/ {p, q} = {"face", "crop"}

(* placeholder_hashes: too plain, on three rows, or on two handles of one  *)
(* site.                                                                   *)
Shows(h) == {i \in candidates : hash[i] = h}
\* fault: an image shared by two handles of one site counts as a face
PlaceholderHashesCommon ==
  {h \in {hash[i] : i \in candidates} \ {"none"} : h = "logo" \/ Cardinality(Shows(h)) >= 3}

PlaceholderHashes ==
  {h \in {hash[i] : i \in candidates} \ {"none"} :
     \/ h = "logo"
     \/ Cardinality(Shows(h)) >= 3
     \/ \E i, j \in Shows(h) : SameSite(i, j) /\ found[i].handle # found[j].handle}

(* Spellings of one name are similar; a conflict is no token in common,    *)
(* which a similar spelling may have too ("ann", "hann").                  *)
SimilarNames(x, y) == x # "" /\ y # "" /\ (x = y \/ {x, y} \subseteq {"ann", "anne", "hann"})
NamesConflict(x, y) == x # "" /\ y # "" /\ x # y /\ {x, y} # {"ann", "anne"}

(* site_template_tokens: what three bios of the site and three in five say. *)
Template(site) ==
  LET bios == {i \in candidates : found[i].site = site /\ found[i].bio # {}}
      n == Cardinality(bios)
      with(t) == Cardinality({i \in bios : t \in found[i].bio})
  IN  IF n < 3 THEN {}
      ELSE {t \in UNION {found[i].bio : i \in bios} : with(t) >= 3 /\ 5 * with(t) >= 3 * n}
BioTokens(i) == found[i].bio \ Template(found[i].site)
BiosOverlap(i, j) ==
  LET x == BioTokens(i)  y == BioTokens(j)
  IN  x # {} /\ y # {} /\ 10 * Cardinality(x \cap y) >= 3 * Cardinality(x \cup y)

AvatarMatch(i, j) ==
  /\ Alike8(hash[i], hash[j]) /\ Alike16(hash[i], hash[j])
  /\ {hash[i], hash[j]} \cap PlaceholderHashes = {}
AvatarPoints(i, j) ==
  LET p == IF AvatarMatch(i, j) THEN AVATAR_WEIGHT ELSE 0
  IN  IF ~NamesConflict(found[i].name, found[j].name) THEN p
      ELSE IF SameSite(i, j) \/ p < NAME_CONFLICT_PENALTY THEN 0 ELSE p - NAME_CONFLICT_PENALTY
NamePoints(i, j) ==
  IF SameSite(i, j) \/ ~SimilarNames(found[i].name, found[j].name) THEN 0
  ELSE IF found[i].name = found[j].name THEN NAME_WEIGHT ELSE SimilarWeight
BioPoints(i, j) == IF ~SameSite(i, j) /\ BiosOverlap(i, j) THEN BIO_WEIGHT ELSE 0

ScorePair(i, j) ==
  IF SameAccount(i, j) THEN 0
  ELSE LET s == AvatarPoints(i, j) + NamePoints(i, j) + BioPoints(i, j)
       IN  IF s > 100 THEN 100 ELSE s

----------------------------------------------------------------------------
(* Union-find and the clusters *)

(* A function applied n times.                                             *)
Iterated(f, x, n) ==
  LET after[k \in 0..n] == IF k = 0 THEN x ELSE f[after[k - 1]]
  IN  after[n]

(* find(): as many steps up as there are rows reach the root.  Its path    *)
(* halving changes no root and is left out.                                *)
Root(i) == Iterated(parent, i, Len(found))

\* fault: the member is hung up instead of its root
UnionMember(i, j) == [parent EXCEPT ![i] = Root(j)]

Union(i, j) == [parent EXCEPT ![Root(i)] = Root(j)]

(* The double loop goes through the pairs in this order. *)
Before(p, q) == p[1] < q[1] \/ (p[1] = q[1] /\ p[2] <= q[2])
NextPair == CHOOSE p \in unseen : \A q \in unseen : Before(p, q)

(* One turn of the double loop. *)
Compare ==
  LET i == NextPair[1]  j == NextPair[2] IN
  /\ correlating = "link"
  /\ IF ScorePair(i, j) >= CORRELATION_LINK_MIN
     THEN links' = links \cup {{i, j}} /\ parent' = Union(i, j)
     ELSE UNCHANGED <<links, parent>>
  /\ unseen' = unseen \ {NextPair}
  /\ correlating' = IF unseen' = {} THEN "done" ELSE "link"
  /\ UNCHANGED <<found, candidates, hash>>

Groups == {g \in {{k \in candidates : Root(k) = Root(i)} : i \in candidates} : Cardinality(g) >= 2}
(* The links of a cluster are those whose two labels are among its         *)
(* members' labels, a label being the site and the address.                *)
MemberLinks(g) ==
  LET labels == {found[i].label : i \in g}
  IN  {l \in links : \A i \in l : found[i].label \in labels}

CorrelationNext ==
  \/ \E arrived \in SUBSET Targets : DownloadAvatars(arrived)
  \/ Compare

CorrelationSpec == CorrelationInit /\ [][CorrelationNext]_correlationVars

----------------------------------------------------------------------------
(* Reference: candidates connected by links, by closure of the relation.   *)
Spread == [s \in SUBSET candidates |-> s \cup {k \in candidates : \E m \in s : {m, k} \in links}]
Connected(i, j) == j \in Iterated(Spread, {i}, Len(found))

(* After every comparison the forest is the connected components of the    *)
(* bonds so far, and in the end every bond is shown in exactly one cluster, *)
(* the one of its two accounts.                                            *)
ClustersAreComponents ==
  correlating # "download" =>
    /\ \A i, j \in candidates : Root(i) = Root(j) <=> Connected(i, j)
    /\ correlating = "done" =>
         \A l \in links : \E g \in Groups :
            l \subseteq g /\ {h \in Groups : l \in MemberLinks(h)} = {g}

(* No bond between strangers: the two rows are real pages of two accounts, *)
(* and either show one person's image, which no third row and no other     *)
(* handle of a site shows, or are on two sites and share a name and words  *)
(* that are not what most of the three or more bios of either site say.    *)
ImageEvidence(i, j) ==
  /\ hash[i] \notin {"none", "logo"} /\ hash[j] \notin {"none", "logo"}
  /\ {hash[i], hash[j]} # {"face", "twin"} /\ {hash[i], hash[j]} # {"crop", "twin"}
  /\ Cardinality(Shows(hash[i])) <= 2
  /\ SameSite(i, j) => /\ ~NamesConflict(found[i].name, found[j].name)
                      /\ (hash[i] # hash[j] \/ found[i].handle = found[j].handle)
Phrase(t, m) ==
  LET bios == {k \in candidates : SameSite(k, m) /\ found[k].bio # {}}
      with == {k \in bios : t \in found[k].bio}
  IN  Cardinality(with) >= 3 /\ 5 * Cardinality(with) >= 3 * Cardinality(bios)
WordEvidence(i, j) ==
  /\ found[i].site # found[j].site
  /\ SimilarNames(found[i].name, found[j].name)
  /\ \E t \in found[i].bio \cap found[j].bio : ~Phrase(t, i) /\ ~Phrase(t, j)
BondsNeedEvidence ==
  \A l \in links : \A i, j \in l : i # j =>
    /\ found[i].real /\ found[j].real /\ found[i].page # found[j].page
    /\ ImageEvidence(i, j) \/ WordEvidence(i, j)
=============================================================================
