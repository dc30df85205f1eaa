-------------------------- MODULE SiteHealth_proofs --------------------------
(***************************************************************************)
(* Theorems about SiteHealth for every window, threshold, ladder and set   *)
(* of runs.  The invariants are about single states of the row (committed  *)
(* or being folded), so the work is done once: applying one observation to *)
(* a sound state gives a sound state.  The rest only moves sound states    *)
(* between the row and the runs.                                           *)
(***************************************************************************)
EXTENDS SiteHealth, FiniteSetTheorems, FunctionTheorems, SequenceTheorems, TLAPS

-----------------------------------------------------------------------------
(* The last n elements of a sequence. *)
LEMMA LastOfElements ==
  ASSUME NEW S, NEW s \in Seq(S), NEW n \in Nat
  PROVE  /\ LastOf(s, n) \in Seq(S)
         /\ Len(LastOf(s, n)) = Least(Len(s), n)
         /\ \A i \in 1..Least(Len(s), n) :
              LastOf(s, n)[i] = s[Len(s) - Least(Len(s), n) + i]
<1>1. CASE Len(s) <= n
  <2>1. LastOf(s, n) = s /\ Least(Len(s), n) = Len(s)
    BY <1>1 DEF LastOf, Least
  <2>2. \A i \in 1..Len(s) : s[Len(s) - Len(s) + i] = s[i]
    OBVIOUS
  <2> QED
    BY <2>1, <2>2
<1>2. CASE ~(Len(s) <= n)
  <2>1. \A i \in (Len(s) - n + 1)..Len(s) : s[i] \in S
    BY <1>2
  <2> DEFINE m == Len(s) - n + 1
  <2>2. /\ SubSeq(s, m, Len(s)) \in Seq(S)
        /\ Len(SubSeq(s, m, Len(s))) = IF m <= Len(s) THEN Len(s) - m + 1 ELSE 0
        /\ \A i \in 1..(Len(s) - m + 1) : SubSeq(s, m, Len(s))[i] = s[m + i - 1]
    <3>1. m \in Int /\ Len(s) \in Int
      OBVIOUS
    <3> HIDE DEF m
    <3> QED
      BY <2>1, <3>1, SubSeqProperties DEF m
  <2>3. LastOf(s, n) = SubSeq(s, m, Len(s)) /\ Least(Len(s), n) = n
    BY <1>2 DEF LastOf, Least
  <2> QED
    BY <2>2, <2>3, <1>2
<1> QED
  BY <1>1, <1>2

(* The window after one more observation: it grows until it is full, then  *)
(* it moves on by one.                                                     *)
LEMMA WindowMoves ==
  ASSUME NEW S, NEW w \in Seq(S), NEW b \in S, NEW n \in Nat \ {0},
         Len(w) <= n
  PROVE  /\ LastOf(Append(w, b), n) \in Seq(S)
         /\ Len(LastOf(Append(w, b), n)) = Least(Len(w) + 1, n)
         /\ \A i \in 1..Least(Len(w) + 1, n) :
              LastOf(Append(w, b), n)[i]
                = Append(w, b)[Len(w) + 1 - Least(Len(w) + 1, n) + i]
<1> DEFINE v == Append(w, b)
<1>1. v \in Seq(S) /\ Len(v) = Len(w) + 1
  OBVIOUS
<1> HIDE DEF v
<1>2. /\ LastOf(v, n) \in Seq(S)
      /\ Len(LastOf(v, n)) = Least(Len(v), n)
      /\ \A i \in 1..Least(Len(v), n) : LastOf(v, n)[i] = v[Len(v) - Least(Len(v), n) + i]
  BY <1>1, LastOfElements
<1>3. /\ LastOf(v, n) \in Seq(S)
      /\ Len(LastOf(v, n)) = Least(Len(w) + 1, n)
      /\ \A i \in 1..Least(Len(w) + 1, n) :
           LastOf(v, n)[i] = v[Len(w) + 1 - Least(Len(w) + 1, n) + i]
  BY SMTT(30), <1>1, <1>2
<1> QED
  BY <1>3 DEF v

(* Where an element of the shorter suffix is, seen from the longer one. *)
LEMMA SuffixPlace ==
  ASSUME NEW len \in Nat, NEW n \in Nat, NEW k \in Nat, k <= n,
         NEW i \in 1..Least(Least(len, n), k)
  PROVE  LET m == Least(len, n)
             j == m - Least(m, k) + i
         IN  /\ Least(m, k) = Least(len, k)
             /\ j \in 1..m
             /\ len - m + j = len - Least(len, k) + i
BY DEF Least

(* Trimming to a window first does not change a shorter suffix. *)
LEMMA LastOfLast ==
  ASSUME NEW S, NEW s \in Seq(S), NEW n \in Nat, NEW k \in Nat, k <= n
  PROVE  LastOf(LastOf(s, n), k) = LastOf(s, k)
<1> DEFINE t == LastOf(s, n)
<1>1. /\ t \in Seq(S) /\ Len(t) = Least(Len(s), n)
      /\ \A i \in 1..Least(Len(s), n) : t[i] = s[Len(s) - Least(Len(s), n) + i]
  BY LastOfElements
<1> HIDE DEF t
<1>2. /\ LastOf(t, k) \in Seq(S) /\ Len(LastOf(t, k)) = Least(Len(t), k)
      /\ \A i \in 1..Least(Len(t), k) :
           LastOf(t, k)[i] = t[Len(t) - Least(Len(t), k) + i]
  BY <1>1, LastOfElements
<1>3. /\ LastOf(s, k) \in Seq(S) /\ Len(LastOf(s, k)) = Least(Len(s), k)
      /\ \A i \in 1..Least(Len(s), k) :
           LastOf(s, k)[i] = s[Len(s) - Least(Len(s), k) + i]
  BY LastOfElements
<1>4. Len(LastOf(t, k)) = Len(LastOf(s, k))
  BY <1>1, <1>2, <1>3 DEF Least
<1>5. ASSUME NEW i \in 1..Len(LastOf(t, k))
      PROVE  LastOf(t, k)[i] = LastOf(s, k)[i]
  <2> DEFINE j == Len(t) - Least(Len(t), k) + i
  <2>1. i \in 1..Least(Least(Len(s), n), k) /\ Len(s) \in Nat
    BY <1>1, <1>2, <1>5
  <2>2. /\ Least(Len(t), k) = Least(Len(s), k)
        /\ j \in 1..Least(Len(s), n)
        /\ Len(s) - Least(Len(s), n) + j = Len(s) - Least(Len(s), k) + i
    BY <1>1, <2>1, SuffixPlace
  <2>3. LastOf(t, k)[i] = t[j]
    BY <1>1, <1>2, <2>1
  <2>4. t[j] = s[Len(s) - Least(Len(s), n) + j]
    BY <1>1, <2>2
  <2>5. LastOf(s, k)[i] = s[Len(s) - Least(Len(s), k) + i]
    BY <1>1, <1>3, <2>1, <2>2
  <2> QED
    BY <2>2, <2>3, <2>4, <2>5
<1>6. LastOf(t, k) = LastOf(s, k)
  BY <1>2, <1>3, <1>4, <1>5, SeqEqual
<1> QED
  BY <1>6 DEF t
-----------------------------------------------------------------------------
(* Counting the failures of a window. *)
LEMMA FailuresFinite ==
  ASSUME NEW s \in Seq({0, 1})
  PROVE  /\ IsFiniteSet({i \in DOMAIN s : s[i] = 0})
         /\ Failures(s) \in Nat
<1>1. IsFiniteSet(1..Len(s))
  BY FS_Interval
<1>2. {i \in DOMAIN s : s[i] = 0} \subseteq 1..Len(s)
  OBVIOUS
<1>3. IsFiniteSet({i \in DOMAIN s : s[i] = 0})
  BY <1>1, <1>2, FS_Subset
<1> QED
  BY <1>3, FS_CardinalityType DEF Failures

LEMMA FailuresNat ==
  ASSUME NEW s \in Seq({0, 1})
  PROVE  Failures(s) \in Nat /\ Len(s) \in Nat
<1>1. Failures(s) \in Nat
  BY FailuresFinite, Zenon
<1> QED
  BY <1>1

(* A window that grows by a failure counts one more. *)
LEMMA FailuresGrow ==
  ASSUME NEW s \in Seq({0, 1})
  PROVE  Failures(Append(s, 0)) = Failures(s) + 1
<1> DEFINE t == Append(s, 0)
           A == {i \in DOMAIN s : s[i] = 0}
           B == {i \in DOMAIN t : t[i] = 0}
<1>1. /\ DOMAIN s = 1..Len(s) /\ DOMAIN t = 1..(Len(s) + 1) /\ Len(s) \in Nat
      /\ t[Len(s) + 1] = 0 /\ \A i \in 1..Len(s) : t[i] = s[i]
  OBVIOUS
<1>2. B = A \union {Len(s) + 1} /\ Len(s) + 1 \notin A
  <2> HIDE DEF t
  <2>1. ASSUME NEW i PROVE i \in B <=> i \in A \union {Len(s) + 1}
    BY <1>1
  <2>2. Len(s) + 1 \notin A
    BY <1>1
  <2> QED
    BY <2>1, <2>2
<1>3. IsFiniteSet(A)
  BY FailuresFinite
<1>4. Cardinality(A \union {Len(s) + 1}) = Cardinality(A) + 1
  <2> HIDE DEF A, B
  <2> QED
    BY <1>2, <1>3, FS_AddElement
<1> QED
  BY <1>2, <1>4 DEF Failures

(* A full window that moves on by a failure counts at least as many. *)
LEMMA FailuresShift ==
  ASSUME NEW s \in Seq({0, 1}), NEW t \in Seq({0, 1}), NEW n \in Nat \ {0},
         Len(s) = n, Len(t) = n, t[n] = 0,
         \A i \in 1..(n - 1) : t[i] = s[i + 1]
  PROVE  Failures(s) <= Failures(t)
<1> DEFINE A == {i \in DOMAIN s : s[i] = 0}
           B == {i \in DOMAIN t : t[i] = 0}
           f == [i \in A |-> IF i = 1 THEN n ELSE i - 1]
<1>1. DOMAIN s = 1..n /\ DOMAIN t = 1..n
  OBVIOUS
<1>2. ASSUME NEW i \in A PROVE f[i] \in B
  <2>1. CASE i = 1
    BY <1>1, <2>1
  <2>2. CASE i # 1
    <3>1. i \in 2..n /\ i - 1 \in 1..(n - 1) /\ f[i] = i - 1 /\ s[i] = 0
      BY <1>1, <2>2
    <3>2. t[i - 1] = s[(i - 1) + 1] /\ (i - 1) + 1 = i
      BY <3>1
    <3> QED
      BY <1>1, <3>1, <3>2
  <2> QED
    BY <2>1, <2>2
<1>3. ASSUME NEW i \in A, NEW j \in A, f[i] = f[j] PROVE i = j
  <2>1. i \in 1..n /\ j \in 1..n
    BY <1>1
  <2>2. (IF i = 1 THEN n ELSE i - 1) = IF j = 1 THEN n ELSE j - 1
    BY <1>3
  <2> HIDE DEF A, f
  <2> QED
    BY <2>1, <2>2
<1>4. f \in [A -> B]
  <2> HIDE DEF A, B
  <2> QED
    BY <1>2
<1>5. f \in Injection(A, B)
  <2> HIDE DEF A, B, f
  <2> QED
    BY <1>3, <1>4, Fun_IsInj
<1>6. IsFiniteSet(A) /\ IsFiniteSet(B)
  BY FailuresFinite
<1>7. Cardinality(A) <= Cardinality(B)
  <2> HIDE DEF A, B, f
  <2> QED
    BY <1>5, <1>6, FS_Injection
<1> QED
  BY <1>7 DEF Failures
-----------------------------------------------------------------------------
(* One more failure never takes the reason to trip away. *)
LEMMA ShouldTripStays ==
  ASSUME SiteHealthAssumption, NEW c \in Nat, NEW w \in Seq({0, 1}),
         Len(w) <= WINDOW_SIZE, ShouldTrip(c, w)
  PROVE  ShouldTrip(c + 1, LastOf(Append(w, 0), WINDOW_SIZE))
<1> DEFINE R == TRIP_RATE_WINDOW
           v == Append(w, 0)
           a == LastOf(w, R)
           b == LastOf(v, R)
<1>1. R \in Nat \ {0} /\ WINDOW_SIZE \in Nat /\ R <= WINDOW_SIZE
  BY DEF SiteHealthAssumption
<1>2. v \in Seq({0, 1}) /\ Len(v) = Len(w) + 1 /\ Len(w) \in Nat
  OBVIOUS
<1>3. LastOf(LastOf(v, WINDOW_SIZE), R) = b
  BY ZenonT(30), <1>1, <1>2, LastOfLast
<1>4. CASE c >= TRIP_CONSECUTIVE_FAILURES
  <2>1. c + 1 >= TRIP_CONSECUTIVE_FAILURES
    BY <1>4 DEF SiteHealthAssumption
  <2> QED
    BY <2>1 DEF ShouldTrip
<1>5. CASE /\ Len(a) >= TRIP_RATE_MIN_OBS
           /\ 100 * Failures(a) > TRIP_FAILURE_RATE * Len(a)
  <2>1. a \in Seq({0, 1}) /\ b \in Seq({0, 1})
    <3> HIDE DEF v, R
    <3>1. LastOf(w, R) \in Seq({0, 1})
      BY <1>1, LastOfElements
    <3>2. LastOf(v, R) \in Seq({0, 1})
      BY <1>1, <1>2, LastOfElements
    <3> QED
      BY <3>1, <3>2
  <2>2. Failures(a) \in Nat /\ Failures(b) \in Nat /\ Len(a) \in Nat
    <3> HIDE DEF a, b
    <3> QED
      BY <2>1, FailuresNat
  <2>3. TRIP_FAILURE_RATE \in 0..100 /\ TRIP_RATE_MIN_OBS \in Nat
    BY DEF SiteHealthAssumption
  <2>4. CASE Len(w) < R
    <3>1. a = w /\ b = v
      <4>1. Len(w) <= R /\ Len(v) <= R
        BY <1>1, <1>2, <2>4
      <4> QED
        BY <4>1 DEF LastOf
    <3>2. Failures(b) = Failures(a) + 1 /\ Len(b) = Len(a) + 1
      BY <1>2, <3>1, FailuresGrow
    <3>3. TRIP_FAILURE_RATE * (Len(a) + 1) = TRIP_FAILURE_RATE * Len(a) + TRIP_FAILURE_RATE
      BY <2>2, <2>3
    <3>4. TRIP_FAILURE_RATE * Len(a) \in Nat
      BY <2>2, <2>3
    <3> HIDE DEF a, b
    <3>5. Len(b) >= TRIP_RATE_MIN_OBS
      BY <1>5, <2>2, <2>3, <3>2
    <3>6. 100 * Failures(b) > TRIP_FAILURE_RATE * Len(b)
      BY <1>5, <2>2, <2>3, <3>2, <3>3, <3>4
    <3> QED
      BY <1>3, <3>5, <3>6 DEF ShouldTrip, b
  <2>5. CASE ~(Len(w) < R)
    <3>1. Least(Len(w), R) = R /\ Least(Len(w) + 1, R) = R
      BY <1>1, <1>2, <2>5 DEF Least
    <3>2. /\ Len(a) = R /\ Len(b) = R
          /\ \A i \in 1..R : a[i] = w[Len(w) - R + i]
          /\ \A i \in 1..R : b[i] = v[Len(w) + 1 - R + i]
      <4> HIDE DEF v, R
      <4>1. /\ Len(a) = Least(Len(w), R)
            /\ \A i \in 1..Least(Len(w), R) : a[i] = w[Len(w) - Least(Len(w), R) + i]
        BY ZenonT(30), <1>1, <1>2, LastOfElements
      <4>2. /\ Len(b) = Least(Len(v), R)
            /\ \A i \in 1..Least(Len(v), R) : b[i] = v[Len(v) - Least(Len(v), R) + i]
        BY ZenonT(30), <1>1, <1>2, LastOfElements
      <4>3. /\ Least(Len(v), R) = R
            /\ \A i \in 1..R : Len(v) - R + i = Len(w) + 1 - R + i
        BY <1>1, <1>2, <3>1
      <4> HIDE DEF a, b
      <4> QED
        BY <3>1, <4>1, <4>2, <4>3
    <3>3. b[R] = 0
      <4>1. R \in 1..R /\ Len(w) + 1 - R + R = Len(w) + 1
        BY <1>1, <1>2
      <4>3. b[R] = v[Len(w) + 1 - R + R]
        <5> HIDE DEF a, b, v, R
        <5> QED
          BY <3>2, <4>1
      <4>2. v[Len(w) + 1] = 0
        OBVIOUS
      <4> QED
        BY <4>1, <4>2, <4>3
    <3>4. ASSUME NEW i \in 1..(R - 1) PROVE b[i] = a[i + 1]
      <4>1. i \in 1..R /\ i + 1 \in 1..R
        BY <1>1
      <4>2. /\ Len(w) + 1 - R + i \in 1..Len(w)
            /\ Len(w) - R + (i + 1) = Len(w) + 1 - R + i
        BY <1>1, <1>2, <2>5
      <4>3. b[i] = v[Len(w) + 1 - R + i] /\ a[i + 1] = w[Len(w) - R + (i + 1)]
        BY <3>2, <4>1
      <4>4. v[Len(w) + 1 - R + i] = w[Len(w) + 1 - R + i]
        BY <4>2
      <4> QED
        BY <4>2, <4>3, <4>4
    <3>5. Failures(a) <= Failures(b)
      <4> HIDE DEF a, b, v, R
      <4> QED
        BY <1>1, <2>1, <3>2, <3>3, <3>4, FailuresShift
    <3> HIDE DEF a, b
    <3>6. 100 * Failures(b) > TRIP_FAILURE_RATE * Len(b)
      BY <1>5, <2>2, <2>3, <3>2, <3>5
    <3> QED
      BY <1>3, <1>5, <3>2, <3>6 DEF ShouldTrip, b
  <2> QED
    BY <2>4, <2>5
<1> QED
  BY <1>4, <1>5 DEF ShouldTrip
-----------------------------------------------------------------------------
(* The window and the streak after one more observation; the rest stays.   *)
LEMMA CountedFields ==
  ASSUME SiteHealthAssumption, NEW s \in State, NEW ok \in BOOLEAN,
         Len(s.window) <= WINDOW_SIZE
  PROVE  /\ Counted(s, ok) \in State
         /\ Len(Counted(s, ok).window) <= WINDOW_SIZE
         /\ Counted(s, ok).window = LastOf(Append(s.window, IF ok THEN 1 ELSE 0), WINDOW_SIZE)
         /\ Counted(s, ok).consec = IF ok THEN 0 ELSE s.consec + 1
         /\ Counted(s, ok).openUntil = s.openUntil
         /\ Counted(s, ok).cooldown = s.cooldown
         /\ Counted(s, ok).since = s.since
         /\ Counted(s, ok).count = s.count + 1
<1>1. s.window \in Seq({0, 1}) /\ WINDOW_SIZE \in Nat \ {0}
  BY DEF State, SiteHealthAssumption
<1> DEFINE w == LastOf(Append(s.window, IF ok THEN 1 ELSE 0), WINDOW_SIZE)
<1>2. w \in Seq({0, 1}) /\ Len(w) = Least(Len(s.window) + 1, WINDOW_SIZE)
  BY <1>1, WindowMoves
<1>3. Len(w) <= WINDOW_SIZE
  <2> HIDE DEF w
  <2> QED
    BY <1>1, <1>2 DEF Least
<1>4. PICK c \in Nat : c = IF ok THEN 0 ELSE s.consec + 1
  BY DEF State
<1>6. Counted(s, ok) = [s EXCEPT !.window = w, !.consec = c, !.count = @ + 1]
  BY <1>4 DEF Counted
<1> HIDE DEF w
<1>7. Counted(s, ok) \in State
  <2>1. Counted(s, ok) = [window |-> w, consec |-> c, openUntil |-> s.openUntil,
                          cooldown |-> s.cooldown, since |-> s.since,
                          count |-> s.count + 1]
    BY <1>6 DEF State
  <2>2. /\ s.openUntil \in Nat /\ s.cooldown \in Nat /\ s.since \in Nat
        /\ s.count + 1 \in Nat
    BY DEF State
  <2> QED
    BY <1>2, <2>1, <2>2 DEF State
<1>5. /\ Counted(s, ok).window = w
      /\ Counted(s, ok).consec = c
      /\ Counted(s, ok).openUntil = s.openUntil
      /\ Counted(s, ok).cooldown = s.cooldown
      /\ Counted(s, ok).since = s.since
      /\ Counted(s, ok).count = s.count + 1
  BY <1>6 DEF State
<1> QED
  BY <1>3, <1>4, <1>5, <1>7 DEF w

(* The streak goes on with a failure: in a growing window, in a full one   *)
(* and when the whole window is failures.                                  *)
LEMMA StreakFails ==
  ASSUME SiteHealthAssumption, NEW s \in State, Len(s.window) <= WINDOW_SIZE,
         Streak(s)
  PROVE  Streak(Counted(s, FALSE))
<1>1. PICK w \in Seq({0, 1}) : w = s.window
  BY DEF State
<1>2. PICK c \in Nat : c = s.consec
  BY DEF State
<1>3. PICK v \in Seq({0, 1}) : v = Append(w, 0)
  <2>1. Append(w, 0) \in Seq({0, 1})
    OBVIOUS
  <2> QED
    BY <2>1, Zenon
<1>4. PICK x \in Seq({0, 1}) : x = Counted(s, FALSE).window
  BY CountedFields DEF State
<1>5. PICK n \in Nat : n = Len(w)
  OBVIOUS
<1>6. WINDOW_SIZE \in Nat \ {0} /\ n <= WINDOW_SIZE
  BY <1>1, <1>5 DEF SiteHealthAssumption
<1>7. PICK p \in Nat : p = Least(n + 1, WINDOW_SIZE)
  BY <1>6 DEF Least
<1>8. PICK k \in Nat : k = Least(c, n)
  BY DEF Least
<1>9. PICK q \in Nat : q = Least(c + 1, p)
  BY DEF Least
<1>10. x = LastOf(v, WINDOW_SIZE) /\ Counted(s, FALSE).consec = c + 1
  BY <1>1, <1>2, <1>3, <1>4, CountedFields
<1>11. /\ Len(x) = p
       /\ \A i \in 1..p : x[i] = v[n + 1 - p + i]
  <2>1. Len(v) = n + 1
    BY <1>3, <1>5
  <2>2. /\ Len(x) = Least(Len(v), WINDOW_SIZE)
        /\ \A i \in 1..Least(Len(v), WINDOW_SIZE) :
             x[i] = v[Len(v) - Least(Len(v), WINDOW_SIZE) + i]
    BY ZenonT(30), <1>6, <1>10, LastOfElements
  <2>3. Least(Len(v), WINDOW_SIZE) = p
    BY <1>7, <2>1
  <2>4. Len(x) = p /\ \A i \in 1..p : x[i] = v[Len(v) - p + i]
    BY <2>2, <2>3
  <2>5. ASSUME NEW i \in 1..p PROVE x[i] = v[n + 1 - p + i]
    <3>1. x[i] = v[Len(v) - p + i]
      BY <2>4
    <3> QED
      BY <2>1, <3>1
  <2> QED
    BY <2>4, <2>5
<1>12. p = n + 1 \/ p = n
  BY <1>6, <1>7 DEF Least
<1>15. v[n + 1] = 0 /\ \A i \in 1..n : v[i] = w[i]
  BY <1>3, <1>5
<1>16. /\ \A i \in (n - k + 1)..n : w[i] = 0
       /\ k < n => w[n - k] = 1
  BY <1>1, <1>2, <1>5, <1>8 DEF Streak
<1>17. k \in 0..n /\ q \in 0..p /\ n + 1 - q >= n - k
  BY <1>8, <1>9, <1>12 DEF Least
<1>18. ASSUME NEW i \in (p - q + 1)..p PROVE x[i] = 0
  <2>1. PICK j \in Int : j = n + 1 - p + i
    BY <1>18
  <2>2. i \in 1..p /\ j \in (n - k + 1)..(n + 1)
    BY <1>12, <1>17, <1>18, <2>1
  <2>3. x[i] = v[j]
    BY <1>11, <2>1, <2>2
  <2>4. CASE j = n + 1
    BY <1>15, <2>3, <2>4
  <2>5. CASE j # n + 1
    <3>1. j \in (n - k + 1)..n /\ j \in 1..n
      BY <1>17, <2>2, <2>5
    <3> QED
      BY <1>15, <1>16, <2>3, <3>1
  <2> QED
    BY <2>4, <2>5
<1>19. ASSUME q < p PROVE x[p - q] = 1
  <2>1. /\ k < n /\ p - q \in 1..p /\ n + 1 - p + (p - q) = n - k
        /\ n - k \in 1..n
    BY <1>8, <1>9, <1>12, <1>17, <1>19 DEF Least
  <2>2. x[p - q] = v[n - k]
    BY <1>11, <2>1
  <2> QED
    BY <1>15, <1>16, <2>1, <2>2
<1> QED
  BY <1>4, <1>9, <1>10, <1>11, <1>18, <1>19 DEF Streak

(* A success ends the streak and closes the circuit. *)
LEMMA SucceedSound ==
  ASSUME SiteHealthAssumption, NEW t \in Nat \ {0}, NEW s, Sound(s, t)
  PROVE  Sound(Succeed(s), t)
<1> DEFINE d == Counted(s, TRUE)
           e == Succeed(s)
<1>1. s \in State /\ Len(s.window) <= WINDOW_SIZE
  BY DEF Sound
<1>2. /\ d \in State /\ Len(d.window) <= WINDOW_SIZE /\ d.consec = 0
      /\ d.window = LastOf(Append(s.window, 1), WINDOW_SIZE)
  BY <1>1, CountedFields
<1>3. /\ e = [d EXCEPT !.openUntil = Never, !.since = Never, !.cooldown = BASE_COOLDOWN]
      /\ BASE_COOLDOWN \in Nat \ {0} /\ MAX_COOLDOWN \in Nat
      /\ BASE_COOLDOWN < MAX_COOLDOWN
  BY DEF Succeed, SiteHealthAssumption
<1> HIDE DEF d, e
<1>4. /\ e \in State /\ e.window = d.window /\ e.consec = 0 /\ e.openUntil = Never
      /\ e.since = Never /\ e.cooldown = BASE_COOLDOWN
  BY <1>2, <1>3 DEF State, Never
<1>5. Ladder(e) /\ Climb(e) /\ Benched(e, t) /\ Reason(e)
  BY <1>3, <1>4 DEF Ladder, Climb, Benched, Reason, Never
<1>6. Streak(e)
  <2>1. PICK w \in Seq({0, 1}) : w = s.window
    BY <1>1 DEF State
  <2>2. PICK v \in Seq({0, 1}) : v = Append(w, 1)
    <3>1. Append(w, 1) \in Seq({0, 1})
      OBVIOUS
    <3> QED
      BY <3>1, Zenon
  <2>3. PICK x \in Seq({0, 1}) : x = d.window
    BY <1>2 DEF State
  <2>4. WINDOW_SIZE \in Nat \ {0} /\ Len(w) <= WINDOW_SIZE /\ Len(w) \in Nat
    BY <1>1, <2>1 DEF SiteHealthAssumption
  <2>5. PICK p \in Nat \ {0} : p = Least(Len(w) + 1, WINDOW_SIZE)
    BY <2>4 DEF Least
  <2>6. Len(x) = p /\ \A i \in 1..p : x[i] = v[Len(w) + 1 - p + i]
    <3>1. Len(v) = Len(w) + 1
      BY <2>2
    <3>2. /\ Len(x) = Least(Len(v), WINDOW_SIZE)
          /\ \A i \in 1..Least(Len(v), WINDOW_SIZE) :
               x[i] = v[Len(v) - Least(Len(v), WINDOW_SIZE) + i]
      <4>1. x = LastOf(v, WINDOW_SIZE)
        BY <1>2, <2>1, <2>2, <2>3
      <4> QED
        BY ZenonT(30), <2>4, <4>1, LastOfElements
    <3>3. Least(Len(v), WINDOW_SIZE) = p
      BY <2>5, <3>1
    <3>4. Len(x) = p /\ \A i \in 1..p : x[i] = v[Len(v) - p + i]
      BY <3>2, <3>3
    <3> QED
      BY <3>1, <3>4
  <2>7. p \in 1..p /\ Len(w) + 1 - p + p = Len(w) + 1 /\ v[Len(w) + 1] = 1
    BY <2>2, <2>4
  <2>8. x[p] = 1
    BY <2>6, <2>7
  <2>9. Least(0, p) = 0 /\ p - 0 = p /\ \A i \in (p - 0 + 1)..p : FALSE
    BY DEF Least
  <2>10. Len(e.window) = p /\ e.window[p] = 1 /\ e.consec = 0
    BY <1>4, <2>3, <2>6, <2>8
  <2> QED
    BY <2>9, <2>10 DEF Streak
<1>7. Sound(e, t)
  BY <1>2, <1>4, <1>5, <1>6 DEF Sound
<1> QED
  BY <1>7 DEF e

(* A failure that trips starts from a circuit that is closed or whose      *)
(* cooldown is over, which is why the ladder is climbed by serving time.   *)
LEMMA TrippedSound ==
  ASSUME SiteHealthAssumption, NEW t \in Nat \ {0}, NEW ts \in 1..t,
         NEW s \in State, Len(s.window) <= WINDOW_SIZE,
         Ladder(s), Climb(s), Streak(s),
         ~OpenAt(s, ts), ShouldTrip(s.consec, s.window)
  PROVE  Sound(Tripped(s, ts), t)
<1>1. /\ BASE_COOLDOWN \in Nat \ {0} /\ MAX_COOLDOWN \in Nat
      /\ BASE_COOLDOWN < MAX_COOLDOWN
  BY DEF SiteHealthAssumption
<1>2. PICK c \in Nat : c = s.cooldown
  BY DEF State
<1>3. PICK d \in Nat : d = Least(2 * c, MAX_COOLDOWN)
  BY <1>1 DEF Least
<1>4. PICK u \in Nat : u = IF s.since = 0 THEN ts ELSE s.since
  BY DEF State
<1>5. PICK e : e = Tripped(s, ts)
  OBVIOUS
<1>6. /\ s.openUntil \in Nat /\ s.since \in Nat /\ s.openUntil <= ts
      /\ c >= BASE_COOLDOWN /\ c <= MAX_COOLDOWN
      /\ s.openUntil = 0 <=> c = BASE_COOLDOWN
      /\ s.openUntil = 0 <=> s.since = 0
      /\ s.since # 0 => s.openUntil + BASE_COOLDOWN >= s.since + c
  BY <1>2 DEF State, OpenAt, Ladder, Climb, Never
<1>7. ts \in Nat /\ ts > 0 /\ ts <= t /\ u > 0
  BY <1>4, <1>6
<1>8. d > BASE_COOLDOWN /\ d <= MAX_COOLDOWN /\ d <= 2 * c
  BY <1>1, <1>3, <1>6 DEF Least
<1>9. ts + c + BASE_COOLDOWN >= u + d
  <2>1. CASE s.since = 0
    BY <1>1, <1>4, <1>6, <1>7, <1>8, <2>1
  <2>2. CASE s.since # 0
    BY SMTT(30), <1>1, <1>4, <1>6, <1>7, <1>8, <2>2
  <2> QED
    BY <2>1, <2>2
<1>10. e = [s EXCEPT !.openUntil = ts + c, !.cooldown = d, !.since = u]
  BY <1>2, <1>3, <1>4, <1>5 DEF Tripped, NextCooldown, Never
<1>11. /\ e \in State
       /\ e.window = s.window /\ e.consec = s.consec
       /\ e.openUntil = ts + c /\ e.cooldown = d /\ e.since = u
  <2>1. ts + c \in Nat
    BY <1>7
  <2>2. e = [window |-> s.window, consec |-> s.consec, openUntil |-> ts + c,
             cooldown |-> d, since |-> u, count |-> s.count]
    BY <1>10 DEF State
  <2>3. s.window \in Seq({0, 1}) /\ s.consec \in Nat /\ s.count \in Nat
    BY DEF State
  <2> QED
    BY <2>1, <2>2, <2>3 DEF State
<1>12. Ladder(e)
  <2>1. ts + c # 0 /\ u # 0 /\ d # BASE_COOLDOWN /\ d \in BASE_COOLDOWN..MAX_COOLDOWN
    BY <1>1, <1>7, <1>8
  <2> QED
    BY <1>11, <2>1 DEF Ladder, Never
<1>13. Climb(e) /\ Benched(e, t)
  <2>1. ts + c <= t + MAX_COOLDOWN
    BY <1>1, <1>6, <1>7
  <2> QED
    BY <1>9, <1>11, <2>1 DEF Climb, Benched
<1>14. Reason(e) /\ Streak(e)
  BY <1>11 DEF Reason, Streak
<1> QED
  BY <1>5, <1>11, <1>12, <1>13, <1>14 DEF Sound

(* A failure counts always, and trips or changes nothing else.             *)
LEMMA FailSound ==
  ASSUME SiteHealthAssumption, NEW t \in Nat \ {0}, NEW ts \in 1..t,
         NEW s, Sound(s, t)
  PROVE  Sound(Fail(s, ts), t)
<1> DEFINE d == Counted(s, FALSE)
<1>1. /\ s \in State /\ Len(s.window) <= WINDOW_SIZE /\ Ladder(s) /\ Climb(s)
      /\ Benched(s, t) /\ Reason(s) /\ Streak(s)
  BY DEF Sound
<1>2. /\ d \in State /\ Len(d.window) <= WINDOW_SIZE
      /\ d.window = LastOf(Append(s.window, 0), WINDOW_SIZE)
      /\ d.consec = s.consec + 1 /\ d.openUntil = s.openUntil
      /\ d.cooldown = s.cooldown /\ d.since = s.since
  BY <1>1, CountedFields
<1>3. Streak(d)
  BY <1>1, StreakFails
<1> HIDE DEF d
<1>4. Ladder(d) /\ Climb(d) /\ Benched(d, t)
  BY <1>1, <1>2 DEF Ladder, Climb, Benched
<1>5. Reason(d)
  <2>1. s.consec \in Nat /\ s.window \in Seq({0, 1})
    BY <1>1 DEF State
  <2> QED
    BY <1>1, <1>2, <2>1, ShouldTripStays DEF Reason
<1>6. CASE ~OpenAt(s, ts) /\ ShouldTrip(d.consec, d.window)
  <2>1. ~OpenAt(d, ts)
    BY <1>2, <1>6 DEF OpenAt
  <2>2. Sound(Tripped(d, ts), t)
    BY <1>2, <1>3, <1>4, <1>6, <2>1, TrippedSound
  <2> QED
    BY <1>6, <2>2 DEF Fail, d
<1>7. CASE ~(~OpenAt(s, ts) /\ ShouldTrip(d.consec, d.window))
  <2>1. Sound(d, t)
    BY <1>2, <1>3, <1>4, <1>5 DEF Sound
  <2> QED
    BY <1>7, <2>1 DEF Fail, d
<1> QED
  BY <1>6, <1>7

LEMMA ApplySound ==
  ASSUME SiteHealthAssumption, NEW t \in Nat \ {0}, NEW obs \in Observation(t),
         NEW s, Sound(s, t)
  PROVE  Sound(Apply(s, obs), t)
<1>1. obs.ok \in BOOLEAN /\ obs.ts \in 1..t
  BY DEF Observation
<1> QED
  BY <1>1, SucceedSound, FailSound DEF Apply

LEMMA BlankSound ==
  ASSUME SiteHealthAssumption, NEW t \in Nat \ {0}
  PROVE  Sound(BlankState, t)
<1>1. /\ BASE_COOLDOWN \in Nat \ {0} /\ MAX_COOLDOWN \in Nat
      /\ BASE_COOLDOWN < MAX_COOLDOWN /\ WINDOW_SIZE \in Nat
  BY DEF SiteHealthAssumption
<1>2. BlankState \in State /\ Len(BlankState.window) = 0
  BY <1>1 DEF BlankState, State, Never
<1>3. /\ Ladder(BlankState) /\ Climb(BlankState) /\ Benched(BlankState, t)
      /\ Reason(BlankState)
  BY <1>1 DEF BlankState, Ladder, Climb, Benched, Reason, Never
<1>4. Streak(BlankState)
  BY DEF BlankState, Streak, Least
<1> QED
  BY <1>1, <1>2, <1>3, <1>4 DEF Sound
-----------------------------------------------------------------------------
LEMMA SimpleStep == IInv /\ [Next]_vars => Simple'
<1> SUFFICES ASSUME IInv, [Next]_vars PROVE Simple'
  OBVIOUS
<1> USE DEF IInv, Simple
<1>1. ASSUME Tick PROVE Simple'
  BY <1>1 DEF Tick, runVars
<1>2. ASSUME NEW r \in Run, StartRun(r) PROVE Simple'
  BY <1>2 DEF StartRun
<1>3. ASSUME NEW r \in Run, NEW ok \in BOOLEAN, Observe(r, ok) PROVE Simple'
  BY <1>3 DEF Observe
<1>4. ASSUME NEW r \in Run, FinishEmpty(r) PROVE Simple'
  BY <1>4 DEF FinishEmpty, EndRun
<1>5. ASSUME NEW r \in Run, LoadState(r) PROVE Simple'
  BY <1>5 DEF LoadState
<1>6. ASSUME NEW r \in Run, FoldObservation(r) PROVE Simple'
  BY <1>6 DEF FoldObservation
<1>7. ASSUME NEW r \in Run, WriteState(r) PROVE Simple'
  BY <1>7 DEF WriteState, EndRun
<1>8. ASSUME NEW r \in Run, RunLost(r) PROVE Simple'
  BY <1>8 DEF RunLost, EndRun
<1>9. CASE UNCHANGED vars
  BY <1>9 DEF vars, runVars
<1> QED
  BY <1>1, <1>2, <1>3, <1>4, <1>5, <1>6, <1>7, <1>8, <1>9 DEF Next, RunStep

LEMMA DatedStep == IInv /\ [Next]_vars => Dated'
<1> SUFFICES ASSUME IInv, [Next]_vars PROVE Dated'
  OBVIOUS
<1> USE DEF IInv, Dated
<1>0. now \in Nat \ {0} /\ \A r \in Run : buffer[r] \in Seq(Observation(now))
  BY DEF Simple
<1>1. ASSUME Tick PROVE Dated'
  <2>1. Observation(now) \subseteq Observation(now')
    BY <1>0, <1>1 DEF Tick, Observation
  <2>2. \A r \in Run : buffer[r] \in Seq(Observation(now'))
    BY <1>0, <2>1, SeqMonotonic
  <2> QED
    BY <1>1, <2>2 DEF Tick, runVars
<1>2. ASSUME NEW r \in Run, NEW ok \in BOOLEAN, Observe(r, ok) PROVE Dated'
  <2>1. [ok |-> ok, ts |-> now] \in Observation(now)
    BY <1>0 DEF Observation
  <2>2. Append(buffer[r], [ok |-> ok, ts |-> now]) \in Seq(Observation(now))
    BY <1>0, <2>1, AppendProperties
  <2> QED
    BY <1>2, <2>2 DEF Observe
<1>3. ASSUME NEW r \in Run, EndRun(r) PROVE Dated'
  <2>1. <<>> \in Seq(Observation(now))
    BY EmptySeq
  <2> QED
    BY <1>3, <2>1 DEF EndRun
<1>4. ASSUME NEW r \in Run, FoldObservation(r) PROVE Dated'
  <2>1. Tail(buffer[r]) \in Seq(Observation(now))
    BY <1>0, <1>4, HeadTailProperties DEF FoldObservation
  <2> QED
    BY <1>4, <2>1 DEF FoldObservation
<1>5. ASSUME NEW r \in Run, StartRun(r) \/ LoadState(r) PROVE Dated'
  BY <1>5 DEF StartRun, LoadState
<1>6. CASE UNCHANGED vars
  BY <1>6 DEF vars, runVars
<1> QED
  BY <1>1, <1>2, <1>3, <1>4, <1>5, <1>6 DEF Next, RunStep, FinishEmpty, WriteState, RunLost

LEMMA SoundLater ==
  ASSUME NEW t \in Nat, SiteHealthAssumption, NEW s, Sound(s, t)
  PROVE  Sound(s, t + 1)
<1>1. s.openUntil \in Nat /\ MAX_COOLDOWN \in Nat
  BY DEF Sound, State, SiteHealthAssumption
<1>2. Benched(s, t + 1)
  BY <1>1 DEF Sound, Benched
<1> QED
  BY <1>2 DEF Sound

LEMMA SoundStep == SiteHealthAssumption /\ IInv /\ [Next]_vars => AllSound'
<1> SUFFICES ASSUME SiteHealthAssumption, IInv, [Next]_vars PROVE AllSound'
  OBVIOUS
<1> USE DEF IInv, AllSound
<1>0. now \in Nat \ {0}
  BY DEF Simple
<1>1. ASSUME Tick PROVE AllSound'
  <2>1. /\ now' = now + 1 /\ health' = health /\ loaded' = loaded
    BY <1>1 DEF Tick, runVars
  <2>2. Sound(health, now') /\ \A r \in Run : Sound(loaded[r], now')
    BY <1>0, <2>1, SoundLater
  <2> QED
    BY <2>1, <2>2
<1>2. ASSUME NEW r \in Run, EndRun(r), health' = health \/ health' = loaded[r]
      PROVE  AllSound'
  <2>1. Sound(BlankState, now) /\ BlankState \in State
    BY <1>0, BlankSound DEF Sound
  <2>2. now' = now /\ loaded' = [loaded EXCEPT ![r] = BlankState]
    BY <1>2 DEF EndRun
  <2> QED
    BY <1>2, <2>1, <2>2
<1>3. ASSUME NEW r \in Run, LoadState(r) PROVE AllSound'
  <2>1. health \in State
    BY DEF Sound
  <2> QED
    BY <1>3, <2>1 DEF LoadState
<1>4. ASSUME NEW r \in Run, FoldObservation(r) PROVE AllSound'
  <2>1. buffer[r] \in Seq(Observation(now)) /\ buffer[r] # <<>>
    BY <1>4 DEF Dated, FoldObservation
  <2>2. Head(buffer[r]) \in Observation(now)
    BY <2>1, HeadTailProperties
  <2> DEFINE e == Apply(loaded[r], Head(buffer[r]))
  <2>3. Sound(e, now)
    BY <1>0, <2>2, ApplySound
  <2>4. e \in State
    BY <2>3 DEF Sound
  <2>5. /\ loaded' = [loaded EXCEPT ![r] = e]
        /\ health' = health /\ now' = now
    BY <1>4 DEF FoldObservation
  <2> HIDE DEF e
  <2> QED
    BY <2>3, <2>4, <2>5
<1>5. ASSUME NEW r \in Run, StartRun(r) \/ \E ok \in BOOLEAN : Observe(r, ok)
      PROVE  AllSound'
  BY <1>5 DEF StartRun, Observe
<1>6. CASE UNCHANGED vars
  BY <1>6 DEF vars, runVars
<1> QED
  BY <1>1, <1>2, <1>3, <1>4, <1>5, <1>6 DEF Next, RunStep, FinishEmpty, WriteState, RunLost

LEMMA InvStarts == SiteHealthAssumption /\ Init => IInv
<1> SUFFICES ASSUME SiteHealthAssumption, Init PROVE IInv
  OBVIOUS
<1>1. Sound(BlankState, 1) /\ BlankState \in State
  BY BlankSound DEF Sound
<1>2. Simple
  BY DEF Init, Simple
<1>3. Dated
  <2>1. <<>> \in Seq(Observation(now))
    BY EmptySeq
  <2> QED
    BY <2>1 DEF Init, Dated
<1> QED
  BY <1>1, <1>2, <1>3 DEF Init, IInv, AllSound

(* Every state of the row and of the runs folding into it is sound, and    *)
(* observations are dated in the past, for any number of runs.             *)
THEOREM Inductive == Spec => []IInv
<1>1. Init => IInv
  BY SiteHealthAssumption, InvStarts
<1>2. IInv /\ [Next]_vars => IInv'
  BY SiteHealthAssumption, SimpleStep, DatedStep, SoundStep DEF IInv
<1> QED
  BY <1>1, <1>2, PTL DEF Spec

(* record_batch keeps the types of the row and trims its window. *)
THEOREM TypeCorrect == Spec => []TypeOK
<1>1. IInv => TypeOK
  <2> SUFFICES ASSUME IInv PROVE TypeOK
    OBVIOUS
  <2>1. now \in Nat /\ Observation(now) \subseteq [ok: BOOLEAN, ts: Nat]
    BY DEF IInv, Simple, Observation
  <2>2. \A r \in Run : buffer[r] \in Seq([ok: BOOLEAN, ts: Nat])
    BY ZenonT(30), <2>1, SeqMonotonic DEF IInv, Dated
  <2>3. buffer \in [Run -> Seq([ok: BOOLEAN, ts: Nat])]
    BY <2>2 DEF IInv, Dated
  <2>4. \A s \in States : Len(s.window) <= WINDOW_SIZE
    BY DEF IInv, AllSound, Sound, States
  <2> QED
    BY <2>3, <2>4 DEF IInv, Simple, AllSound, Sound, TypeOK
<1> QED
  BY <1>1, Inductive, PTL

(* A tripped circuit can always trip again (SiteHealthStore._apply). *)
THEOREM Retrips == Spec => []TrippedForReason
<1>1. IInv => TrippedForReason
  BY DEF IInv, AllSound, Sound, States, TrippedForReason
<1> QED
  BY <1>1, Inductive, PTL

(* The cooldown ladder is off its bottom exactly while the circuit is      *)
(* tripped.                                                                *)
THEOREM LadderCorrect == Spec => []LadderFollowsCircuit
<1>1. IInv => LadderFollowsCircuit
  BY DEF IInv, AllSound, Sound, States, LadderFollowsCircuit
<1> QED
  BY <1>1, Inductive, PTL

(* A long cooldown is earned by time on the bench, in whatever order runs  *)
(* fold their observations.                                                *)
THEOREM ClimbCorrect == Spec => []ClimbTakesTime
<1>1. IInv => ClimbTakesTime
  BY DEF IInv, AllSound, Sound, States, ClimbTakesTime
<1> QED
  BY <1>1, Inductive, PTL

(* No site is benched further ahead than MAX_COOLDOWN_S. *)
THEOREM BenchCorrect == Spec => []BenchBounded
<1>1. IInv => BenchBounded
  BY DEF IInv, AllSound, Sound, States, BenchBounded
<1> QED
  BY <1>1, Inductive, PTL

(* consecutive_failures and the window agree. *)
THEOREM StreakCorrect == Spec => []ConsecutiveMatchesWindow
<1>1. IInv => ConsecutiveMatchesWindow
  BY DEF IInv, AllSound, Sound, States, ConsecutiveMatchesWindow
<1> QED
  BY <1>1, Inductive, PTL

-----------------------------------------------------------------------------
LEMMA ApplyCounts ==
  ASSUME SiteHealthAssumption, NEW s \in State, NEW obs, Len(s.window) <= WINDOW_SIZE
  PROVE  Apply(s, obs).count = s.count + 1
<1>1. Succeed(s).count = s.count + 1
  <2>1. PICK c \in State : c = Counted(s, TRUE) /\ c.count = s.count + 1
    BY CountedFields
  <2>2. [c EXCEPT !.openUntil = Never, !.since = Never, !.cooldown = BASE_COOLDOWN].count
          = s.count + 1
    BY <2>1 DEF State
  <2> QED
    BY <2>1, <2>2 DEF Succeed
<1>2. Fail(s, obs.ts).count = s.count + 1
  <2>1. PICK c \in State : c = Counted(s, FALSE) /\ c.count = s.count + 1
    BY CountedFields
  <2>2. Tripped(c, obs.ts).count = s.count + 1
    BY <2>1 DEF State, Tripped
  <2> QED
    BY <2>1, <2>2 DEF Fail
<1> QED
  BY <1>1, <1>2 DEF Apply

(* The run that reads the row under the write lock is the only writer      *)
(* until it commits, so its fold stays ahead of the row by what it folded. *)
LEMMA AheadStep ==
  ASSUME SiteHealthAssumption, IInv, Ahead, [Next]_vars
  PROVE  Ahead'
<1> USE DEF Ahead, LockHolds
<1>0. /\ \A q \in Run : /\ loaded[q] \in State /\ Len(loaded[q].window) <= WINDOW_SIZE
                       /\ folded[q] \in Nat /\ q # Nobody
      /\ health \in State /\ health.count \in Nat
      /\ DOMAIN phase = Run /\ DOMAIN loaded = Run /\ DOMAIN folded = Run
  BY DEF IInv, AllSound, Sound, Simple, SiteHealthAssumption, State
<1>1. ASSUME NEW r \in Run, StartRun(r) PROVE Ahead'
  BY <1>0, <1>1 DEF StartRun
<1>2. ASSUME NEW r \in Run, EndRun(r), health' = health \/ WriteState(r) PROVE Ahead'
  BY <1>0, <1>2 DEF EndRun, WriteState
<1>3. ASSUME NEW r \in Run, LoadState(r) PROVE Ahead'
  <2>1. folded[r] = 0
    BY <1>3 DEF LoadState
  <2> QED
    BY <1>0, <1>3, <2>1 DEF LoadState
<1>4. ASSUME NEW r \in Run, FoldObservation(r) PROVE Ahead'
  <2> DEFINE e == Apply(loaded[r], Head(buffer[r]))
  <2>1. e.count = loaded[r].count + 1
    BY <1>0, ApplyCounts
  <2>2. loaded[r].count \in Nat /\ folded[r] \in Nat /\ health.count \in Nat
    BY <1>0 DEF State
  <2>3. /\ loaded' = [loaded EXCEPT ![r] = e] /\ folded' = [folded EXCEPT ![r] = @ + 1]
        /\ phase[r] = "folding" /\ UNCHANGED <<phase, health, lock>>
    BY <1>4 DEF FoldObservation
  <2> HIDE DEF e
  <2>4. /\ loaded'[r].count = loaded[r].count + 1 /\ folded'[r] = folded[r] + 1
        /\ \A q \in Run \ {r} : loaded'[q] = loaded[q] /\ folded'[q] = folded[q]
    BY <1>0, <2>1, <2>3
  <2>5. \A q \in Run : phase'[q] # "folding" => folded'[q] = 0
    BY <2>3, <2>4
  <2>6. ASSUME NEW q \in Run \ KeyFirst, phase'[q] = "folding" PROVE LockHolds(q)'
    <3>1. lock = q /\ loaded[q].count = health.count + folded[q]
      BY <2>3, <2>6
    <3>2. loaded'[q].count = health.count + folded'[q]
      BY <2>2, <2>4, <3>1
    <3> QED
      BY <2>3, <3>1, <3>2
  <2> QED
    BY <2>5, <2>6
<1>5. CASE Tick \/ UNCHANGED vars \/ \E r \in Run, ok \in BOOLEAN : Observe(r, ok)
  BY <1>5 DEF Tick, Observe, vars, runVars
<1> QED
  BY <1>1, <1>2, <1>3, <1>4, <1>5 DEF Next, RunStep, FinishEmpty, WriteState, RunLost

LEMMA LockedCommit ==
  ASSUME SiteHealthAssumption, IInv, Ahead, [Next]_vars, CommitsLocked
  PROVE  GrowsByCommitted
<1>1. PICK r \in Run \ KeyFirst : phase'[r] # phase[r]
  BY DEF CommitsLocked
<1>2. committed' # committed
  BY DEF CommitsLocked
<1>3. PICK q \in Run : WriteState(q)
  BY <1>2 DEF Next, RunStep, Tick, runVars, StartRun, Observe, FinishEmpty, LoadState,
              FoldObservation, RunLost, vars
<1>4. q = r
  BY <1>1, <1>3 DEF WriteState, EndRun, IInv, Simple
<1>5. LockHolds(r)
  BY <1>3, <1>4 DEF Ahead, WriteState
<1>6. health.count \in Nat /\ folded[r] \in Nat /\ committed \in Nat
  BY DEF IInv, Simple, AllSound, Sound, State
<1>7. health'.count = health.count + folded[r] /\ committed' = committed + folded[r]
  BY <1>3, <1>4, <1>5 DEF WriteState, LockHolds
<1> QED
  BY <1>6, <1>7 DEF GrowsByCommitted

(* record_batch under the write lock: "free of the lost-update race".      *)
THEOREM LockedFoldCorrect == Spec => LockedFoldKeepsAll
<1>1. Init => Ahead
  BY DEF Init, Ahead, LockHolds, SiteHealthAssumption
<1>2. IInv /\ Ahead /\ [Next]_vars => Ahead'
  BY SiteHealthAssumption, AheadStep
<1>3. IInv /\ Ahead /\ [Next]_vars => [CommitsLocked => GrowsByCommitted]_vars
  BY SiteHealthAssumption, LockedCommit
<1> QED
  BY <1>1, <1>2, <1>3, Inductive, PTL DEF Spec, LockedFoldKeepsAll
=============================================================================
