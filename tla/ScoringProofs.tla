----------------------------- MODULE ScoringProofs -----------------------------
(***************************************************************************)
(* For all weights and limits: the combined score stays within its bounds, *)
(* no analyzer's score can lower it, and a download that is skipped would  *)
(* not have changed the verdict.  For all counts: what an analyzer makes   *)
(* of them is a score, and folds over sets are sums.                       *)
(***************************************************************************)
EXTENDS Scoring, ContentScores, FiniteSetTheorems, TLAPS

Score == 0 .. Ceiling

\* What from_config() takes from settings that are numbers and not negative.
IsSettings(s) ==
  /\ s.weight \in [Parts -> Nat] /\ s.others \in 0 .. 100
  /\ s.monitor \in Nat /\ s.soft \in Nat /\ s.block \in Nat

\* Every part's score in p is at most its score in q.
Below(p, q) == \A x \in Parts : p[x] <= q[x]

DownloadType == [scene : Score, audio : Score, thumbnail : Score]

-----------------------------------------------------------------------------
(* Arithmetic, on numbers with a name. *)

\* The scores are numbers between the least and the greatest one.
LEMMA ScoresAreNumbers ==
  /\ 0 \in Score /\ Ceiling \in Score
  /\ \A x \in Score : x \in Nat /\ 0 <= x /\ x <= Ceiling
  BY SMT DEF Score, Ceiling

\* A weight keeps the order of two scores.
LEMMA WeightKeepsOrder ==
  ASSUME NEW w \in Nat, NEW a \in Nat, NEW b \in Nat, a <= b
  PROVE  w * a \in Nat /\ w * b \in Nat /\ w * a <= w * b
  BY SMT

\* Clamping stays within its bounds and keeps the order.
LEMMA ClampedGrows ==
  ASSUME NEW a \in Nat, NEW b \in Nat, a <= b, NEW top \in Nat
  PROVE  /\ Clamped(a, top) \in 0 .. top /\ Clamped(b, top) \in 0 .. top
         /\ Clamped(a, top) <= Clamped(b, top)
  BY SMT DEF Clamped

\* So does rounding to hundredths.
LEMMA RoundedGrows ==
  ASSUME NEW a \in Nat, NEW b \in Nat, a <= b, b <= Ceiling * 10000
  PROVE  Rounded(a) \in Score /\ Rounded(b) \in Score /\ Rounded(a) <= Rounded(b)
<1>1. Rounded(a) \in Score
  BY SMT DEF Rounded, Score, Ceiling
<1>2. Rounded(b) \in Score
  BY SMT DEF Rounded, Score, Ceiling
<1>3. Rounded(a) <= Rounded(b)
  BY SMT DEF Rounded
<1> QED
  BY <1>1, <1>2, <1>3

\* Rounding can lift a score that is below a limit up to it, never beyond.
LEMMA RoundingStops ==
  ASSUME NEW x \in Nat, NEW m \in Nat, x < m * 10000
  PROVE  Rounded(x) <= m
  BY SMT DEF Rounded

-----------------------------------------------------------------------------
\* The weighted sum is a number and grows with each part.
LEMMA WeightedGrows ==
  ASSUME NEW s, s.weight \in [Parts -> Nat],
         NEW p \in [Parts -> Score], NEW q \in [Parts -> Score], Below(p, q)
  PROVE  Weighted(s, p) \in Nat /\ Weighted(s, q) \in Nat /\ Weighted(s, p) <= Weighted(s, q)
<1> DEFINE P(x) == s.weight[x] * p[x]
           Q(x) == s.weight[x] * q[x]
<1>1. \A x \in Parts : P(x) \in Nat /\ Q(x) \in Nat /\ P(x) <= Q(x)
  <2> SUFFICES ASSUME NEW x \in Parts
               PROVE  P(x) \in Nat /\ Q(x) \in Nat /\ P(x) <= Q(x)
    OBVIOUS
  <2>1. s.weight[x] \in Nat /\ p[x] \in Score /\ q[x] \in Score /\ p[x] <= q[x]
    BY SMT DEF Below
  <2>2. p[x] \in Nat /\ q[x] \in Nat
    BY Zenon, <2>1, ScoresAreNumbers
  <2> QED
    BY Zenon, <2>1, <2>2, WeightKeepsOrder
<1>2. /\ Weighted(s, p) = P("keyword") + P("scene") + P("audio") + P("comment")
                            + P("engagement") + P("thumbnail")
      /\ Weighted(s, q) = Q("keyword") + Q("scene") + Q("audio") + Q("comment")
                            + Q("engagement") + Q("thumbnail")
  BY Zenon DEF Weighted
<1>3. {"keyword", "scene", "audio", "comment", "engagement", "thumbnail"} \subseteq Parts
  BY SMT DEF Parts
<1> HIDE DEF P, Q
<1> QED
  BY SMT, <1>1, <1>2, <1>3

\* From a larger sum and bonus to a larger combined score.
LEMMA CombinationGrows ==
  ASSUME NEW a \in Nat, NEW b \in Nat, a <= b, NEW o \in Nat,
         NEW c \in Nat, NEW e \in Nat, c <= e
  PROVE  /\ Combination(a, o, c) \in Score /\ Combination(b, o, e) \in Score
         /\ Combination(a, o, c) <= Combination(b, o, e)
<1> DEFINE u == a * o + c * 10000
           v == b * o + e * 10000
           top == Ceiling * 10000
           x == Clamped(u, top)
           y == Clamped(v, top)
<1>1. Combination(a, o, c) = Rounded(x) /\ Combination(b, o, e) = Rounded(y)
  BY SMT DEF Combination
<1>2. u \in Nat /\ v \in Nat /\ u <= v
  BY SMT, WeightKeepsOrder
<1>3. top \in Nat
  BY SMT DEF Ceiling
<1>7. top = Ceiling * 10000
  BY SMT
<1> HIDE DEF u, v, top
<1>4. x \in 0 .. top /\ y \in 0 .. top /\ x <= y
  BY Zenon, <1>2, <1>3, ClampedGrows
<1> HIDE DEF x, y
<1>5. x \in Nat /\ y \in Nat /\ x <= y /\ y <= Ceiling * 10000
  BY SMT, <1>3, <1>4, <1>7
<1>6. Rounded(x) \in Score /\ Rounded(y) \in Score /\ Rounded(x) <= Rounded(y)
  BY SMT, <1>5, RoundedGrows
<1> QED
  BY SMT, <1>1, <1>6

\* Whatever the weights and the bonus, a combined score is 0 .. 100 points, and a part
\* or a bonus that is higher never makes it lower: no evidence against a video helps it.
THEOREM CombinedGrows ==
  ASSUME NEW s, s.weight \in [Parts -> Nat], s.others \in Nat,
         NEW c \in Nat, NEW e \in Nat, c <= e,
         NEW p \in [Parts -> Score], NEW q \in [Parts -> Score], Below(p, q)
  PROVE  /\ Combined(s, p, c) \in Score /\ Combined(s, q, e) \in Score
         /\ Combined(s, p, c) <= Combined(s, q, e)
<1>1. /\ Weighted(s, p) \in Nat /\ Weighted(s, q) \in Nat
      /\ Weighted(s, p) <= Weighted(s, q)
  BY SMT, WeightedGrows
<1> QED
  BY Zenon, <1>1, CombinationGrows DEF Combined

-----------------------------------------------------------------------------
\* A function updated at three parts, value by value.
LEMMA DownloadScores ==
  ASSUME NEW p \in [Parts -> Score], NEW d \in DownloadType
  PROVE  /\ WithDownload(p, d) \in [Parts -> Score]
         /\ \A x \in Parts :
              WithDownload(p, d)[x] = CASE x = "scene" -> d.scene
                                        [] x = "audio" -> d.audio
                                        [] x = "thumbnail" -> d.thumbnail
                                        [] OTHER -> p[x]
<1>1. d.scene \in Score /\ d.audio \in Score /\ d.thumbnail \in Score
  BY SMT DEF DownloadType
<1> QED
  BY SMT, <1>1 DEF WithDownload, Parts

\* More of each part of the download is more of the scores.
LEMMA DownloadGrows ==
  ASSUME NEW p \in [Parts -> Score], NEW d \in DownloadType, NEW e \in DownloadType,
         d.scene <= e.scene, d.audio <= e.audio, d.thumbnail <= e.thumbnail
  PROVE  Below(WithDownload(p, d), WithDownload(p, e))
<1>1. ASSUME NEW x \in Parts
      PROVE  WithDownload(p, d)[x] <= WithDownload(p, e)[x]
  <2>1. CASE x \in {"scene", "audio", "thumbnail"}
    BY SMT, <2>1, DownloadScores
  <2>2. CASE x \notin {"scene", "audio", "thumbnail"}
    <3>1. WithDownload(p, d)[x] = p[x] /\ WithDownload(p, e)[x] = p[x]
      BY SMT, <2>2, DownloadScores
    <3>2. p[x] \in Score
      BY SMT
    <3>3. p[x] \in Nat
      BY Zenon, <3>2, ScoresAreNumbers
    <3> QED
      BY SMT, <3>1, <3>3
  <2> QED
    BY Zenon, <2>1, <2>2
<1> QED
  BY Zenon, <1>1 DEF Below

WorstDownload == [scene |-> Ceiling, audio |-> Ceiling, thumbnail |-> Ceiling]

\* Nothing and the worst are downloads, and every other is in between.
LEMMA DownloadBetween ==
  ASSUME NEW p \in [Parts -> Score], NEW d \in DownloadType
  PROVE  /\ WithDownload(p, NoDownload) \in [Parts -> Score]
         /\ WithDownload(p, d) \in [Parts -> Score]
         /\ WithDownload(p, WorstDownload) \in [Parts -> Score]
         /\ Below(WithDownload(p, NoDownload), WithDownload(p, d))
         /\ Below(WithDownload(p, d), WithDownload(p, WorstDownload))
<1>1. NoDownload \in DownloadType /\ WorstDownload \in DownloadType
  BY SMT, ScoresAreNumbers DEF NoDownload, WorstDownload, DownloadType
<1>2. d.scene \in Score /\ d.audio \in Score /\ d.thumbnail \in Score
  BY SMT DEF DownloadType
<1>3. /\ NoDownload.scene <= d.scene /\ NoDownload.audio <= d.audio
      /\ NoDownload.thumbnail <= d.thumbnail
  <2>1. /\ NoDownload.scene = 0 /\ NoDownload.audio = 0 /\ NoDownload.thumbnail = 0
    BY SMT DEF NoDownload
  <2> QED
    BY Zenon, <1>2, <2>1, ScoresAreNumbers
<1>4. /\ d.scene <= WorstDownload.scene /\ d.audio <= WorstDownload.audio
      /\ d.thumbnail <= WorstDownload.thumbnail
  <2>1. /\ WorstDownload.scene = Ceiling /\ WorstDownload.audio = Ceiling
        /\ WorstDownload.thumbnail = Ceiling
    BY SMT DEF WorstDownload
  <2> QED
    BY Zenon, <1>2, <2>1, ScoresAreNumbers
<1>5. /\ WithDownload(p, NoDownload) \in [Parts -> Score]
      /\ WithDownload(p, d) \in [Parts -> Score]
      /\ WithDownload(p, WorstDownload) \in [Parts -> Score]
  BY Zenon, <1>1, DownloadScores
<1> QED
  BY Zenon, <1>1, <1>3, <1>4, <1>5, DownloadGrows

-----------------------------------------------------------------------------
\* The first condition of _can_skip_download(): when phase 1 reaches the block limit,
\* every complete analysis reaches it too.
THEOREM BlockIsCertain ==
  ASSUME NEW s, IsSettings(s), SoundLimits(s), NEW p \in [Parts -> Score], NEW c \in Nat,
         NEW d \in DownloadType, CertainBlock(s, p, c)
  PROVE  Verdict(s, Combined(s, WithDownload(p, d), c)) = "block"
<1> DEFINE none == Combined(s, WithDownload(p, NoDownload), c)
           some == Combined(s, WithDownload(p, d), c)
<1>1. none \in Score /\ some \in Score /\ none <= some
  <2>1. s.weight \in [Parts -> Nat] /\ s.others \in Nat /\ c <= c
    BY SMT DEF IsSettings
  <2> QED
    BY Zenon, <2>1, DownloadBetween, CombinedGrows
<1>2. s.block \in Nat /\ WholePoints(s.block) = s.block
  BY SMT DEF IsSettings, SoundLimits
<1>3. none >= s.block
  BY Zenon DEF CertainBlock
<1> HIDE DEF none, some
<1>4. none \in Nat /\ some \in Nat
  BY Zenon, <1>1, ScoresAreNumbers
<1>5. some >= s.block
  BY SMT, <1>1, <1>2, <1>3, <1>4
<1>6. some >= WholePoints(s.block)
  BY Zenon, <1>2, <1>5
<1>7. Verdict(s, some) = "block"
  BY Zenon, <1>6 DEF Verdict
<1> QED
  BY Zenon, <1>7 DEF some

\* The second condition: when the worst download leaves the video below the monitor
\* limit, no complete analysis lifts it over that limit; only rounding may put it there.
THEOREM AllowIsCertain ==
  ASSUME NEW s, IsSettings(s), SoundLimits(s), NEW p \in [Parts -> Score], NEW c \in Nat,
         NEW d \in DownloadType, CertainAllow(s, p, c)
  PROVE  \/ Verdict(s, Combined(s, WithDownload(p, d), c)) = "allow"
         \/ Combined(s, WithDownload(p, d), c) = s.monitor
<1> DEFINE w == Weighted(s, WithDownload(p, d))
           v == MaxPossible(s, p)
           m == s.monitor
           o == s.others
           some == Combined(s, WithDownload(p, d), c)
<1>1. s.weight \in [Parts -> Nat] /\ o \in 0 .. 100 /\ o \in Nat
      /\ m \in Nat /\ s.soft \in Nat /\ s.block \in Nat
  BY SMT DEF IsSettings
<1>2. v = Weighted(s, WithDownload(p, WorstDownload))
  BY SMT DEF MaxPossible, WithDownload, WorstDownload
<1>3. w \in Nat /\ v \in Nat /\ w <= v
  <2>1. /\ Weighted(s, WithDownload(p, d)) \in Nat
        /\ Weighted(s, WithDownload(p, WorstDownload)) \in Nat
        /\ Weighted(s, WithDownload(p, d)) <= Weighted(s, WithDownload(p, WorstDownload))
    BY Zenon, <1>1, DownloadBetween, WeightedGrows
  <2> QED
    BY Zenon, <1>2, <2>1
<1>4. some \in Score
  <2>1. Below(WithDownload(p, d), WithDownload(p, WorstDownload)) /\ c <= c
    BY SMT, DownloadBetween
  <2> QED
    BY Zenon, <1>1, <2>1, DownloadBetween, CombinedGrows
<1>5. some = Rounded(Clamped(w * o + c * 10000, Ceiling * 10000))
  BY SMT DEF Combined, Combination
<1>6. Clamped(v + c * 100, Ceiling * 100) < m * 100
  BY SMT DEF CertainAllow
<1>7. /\ WholePoints(m) = m /\ WholePoints(s.soft) = s.soft
      /\ WholePoints(s.block) = s.block /\ m <= s.soft /\ m <= s.block
  BY SMT DEF SoundLimits
<1> HIDE DEF w, v, m, o, some
<1> DEFINE u == w * o
           x == Clamped(u + c * 10000, Ceiling * 10000)
<1>8. u \in Nat /\ u <= w * 100
  BY SMT, <1>1, <1>3
<1> HIDE DEF u
<1>9. x < m * 10000
  BY SMT, <1>1, <1>3, <1>6, <1>8 DEF Clamped, Ceiling
<1>10. x \in Nat
  BY SMT, <1>8 DEF Clamped, Ceiling
<1>11. some = Rounded(x)
  BY SMT, <1>5 DEF u
<1> HIDE DEF x
<1>12. some <= m
  BY SMT, <1>1, <1>9, <1>10, <1>11, RoundingStops
<1>13. some \in Nat
  BY Zenon, <1>4, ScoresAreNumbers
<1>14. CASE some # m
  <2>1. some < m /\ ~(some >= m)
    BY SMT, <1>1, <1>12, <1>13, <1>14
  <2>2. ~(some >= s.soft) /\ ~(some >= s.block)
    BY SMT, <1>1, <1>7, <1>13, <2>1
  <2>3. ~(some >= WholePoints(s.monitor)) /\ ~(some >= WholePoints(s.soft))
        /\ ~(some >= WholePoints(s.block))
    BY Zenon, <1>7, <2>1, <2>2 DEF m
  <2>4. Verdict(s, some) = "allow"
    BY Zenon, <2>3 DEF Verdict
  <2> QED
    BY Zenon, <2>4 DEF some
<1>15. CASE some = m
  BY Zenon, <1>15 DEF some, m
<1> QED
  BY Zenon, <1>14, <1>15

-----------------------------------------------------------------------------
(* Sums over finite sets, without an order of their elements. *)

\* The element that a fold takes next.
Taken(s) == CHOOSE x \in s : TRUE

\* What a fold computes, as an equation: "sum" gives the sum of F over each subset of T.
Sums(sum, T, F) ==
  sum = [s \in SUBSET T |-> IF s = {} THEN 0 ELSE F[Taken(s)] + sum[s \ {Taken(s)}]]

\* The equation, for the empty set and for others.
LEMMA SumsStep ==
  ASSUME NEW T, NEW F, NEW sum, Sums(sum, T, F), NEW s \in SUBSET T
  PROVE  /\ s = {} => sum[s] = 0
         /\ s # {} => /\ Taken(s) \in s
                      /\ sum[s] = F[Taken(s)] + sum[s \ {Taken(s)}]
<1>1. sum[s] = IF s = {} THEN 0 ELSE F[Taken(s)] + sum[s \ {Taken(s)}]
  BY DEF Sums
<1>2. s # {} => Taken(s) \in s
  BY DEF Taken
<1> QED
  BY <1>1, <1>2

\* Of the subsets of a finite set that are not all good, some are least.
LEMMA LeastSubset ==
  ASSUME NEW T, IsFiniteSet(T), NEW Bad, Bad \subseteq SUBSET T, Bad # {}
  PROVE  \E s \in Bad : \A u \in Bad : ~(u \subseteq s /\ u # s)
<1>1. Bad \subseteq FiniteSubsetsOf(T)
  BY FS_Subset DEF FiniteSubsetsOf
<1>2. PICK s \in Bad : \A u \in Bad : <<u, s>> \notin StrictSubsetOrdering(T)
  BY <1>1, FS_StrictSubsetOrderingWellFounded, WFMin
<1>3. ASSUME NEW u \in Bad, u \subseteq s, u # s PROVE FALSE
  <2>1. <<u, s>> \in StrictSubsetOrdering(T)
    BY <1>3 DEF StrictSubsetOrdering
  <2> QED  BY <1>2, <2>1
<1>4. \A u \in Bad : ~(u \subseteq s /\ u # s)
  BY <1>3
<1> QED
  BY <1>4

\* Two solutions over a set and a subset of it agree on the subset.
LEMMA SumsAgree ==
  ASSUME NEW T, IsFiniteSet(T), NEW U \in SUBSET T, NEW F, NEW g, NEW h,
         Sums(g, T, F), Sums(h, U, F)
  PROVE  \A s \in SUBSET U : g[s] = h[s]
<1> DEFINE Bad == {s \in SUBSET U : g[s] # h[s]}
<1> SUFFICES ASSUME Bad # {} PROVE FALSE
  OBVIOUS
<1>1. PICK s \in Bad : \A u \in Bad : ~(u \subseteq s /\ u # s)
  <2>1. Bad \subseteq SUBSET T
    OBVIOUS
  <2> HIDE DEF Bad
  <2> QED  BY <2>1, LeastSubset
<1>2. s \in SUBSET U /\ s \in SUBSET T /\ g[s] # h[s]
  OBVIOUS
<1>3. s # {} /\ Taken(s) \in s
  BY <1>2, SumsStep
<1>4. s \ {Taken(s)} \in SUBSET U /\ s \ {Taken(s)} \notin Bad
  BY <1>1, <1>2, <1>3
<1>5. g[s \ {Taken(s)}] = h[s \ {Taken(s)}]
  BY <1>4
<1> QED
  BY <1>2, <1>3, <1>5, SumsStep

\* Over a finite set the equation has a solution: of the subsets without one, a least
\* would have one, made of those of its own subsets.
LEMMA SumsExist ==
  ASSUME NEW T, IsFiniteSet(T), NEW F
  PROVE  \E sum : Sums(sum, T, F)
<1> DEFINE Bad == {u \in SUBSET T : \A sum : ~Sums(sum, u, F)}
           Sum(u) == (CHOOSE sum : Sums(sum, u, F))[u]
<1> SUFFICES ASSUME Bad # {} PROVE FALSE
  OBVIOUS
<1>1. PICK u \in Bad : \A w \in Bad : ~(w \subseteq u /\ w # u)
  <2>1. Bad \subseteq SUBSET T
    OBVIOUS
  <2> HIDE DEF Bad
  <2> QED  BY <2>1, LeastSubset
<1>2. u \in SUBSET T /\ (\A sum : ~Sums(sum, u, F))
  OBVIOUS
<1>3. ASSUME NEW w \in SUBSET u, w # u
      PROVE  /\ IsFiniteSet(w)
             /\ Sums(CHOOSE sum : Sums(sum, w, F), w, F)
  <2>1. IsFiniteSet(w)
    BY <1>2, FS_Subset
  <2>2. w \notin Bad /\ w \in SUBSET T
    BY <1>1, <1>2, <1>3
  <2>3. \E sum : Sums(sum, w, F)
    BY <2>2
  <2> QED  BY Zenon, <2>1, <2>3
<1> DEFINE whole == [s \in SUBSET u |-> IF s = {} THEN 0 ELSE F[Taken(s)] + Sum(s \ {Taken(s)})]
<1>4. ASSUME NEW w \in SUBSET u, w # u PROVE whole[w] = Sum(w)
  <2> DEFINE g == CHOOSE sum : Sums(sum, w, F)
             v == w \ {Taken(w)}
             h == CHOOSE sum : Sums(sum, v, F)
  <2>1. IsFiniteSet(w) /\ Sums(g, w, F)
    BY <1>3, <1>4
  <2>2. CASE w = {}
    <3> HIDE DEF g
    <3>1. g[w] = 0
      BY <2>1, <2>2, SumsStep
    <3>2. whole[w] = 0
      BY <2>2
    <3>3. Sum(w) = g[w]
      BY DEF g
    <3> HIDE DEF Sum, whole
    <3> QED  BY <3>1, <3>2, <3>3
  <2>3. CASE w # {}
    <3>1. Taken(w) \in w
      BY <2>3 DEF Taken
    <3>2. v \in SUBSET u /\ v # u /\ v \in SUBSET w
      BY <3>1
    <3>3. Sums(h, v, F)
      BY <1>3, <3>2
    <3> HIDE DEF g, h
    <3>4. g[w] = F[Taken(w)] + g[v]
      BY <2>1, <2>3, SumsStep
    <3>5. g[v] = h[v]
      BY <2>1, <3>2, <3>3, SumsAgree
    <3>6. whole[w] = F[Taken(w)] + Sum(v)
      BY <2>3
    <3>7. Sum(w) = g[w] /\ Sum(v) = h[v]
      BY DEF g, h
    <3> HIDE DEF Sum, whole, v
    <3> QED  BY <3>4, <3>5, <3>6, <3>7
  <2> QED  BY <2>2, <2>3
<1>5. Sums(whole, u, F)
  <2>1. ASSUME NEW s \in SUBSET u, s # {}
        PROVE  whole[s \ {Taken(s)}] = Sum(s \ {Taken(s)})
    <3>1. Taken(s) \in s
      BY <2>1 DEF Taken
    <3>2. s \ {Taken(s)} \in SUBSET u /\ s \ {Taken(s)} # u
      BY <3>1
    <3> HIDE DEF whole, Sum
    <3> QED  BY <1>4, <3>2
  <2>2. whole = [s \in SUBSET u |-> IF s = {} THEN 0 ELSE F[Taken(s)] + Sum(s \ {Taken(s)})]
    BY Zenon
  <2> HIDE DEF whole, Sum
  <2>3. ASSUME NEW s \in SUBSET u
        PROVE  (IF s = {} THEN 0 ELSE F[Taken(s)] + Sum(s \ {Taken(s)}))
                 = (IF s = {} THEN 0 ELSE F[Taken(s)] + whole[s \ {Taken(s)}])
    BY Zenon, <2>1
  <2>4. whole = [s \in SUBSET u |-> IF s = {} THEN 0 ELSE F[Taken(s)] + whole[s \ {Taken(s)}]]
    BY Zenon, <2>2, <2>3
  <2> QED  BY Zenon, <2>4 DEF Sums
<1> QED
  BY <1>2, <1>5

\* A sum of natural numbers is one.
LEMMA SumsAreNatural ==
  ASSUME NEW T, IsFiniteSet(T), NEW F, \A x \in T : F[x] \in Nat, NEW sum, Sums(sum, T, F)
  PROVE  \A s \in SUBSET T : sum[s] \in Nat
<1> DEFINE Bad == {s \in SUBSET T : sum[s] \notin Nat}
<1> SUFFICES ASSUME Bad # {} PROVE FALSE
  OBVIOUS
<1>1. PICK s \in Bad : \A u \in Bad : ~(u \subseteq s /\ u # s)
  <2>1. Bad \subseteq SUBSET T
    OBVIOUS
  <2> HIDE DEF Bad
  <2> QED  BY <2>1, LeastSubset
<1>2. s \in SUBSET T /\ sum[s] \notin Nat
  OBVIOUS
<1>3. s # {} /\ Taken(s) \in s
  BY <1>2, SumsStep
<1>4. s \ {Taken(s)} \in SUBSET T /\ s \ {Taken(s)} \notin Bad
  BY <1>1, <1>2, <1>3
<1>5. PICK first, others \in Nat : first = F[Taken(s)] /\ others = sum[s \ {Taken(s)}]
  BY <1>2, <1>3, <1>4
<1>6. sum[s] = F[Taken(s)] + sum[s \ {Taken(s)}]
  BY <1>2, <1>3, SumsStep
<1>7. sum[s] = first + others
  BY Zenon, <1>5, <1>6
<1> QED
  BY <1>2, <1>7

\* The values of a function on a finite set are finitely many.
LEMMA ImageIsFinite ==
  ASSUME NEW S, IsFiniteSet(S), NEW f
  PROVE  IsFiniteSet({f[x] : x \in S})
<1> DEFINE g == [x \in S |-> f[x]]
<1>1. g \in Surjection(S, {f[x] : x \in S})
  BY DEF Surjection
<1> QED
  BY <1>1, FS_Surjection

\* A finite set of numbers has a greatest: nothing is above the one with least above it.
LEMMA MaxOfFinite ==
  ASSUME NEW S, IsFiniteSet(S), S # {}
  PROVE  S \subseteq Nat => Max(S) \in S
<1> DEFINE Above(b) == {x \in S : x > b}
           All == {Above(b) : b \in S}
<1>1. PICK u \in All : \A v \in All : ~(v \subseteq u /\ v # u)
  <2>1. \A b \in S : Above(b) \in SUBSET S
    OBVIOUS
  <2> HIDE DEF Above
  <2>2. All \subseteq SUBSET S /\ All # {}
    BY <2>1
  <2> HIDE DEF All
  <2> QED  BY <2>2, LeastSubset
<1>2. PICK b \in S : u = Above(b)
  OBVIOUS
<1> SUFFICES ASSUME S \subseteq Nat PROVE Max(S) \in S
  OBVIOUS
<1>3. ASSUME NEW y \in S, y > b PROVE FALSE
  <2>1. y \in u /\ y \notin Above(y)
    BY <1>2, <1>3
  <2>2. Above(y) \subseteq u
    <3> SUFFICES ASSUME NEW x \in S, x > y PROVE x > b
      BY <1>2
    <3> QED  BY <1>3
  <2>3. Above(y) \in All
    OBVIOUS
  <2> QED  BY <1>1, <2>1, <2>2, <2>3
<1>4. \A y \in S : b >= y
  BY <1>3
<1> QED
  BY <1>4 DEF Max

-----------------------------------------------------------------------------
(* The analyzers. *)

\* Rounding a quotient of numbers that are not negative gives one.
LEMMA RoundedQuotient ==
  ASSUME NEW a \in Int, NEW b \in Nat \ {0}
  PROVE  /\ RoundDiv(a, b) \in Int
         /\ a >= 0 => RoundDiv(a, b) \in Nat
  BY SMT DEF RoundDiv

LEMMA QuotientBelow ==
  ASSUME NEW a \in Nat, NEW b \in Nat \ {0}, NEW n \in Nat, a <= n * b
  PROVE  RoundDiv(a, b) \in 0 .. n
<1>1. 2 * a + b < (n + 1) * (2 * b)
  BY SMT
<1>2. ASSUME NEW x \in Nat, NEW d \in Nat \ {0}, NEW m \in Nat, x < m * d
      PROVE  x \div d < m /\ x \div d \in Nat
  BY SMT, <1>2
<1> QED
  BY <1>1, <1>2, RoundedQuotient DEF RoundDiv

\* A sum of parts is capped at full marks.
LEMMA CappedAtFull ==
  ASSUME NEW x \in Nat
  PROVE  AtMost(x, Full) \in 0 .. Full
  BY DEF AtMost, Full

\* Four parts of forty and three times twenty points; a text without words counts as one.
LEMMA CommentsInRange ==
  ASSUME NEW c, AreComments(c)
  PROVE  CommentScore(c) \in 0 .. Full
<1> USE DEF AreComments
<1>1. CASE c.comments = 0
  BY <1>1 DEF CommentScore, Full
<1>2. CASE c.comments # 0
  <2>1. PICK comments, hits, emojis, chars, unique, caps, prints, duplicates \in Nat :
          /\ comments = c.comments /\ hits = c.hits /\ emojis = c.emojis /\ chars = c.chars
          /\ unique = c.unique /\ caps = c.caps /\ prints = c.prints
          /\ duplicates = c.duplicates
    BY <1>2
  <2>2. PICK words \in Nat \ {0} : words = AtLeast(c.words, 1)
    BY <1>2 DEF AtLeast
  <2>3. KeywordDensity(c) \in 0 .. 4000
    <3>1. PICK n \in Nat : n = RoundDiv(hits * 80000, words)
      BY RoundedQuotient
    <3>2. KeywordDensity(c) = AtMost(n, 4000)
      BY <2>1, <2>2, <3>1 DEF KeywordDensity
    <3> QED  BY <3>2 DEF AtMost
  <2>4. EmojiFlood(c) \in 0 .. 2000
    <3>1. PICK n \in Nat : n = RoundDiv(emojis * 6700, words)
      BY RoundedQuotient
    <3>2. EmojiFlood(c) = AtMost(n, 2000)
      BY <2>1, <2>2, <3>1 DEF EmojiFlood
    <3> QED  BY <3>2 DEF AtMost
  <2>5. Repetition(c) \in 0 .. 2000
    <3>1. CASE prints = 0
      BY <2>1, <3>1 DEF Repetition
    <3>2. CASE prints # 0
      <4>1. PICK n \in Nat : n = RoundDiv(duplicates * 10000, prints)
        BY <3>2, RoundedQuotient
      <4> QED  BY <2>1, <3>2, <4>1 DEF Repetition, AtMost, Full
    <3> QED  BY <3>1, <3>2
  <2>6. CommentQuality(c) \in 0 .. 2000
    <3>1. PICK short \in Int : short = RoundDiv((15 * comments - chars) * 700, 15 * comments)
      <4>1. 15 * comments \in Nat \ {0} /\ (15 * comments - chars) * 700 \in Int
        BY <1>2, <2>1
      <4> QED  BY <4>1, RoundedQuotient
    <3>2. PICK repetitive \in Int : repetitive = RoundDiv((400 - unique) * 700, 400)
      BY RoundedQuotient
    <3>3. CommentQuality(c) = AtMost(AtLeast(short, 0) + AtLeast(repetitive, 0)
                                       + AtMost(2 * caps, 600), 2000)
      BY <2>1, <3>1, <3>2 DEF CommentQuality
    <3> QED
      BY <3>3 DEF AtMost, AtLeast
  <2>7. PICK k \in 0 .. 4000 : k = KeywordDensity(c)
    BY <2>3
  <2>8. PICK e \in 0 .. 2000 : e = EmojiFlood(c)
    BY <2>4
  <2>9. PICK q \in 0 .. 2000 : q = CommentQuality(c)
    BY <2>6
  <2>10. PICK r \in 0 .. 2000 : r = Repetition(c)
    BY <2>5
  <2>11. CommentScore(c) = AtMost(k + e + q + r, Full)
    BY <1>2, <2>7, <2>8, <2>9, <2>10 DEF CommentScore
  <2>12. k + e + q + r \in Nat
    OBVIOUS
  <2> QED
    BY <2>11, <2>12, CappedAtFull
<1> QED
  BY <1>1, <1>2

\* The points of the patterns found in a title: what the fold names is such a solution.
LEMMA BaitIsNatural ==
  ASSUME NEW patterns \in SUBSET DOMAIN BaitPoints
  PROVE  BaitPart(patterns) \in Nat
<1> DEFINE sum == CHOOSE it : Sums(it, patterns, BaitPoints)
<1>1. MapThenSumSet(LAMBDA p : BaitPoints[p], patterns) = sum[patterns]
  BY Zenon DEF MapThenSumSet, MapThenFoldSet, Sums, Taken
<1>2. DOMAIN BaitPoints = {"question", "listicle", "urgency", "emotion", "caps", "reaction",
                           "hooks", "numbers", "hyperbole"}
  BY DEF BaitPoints
<1>3. IsFiniteSet(patterns)
  <2>1. PICK name : DOMAIN BaitPoints = {name[k] : k \in 1 .. 9}
    <3> DEFINE it == <<"question", "listicle", "urgency", "emotion", "caps", "reaction", "hooks",
                       "numbers", "hyperbole">>
    <3>1. DOMAIN BaitPoints = {it[k] : k \in 1 .. 9}
      BY <1>2
    <3> QED  BY <3>1
  <2>2. IsFiniteSet(1 .. 9)
    <3>1. 1 \in Int /\ 9 \in Int
      OBVIOUS
    <3> QED  BY Zenon, <3>1, FS_Interval
  <2>3. IsFiniteSet(DOMAIN BaitPoints)
    BY <2>1, <2>2, ImageIsFinite
  <2> QED  BY <2>3, FS_Subset
<1>4. \A p \in patterns : BaitPoints[p] \in Nat
  BY <1>2 DEF BaitPoints
<1>5. Sums(sum, patterns, BaitPoints)
  <2>1. \E it : Sums(it, patterns, BaitPoints)
    BY <1>3, SumsExist
  <2> QED  BY Zenon, <2>1
<1> HIDE DEF sum
<1>6. PICK n \in Nat : n = sum[patterns]
  BY <1>3, <1>4, <1>5, SumsAreNatural
<1>7. BaitPart(patterns) = AtMost(100 * n, 2000)
  BY <1>1, <1>6 DEF BaitPart
<1> QED
  BY <1>7 DEF AtMost

\* Six parts, each with a cap; a video without views has none of the first four.
LEMMA EngagementInRange ==
  ASSUME NEW e, AreFigures(e), BaitPart(e.bait) \in Nat
  PROVE  EngagementScore(e) \in 0 .. Full
<1>1. PICK views, magnitude, likes, comments, seconds \in Nat :
        /\ views = e.views /\ magnitude = e.magnitude /\ likes = e.likes
        /\ comments = e.comments /\ seconds = e.seconds
  BY DEF AreFigures
<1>2. ViewVelocity(e) \in Nat
  BY <1>1 DEF ViewVelocity, AtMost
<1>3. EngagementRatio(e) \in Nat /\ LikeRatio(e) \in Nat /\ CommentRatio(e) \in Nat
  <2>1. CASE views = 0
    BY <1>1, <2>1 DEF EngagementRatio, LikeRatio, CommentRatio
  <2>2. CASE views # 0
    <3>1. PICK n \in Nat : n = RoundDiv((likes + comments) * 10000, views)
      <4>1. (likes + comments) * 10000 \in Nat
        OBVIOUS
      <4> QED  BY <2>2, <4>1, RoundedQuotient
    <3>2. PICK m \in Nat : m = RoundDiv(likes * 10000, views)
      BY <2>2, RoundedQuotient
    <3>3. PICK k \in Nat : k = RoundDiv(comments * 50000, views)
      BY <2>2, RoundedQuotient
    <3> QED
      BY <1>1, <2>2, <3>1, <3>2, <3>3 DEF EngagementRatio, LikeRatio, CommentRatio, AtMost, Full
  <2> QED  BY <2>1, <2>2
<1>4. DurationPart(e.seconds) \in Nat
  BY <1>1 DEF DurationPart
<1>5. PICK v, r, l, c, d, b \in Nat :
        /\ v = ViewVelocity(e) /\ r = EngagementRatio(e) /\ l = LikeRatio(e)
        /\ c = CommentRatio(e) /\ d = DurationPart(e.seconds) /\ b = BaitPart(e.bait)
  BY <1>2, <1>3, <1>4
<1>6. PICK n \in Nat : n = v + r + l + c + d + b
  OBVIOUS
<1>7. EngagementScore(e) = AtMost(n, Full)
  BY <1>5, <1>6 DEF EngagementScore
<1> QED
  BY <1>7, CappedAtFull

\* Six parts whose caps add up to full marks; a part that fails adds nothing.
LEMMA ThumbnailInRange ==
  ASSUME NEW i, IsImage(i)
  PROVE  ThumbnailScore(i) \in 0 .. Full
<1> USE DEF IsImage
<1>1. CASE ~i.decoded
  BY <1>1 DEF ThumbnailScore, Full
<1>2. CASE i.decoded
  <2>2. SaturationPart(i) \in 0 .. 2000
    <3>1. i.saturation * 3000 \in Nat
      BY <1>2
    <3>2. PICK n \in Nat : n = RoundDiv(i.saturation * 3000, 255)
      BY <3>1, RoundedQuotient
    <3>3. PICK base \in 0 .. 2000 : base = AtMost(n, 2000)
      BY DEF AtMost
    <3>4. SaturationPart(i) = IF i.saturation90 > 220 THEN AtMost(base + 400, 2000) ELSE base
      BY <3>2, <3>3 DEF SaturationPart
    <3> QED  BY <3>4 DEF AtMost
  <2>3. TextPart(i) \in 0 .. 2500
    <3>1. PICK area, capsWords \in Nat : area = i.textArea /\ capsWords = i.capsWords
      BY <1>2
    <3>2. PICK x, y \in Nat : x = AtMost(area * 5, 1500) /\ y = AtMost(capsWords * 100, 300)
      BY DEF AtMost
    <3>3. PICK slang \in {0, 500} : slang = IF i.slang THEN 500 ELSE 0
      OBVIOUS
    <3>4. PICK exclaims \in {0, 200} : exclaims = IF i.exclaims THEN 200 ELSE 0
      OBVIOUS
    <3>5. PICK content \in Nat : content = AtMost(slang + y + exclaims, 1000)
      BY DEF AtMost
    <3>6. TextPart(i) = AtMost(x + content, 2500)
      BY <3>1, <3>2, <3>3, <3>4, <3>5 DEF TextPart
    <3> QED  BY <3>6 DEF AtMost
  <2>4. RedPart(i) \in 0 .. 1500
    <3>1. PICK shapes, area \in Nat : shapes = i.redShapes /\ area = i.redArea
      BY <1>2
    <3>2. PICK x, y \in Nat : x = AtMost(shapes * 250, 1000) /\ y = AtMost(area * 5, 500)
      BY DEF AtMost
    <3>3. RedPart(i) = AtMost(x + y, 1500)
      BY <3>1, <3>2 DEF RedPart
    <3> QED  BY <3>3 DEF AtMost
  <2>5. FacePart(i) \in 0 .. 1500
    <3>1. PICK faces, area \in Nat : faces = i.faces /\ area = i.faceArea
      BY <1>2
    <3> QED  BY <3>1 DEF FacePart, AtMost
  <2>6. ComplexityPart(i) \in 0 .. 1500
    <3>1. i.edges * 27 \in Nat /\ i.entropy * 700 \in Nat
      BY <1>2
    <3>2. PICK edges \in Nat : edges = RoundDiv(i.edges * 27, 10)
      BY <3>1, RoundedQuotient
    <3>3. PICK entropy \in Nat : entropy = RoundDiv(i.entropy * 700, 800)
      BY <3>1, RoundedQuotient
    <3>4. ComplexityPart(i) = AtMost(AtMost(edges, 800) + AtMost(entropy, 700), 1500)
      BY <3>2, <3>3 DEF ComplexityPart
    <3> QED  BY <3>4 DEF AtMost
  <2>7. BrightnessPart(i) \in 0 .. 1000
    <3>1. i.contrast * 500 \in Nat
      BY <1>2
    <3>2. PICK contrast \in Nat : contrast = RoundDiv(i.contrast * 500, 128)
      BY <3>1, RoundedQuotient
    <3>3. PICK extremes \in Nat : extremes = i.extremes
      BY <1>2
    <3>4. BrightnessPart(i) = AtMost(AtMost(contrast, 500) + AtMost(extremes * 2, 500), 1000)
      BY <3>2, <3>3 DEF BrightnessPart
    <3> QED  BY <3>4 DEF AtMost
  <2> DEFINE Part(name, value) == IF name \in i.failed THEN 0 ELSE value
  <2> DEFINE saturation == Part("saturation", SaturationPart(i))
             text == Part("text", TextPart(i))
             red == Part("red", RedPart(i))
             faces == Part("faces", FacePart(i))
             complexity == Part("complexity", ComplexityPart(i))
             brightness == Part("brightness", BrightnessPart(i))
  <2>8. ThumbnailScore(i) = AtMost(saturation + text + red + faces + complexity + brightness, Full)
    BY <1>2 DEF ThumbnailScore
  <2>9. saturation \in 0 .. 2000
    BY <2>2
  <2>10. text \in 0 .. 2500
    BY <2>3
  <2>11. red \in 0 .. 1500
    BY <2>4
  <2>12. faces \in 0 .. 1500
    BY <2>5
  <2>13. complexity \in 0 .. 1500
    BY <2>6
  <2>14. brightness \in 0 .. 1000
    BY <2>7
  <2> HIDE DEF saturation, text, red, faces, complexity, brightness
  <2>15. saturation + text + red + faces + complexity + brightness \in Nat
    BY <2>9, <2>10, <2>11, <2>12, <2>13, <2>14
  <2> QED
    BY <2>8, <2>15, CappedAtFull
<1> QED
  BY <1>1, <1>2

\* A straight piece stays between its ends.
LEMMA PieceInRange ==
  ASSUME NEW x0 \in Nat, NEW x1 \in Nat, x0 < x1,
         NEW y0 \in Nat, NEW y1 \in Nat, y0 <= y1, y1 <= 100,
         NEW cpm \in Nat, NEW seconds \in Nat \ {0},
         x0 * seconds <= cpm, cpm < x1 * seconds
  PROVE  100 * y0 + RoundDiv((cpm - x0 * seconds) * (y1 - y0) * 100, (x1 - x0) * seconds)
           \in 0 .. Full
<1>1. PICK d \in Nat : d = cpm - x0 * seconds
  OBVIOUS
<1>2. PICK g \in Nat \ {0} : g = (x1 - x0) * seconds /\ d <= g
  BY <1>1
<1>3. PICK n \in Nat : n = (y1 - y0) * 100
  OBVIOUS
<1>4. d * n <= n * g /\ d * n \in Nat
  BY <1>2
<1>5. RoundDiv(d * n, g) \in 0 .. n
  BY <1>4, QuotientBelow
<1>6. (cpm - x0 * seconds) * (y1 - y0) * 100 = d * n
  BY <1>1, <1>3
<1>7. 100 * y0 + n <= Full
  BY <1>3 DEF Full
<1>8. PICK q \in 0 .. n : q = RoundDiv((cpm - x0 * seconds) * (y1 - y0) * 100, (x1 - x0) * seconds)
  BY <1>2, <1>5, <1>6
<1>9. 100 * y0 + q \in 0 .. Full
  BY <1>7 DEF Full
<1> QED
  BY <1>8, <1>9

\* The points of the curve rise to (100, 100).
LEMMA PointsRise ==
  \A k \in 1 .. 7 : \E x0, x1, y0, y1 \in Nat :
    /\ ScoreCurve[k] = <<x0, y0>> /\ ScoreCurve[k + 1] = <<x1, y1>>
    /\ x0 < x1 /\ y0 <= y1 /\ y1 <= 100 /\ (k = 1 => x0 = 0)
<1> SUFFICES ASSUME NEW k \in 1 .. 7
             PROVE  \E x0, x1, y0, y1 \in Nat :
                      /\ ScoreCurve[k] = <<x0, y0>> /\ ScoreCurve[k + 1] = <<x1, y1>>
                      /\ x0 < x1 /\ y0 <= y1 /\ y1 <= 100 /\ (k = 1 => x0 = 0)
  OBVIOUS
<1>1. CASE k \in 1 .. 2
  BY <1>1 DEF ScoreCurve
<1>2. CASE k \in 3 .. 4
  BY <1>2 DEF ScoreCurve
<1>3. CASE k \in 5 .. 6
  BY <1>3 DEF ScoreCurve
<1>4. CASE k = 7
  BY <1>4 DEF ScoreCurve
<1> QED
  BY <1>1, <1>2, <1>3, <1>4

\* It is made of straight pieces between points that rise to (100, 100).
LEMMA CutsInRange ==
  ASSUME NEW cuts \in Nat, NEW seconds \in Nat
  PROVE  CpmScore(cuts, seconds) \in 0 .. Full
<1> DEFINE cpm == cuts * 60
           Beyond(x) == cpm >= x * seconds
           Pieces == {j \in 1 .. 7 : ~Beyond(ScoreCurve[j + 1][1])}
           k == Min(Pieces)
           Piece(j) == 100 * ScoreCurve[j][2]
                         + RoundDiv((cpm - ScoreCurve[j][1] * seconds)
                                      * (ScoreCurve[j + 1][2] - ScoreCurve[j][2]) * 100,
                                    (ScoreCurve[j + 1][1] - ScoreCurve[j][1]) * seconds)
           None == cuts = 0 \/ seconds = 0
           All == seconds > 0 /\ cuts > 0 /\ Beyond(100)
<1>0. CpmScore(cuts, seconds) = CASE None -> 0 [] All -> Full [] OTHER -> Piece(k)
  BY Zenon DEF CpmScore
<1>1. CASE None
  <2>1. ~All
    BY <1>1
  <2> HIDE DEF None, All, Piece
  <2>2. CpmScore(cuts, seconds) = 0
    BY <1>0, <1>1, <2>1
  <2> QED  BY <2>2 DEF Full
<1>2. CASE All
  <2>1. ~None
    BY <1>2
  <2> HIDE DEF None, All, Piece
  <2>2. CpmScore(cuts, seconds) = Full
    BY <1>0, <1>2, <2>1
  <2> QED  BY <2>2 DEF Full
<1>3. CASE ~None /\ ~All
  <2>1. CpmScore(cuts, seconds) = Piece(k)
    <3> HIDE DEF None, All, Piece
    <3> QED  BY <1>0, <1>3
  <2>2. cpm \in Nat /\ seconds \in Nat \ {0} /\ ~Beyond(100)
    BY <1>3
  <2> HIDE DEF cpm
  <2>3. k \in Pieces /\ \A j \in Pieces : k <= j
    <3>1. Pieces \subseteq 1 .. 7 /\ 7 \in Pieces
      BY <2>2 DEF ScoreCurve
    <3> HIDE DEF Pieces
    <3>2. \E x \in Pieces : \A j \in Pieces : x <= j
      BY <3>1
    <3> QED  BY <3>1, <3>2 DEF Min
  <2> HIDE DEF k
  <2>4. k \in 1 .. 7 /\ ~Beyond(ScoreCurve[k + 1][1])
    BY <2>3
  <2>5. k # 1 => Beyond(ScoreCurve[k][1])
    <3>1. k # 1 => k - 1 \in 1 .. 7 /\ k - 1 \notin Pieces /\ (k - 1) + 1 = k
      BY <2>3, <2>4
    <3> QED  BY <3>1
  <2>6. Piece(k) \in 0 .. Full
    <3>1. PICK x0, x1, y0, y1 \in Nat :
            /\ ScoreCurve[k] = <<x0, y0>> /\ ScoreCurve[k + 1] = <<x1, y1>>
            /\ x0 < x1 /\ y0 <= y1 /\ y1 <= 100 /\ (k = 1 => x0 = 0)
      BY <2>4, PointsRise
    <3>2. x0 * seconds <= cpm /\ cpm < x1 * seconds
      <4>1. ~(cpm >= x1 * seconds)
        BY <2>4, <3>1
      <4>2. k # 1 => cpm >= x0 * seconds
        BY <2>5, <3>1
      <4>3. x1 * seconds \in Nat /\ x0 * seconds \in Nat
        BY <2>2
      <4>4. k = 1 => x0 * seconds = 0
        BY <2>2, <3>1
      <4> HIDE DEF Beyond
      <4> QED  BY <2>2, <4>1, <4>2, <4>3, <4>4
    <3>3. 100 * y0 + RoundDiv((cpm - x0 * seconds) * (y1 - y0) * 100, (x1 - x0) * seconds)
            \in 0 .. Full
      <4>1. /\ cpm \in Nat /\ seconds \in Nat \ {0}
            /\ x0 < x1 /\ y0 <= y1 /\ y1 <= 100
        BY <2>2, <3>1
      <4> QED  BY Zenon, <3>2, <4>1, PieceInRange
    <3>4. Piece(k) = 100 * y0 + RoundDiv((cpm - x0 * seconds) * (y1 - y0) * 100,
                                         (x1 - x0) * seconds)
      BY <3>1
    <3> QED  BY <3>3, <3>4
  <2> QED  BY <2>1, <2>6
<1> QED
  BY <1>1, <1>2, <1>3

\* The weights are settings and may be any numbers: clamping comes last.
LEMMA AudioInRange ==
  ASSUME NEW a, IsSound(a),
         NEW w, {w.loudness, w.chaos, w.nlp} \subseteq Int
  PROVE  AudioScore(a, w) \in 0 .. Full
<1> USE DEF IsSound
<1>1. CASE ~a.loaded
  BY <1>1 DEF AudioScore, Full
<1>2. CASE a.loaded
  <2>1. Loudness(a) \in Int
    BY <1>2 DEF Loudness, Between, AtMost, AtLeast, Full
  <2>2. Chaos(a) \in Int
    BY <1>2 DEF Chaos, Between, AtMost, AtLeast, Full
  <2>3. Speech(a) \in Int
    BY <1>2 DEF Speech, AtMost, Full
  <2>4. PICK sum \in Int : sum = Loudness(a) * w.loudness + Chaos(a) * w.chaos + Speech(a) * w.nlp
    BY <2>1, <2>2, <2>3
  <2>5. PICK x \in Int : x = RoundDiv(sum, 100)
    BY RoundedQuotient
  <2>6. AudioScore(a, w) = Between(x, 0, Full)
    BY <1>2, <2>4, <2>5 DEF AudioScore
  <2> QED
    BY <2>6 DEF Between, AtMost, AtLeast, Full
<1> QED
  BY <1>1, <1>2

\* The fallback caps what it counts.
LEMMA OcrInRange ==
  ASSUME NEW triggers \in Nat
  PROVE  OcrFallback(triggers) \in 0 .. Full
  BY DEF OcrFallback, AtMost, Full

\* Dampening a score by a factor of at most one keeps it in range.
LEMMA SceneInRange ==
  ASSUME NEW scan, scan.cuts \in Nat, scan.seconds \in Nat, NEW music \in BOOLEAN,
         NEW dampening, music => dampening \in 0 .. 100
  PROVE  SceneScore(scan, music, dampening) \in 0 .. Full
<1>1. PICK raw \in 0 .. Full : raw = CpmScore(scan.cuts, scan.seconds)
  BY CutsInRange
<1>2. CASE music
  <2>1. raw * dampening \in Nat /\ raw * dampening <= Full * 100
    <3>1. PICK n \in 0 .. 100 : n = dampening
      BY <1>2
    <3>2. raw \in Nat /\ raw <= Full /\ Full \in Nat /\ n \in Nat /\ n <= 100
      BY DEF Full
    <3>3. n * raw \in Nat /\ n * raw <= n * Full
      BY <3>2, WeightKeepsOrder
    <3>4. Full * n <= Full * 100
      BY <3>2 DEF Full
    <3> QED  BY <3>1, <3>2, <3>3, <3>4
  <2>2. RoundDiv(raw * dampening, 100) \in 0 .. Full
    <3>1. Full \in Nat /\ 100 \in Nat \ {0}
      BY DEF Full
    <3> QED  BY <2>1, <3>1, QuotientBelow
  <2> QED
    BY <1>1, <1>2, <2>2 DEF SceneScore
<1>3. CASE ~music
  BY <1>1, <1>3 DEF SceneScore
<1> QED
  BY <1>2, <1>3

\* The matches of finite texts are finitely many, and each has a weight.
LEMMA MatchesAreFinite ==
  ASSUME NEW texts, IsTexts(texts)
  PROVE  /\ IsFiniteSet(KeywordMatches(texts))
         /\ \A m \in KeywordMatches(texts) : m.weight \in Nat
<1> DEFINE Found(c) == {u \in DOMAIN texts[c] : texts[c][u] > 0 /\ (c = "ocr" => ~u.emoji)}
           Match(c, t) == [term |-> t, weight |-> MatchWeight(t, texts[c][t])]
           In(c) == {Match(c, t) : t \in Found(c)}
<1>1. KeywordMatches(texts) = UNION {In(c) : c \in DOMAIN texts}
  BY Zenon DEF KeywordMatches
<1>2. ASSUME NEW c \in DOMAIN texts
      PROVE  IsFiniteSet(In(c)) /\ \A m \in In(c) : m.weight \in Nat
  <2>1. IsText(texts[c])
    BY <1>2 DEF IsTexts
  <2>2. IsFiniteSet(Found(c))
    <3>1. Found(c) \subseteq DOMAIN texts[c] /\ IsFiniteSet(DOMAIN texts[c])
      BY <2>1 DEF IsText
    <3> QED  BY Zenon, <3>1, FS_Subset
  <2>3. IsFiniteSet(In(c))
    <3> DEFINE f == [t \in Found(c) |-> Match(c, t)]
    <3>1. In(c) = {f[t] : t \in Found(c)}
      BY Zenon
    <3> HIDE DEF f, In, Found
    <3> QED  BY <2>2, <3>1, ImageIsFinite
  <2>4. ASSUME NEW t \in Found(c) PROVE Match(c, t).weight \in Nat
    <3>1. t.weight \in Nat /\ texts[c][t] \in Nat
      BY <2>1, <2>4 DEF IsText
    <3>2. PICK weight, count \in Nat : weight = t.weight /\ count = texts[c][t]
      BY <3>1
    <3>3. MatchWeight(t, texts[c][t]) \in Nat
      BY <3>2 DEF MatchWeight, AtMost
    <3> QED  BY <3>3
  <2> QED
    BY <2>3, <2>4
<1>3. IsFiniteSet({In(c) : c \in DOMAIN texts})
  <2> DEFINE f == [c \in DOMAIN texts |-> In(c)]
  <2>1. {In(c) : c \in DOMAIN texts} = {f[c] : c \in DOMAIN texts}
    BY Zenon
  <2>2. IsFiniteSet(DOMAIN texts)
    BY DEF IsTexts
  <2> HIDE DEF f, In
  <2> QED  BY <2>1, <2>2, ImageIsFinite
<1> HIDE DEF In
<1>4. \A S \in {In(c) : c \in DOMAIN texts} : IsFiniteSet(S)
  BY <1>2
<1>5. IsFiniteSet(UNION {In(c) : c \in DOMAIN texts})
  BY Zenon, <1>3, <1>4, FS_UNION
<1> QED
  BY Zenon, <1>1, <1>2, <1>5

\* The best match of each term counts; whatever their number, a cap follows the sum.
LEMMA KeywordsInRange ==
  ASSUME NEW texts, IsTexts(texts), NEW music \in BOOLEAN
  PROVE  KeywordScore(texts, music) \in 0 .. Full
<1> DEFINE matches == KeywordMatches(texts)
           terms == {m.term : m \in matches}
           Weights(t) == {m.weight : m \in {n \in matches : n.term = t}}
           Best(t) == Max(Weights(t))
           best == [t \in terms |-> Best(t)]
           sum == CHOOSE it : it = [s \in SUBSET terms |->
                    IF s = {} THEN 0 ELSE Best(Taken(s)) + it[s \ {Taken(s)}]]
<1>1. MapThenSumSet(Best, terms) = sum[terms]
  BY Zenon DEF MapThenSumSet, MapThenFoldSet, Taken
<1>2. IsFiniteSet(matches) /\ \A m \in matches : m.weight \in Nat
  BY MatchesAreFinite
<1> HIDE DEF matches
<1>3. IsFiniteSet(terms)
  <2> DEFINE f == [m \in matches |-> m.term]
  <2>1. terms = {f[m] : m \in matches}
    BY Zenon
  <2> HIDE DEF f, terms
  <2> QED  BY <1>2, <2>1, ImageIsFinite
<1>4. ASSUME NEW t \in terms PROVE Best(t) \in Nat
  <2> DEFINE of == {n \in matches : n.term = t}
             f == [m \in of |-> m.weight]
  <2>1. IsFiniteSet(of)
    BY <1>2, FS_Subset
  <2>2. Weights(t) = {f[m] : m \in of}
    BY Zenon
  <2>3. Weights(t) # {} /\ Weights(t) \subseteq Nat
    BY <1>2, <1>4
  <2> HIDE DEF of, f, Weights
  <2>4. IsFiniteSet(Weights(t))
    BY <2>1, <2>2, ImageIsFinite
  <2>5. Max(Weights(t)) \in Weights(t)
    BY Zenon, <2>3, <2>4, MaxOfFinite
  <2> QED  BY <2>3, <2>5
<1> HIDE DEF Weights
<1>5. ASSUME NEW s \in SUBSET terms, s # {} PROVE best[Taken(s)] = Best(Taken(s))
  <2>1. Taken(s) \in terms
    BY <1>5 DEF Taken
  <2> QED  BY <2>1
<1> HIDE DEF terms, Best
<1>6. Sums(sum, terms, best)
  <2> DEFINE Folds(it) == it = [s \in SUBSET terms |->
                IF s = {} THEN 0 ELSE Best(Taken(s)) + it[s \ {Taken(s)}]]
  <2>1. ASSUME NEW it PROVE Folds(it) <=> Sums(it, terms, best)
    <3> HIDE DEF best
    <3>1. [s \in SUBSET terms |-> IF s = {} THEN 0 ELSE Best(Taken(s)) + it[s \ {Taken(s)}]]
            = [s \in SUBSET terms |-> IF s = {} THEN 0 ELSE best[Taken(s)] + it[s \ {Taken(s)}]]
      BY <1>5
    <3> QED  BY Zenon, <3>1 DEF Sums
  <2>2. \E it : Folds(it)
    <3> HIDE DEF Folds, best
    <3> QED  BY <1>3, <2>1, SumsExist
  <2>3. Folds(sum)
    BY Zenon, <2>2
  <2> HIDE DEF Folds, best, sum
  <2> QED  BY <2>1, <2>3
<1>7. PICK raw \in Nat : raw = sum[terms]
  <2>1. \A t \in terms : best[t] \in Nat
    BY <1>4
  <2> HIDE DEF best, sum
  <2> QED  BY <1>3, <1>6, <2>1, SumsAreNatural
<1>8. KeywordScore(texts, music)
        = LET score == AtMost(MapThenSumSet(Best, terms) * 20, Full)
          IN  IF music THEN RoundDiv(score * 7, 10) ELSE score
  BY Zenon DEF KeywordScore, matches, terms, Best, Weights
<1> HIDE DEF sum
<1>9. PICK score \in 0 .. Full : score = AtMost(raw * 20, Full)
  BY DEF AtMost, Full
<1>10. KeywordScore(texts, music) = IF music THEN RoundDiv(score * 7, 10) ELSE score
  BY Zenon, <1>1, <1>7, <1>8, <1>9
<1>11. RoundDiv(score * 7, 10) \in 0 .. Full
  <2>1. score * 7 \in Nat /\ score * 7 <= Full * 10 /\ Full \in Nat /\ 10 \in Nat \ {0}
    BY DEF Full
  <2> QED  BY <2>1, QuotientBelow
<1> QED
  BY <1>10, <1>11

=============================================================================
