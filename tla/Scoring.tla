-------------------------------- MODULE Scoring --------------------------------
(***************************************************************************)
(* The combined score of a video, its verdict, and the test that lets the  *)
(* parallel pipeline skip the download.  Scores, limits and bonuses are in *)
(* hundredths of a point, weights in hundredths of one: a product of both  *)
(* is exact.  The ML score is 0 in every call the pipelines make.          *)
(***************************************************************************)
EXTENDS Integers

Ceiling == 10000                       \* a hundred points

Parts == {"keyword", "scene", "audio", "comment", "engagement", "thumbnail"}

\* A settings record is what _ConfigSnapshot takes from the configuration:
\* a weight per part, the factor the ML scorer leaves to the others (100 when
\* it is off), the three limits.
Weighted(s, p) ==
    s.weight["keyword"] * p["keyword"] + s.weight["scene"] * p["scene"]
      + s.weight["audio"] * p["audio"] + s.weight["comment"] * p["comment"]
      + s.weight["engagement"] * p["engagement"] + s.weight["thumbnail"] * p["thumbnail"]

Clamped(x, top) == IF x < 0 THEN 0 ELSE IF x > top THEN top ELSE x

\* round(x, 2), from the product of a weight, a score and a factor.
Rounded(x) == (x + 5000) \div 10000

\* A mistake: the combination without its cap.
CombinationUncapped(sum, others, bonus) == Rounded(sum * others + bonus * 10000)

\* compute_combined(): weighted sum, less what ML would weigh, plus the bonus,
\* clamped to 0 .. 100 and rounded to two decimals.
Combination(sum, others, bonus) == Rounded(Clamped(sum * others + bonus * 10000, Ceiling * 10000))

Combined(s, p, bonus) == Combination(Weighted(s, p), s.others, bonus)

\* A mistake: the thumbnail is forgotten among what the download may add.
MaxPossibleNoThumbnail(s, p) == Weighted(s, [p EXCEPT !["scene"] = Ceiling, !["audio"] = Ceiling])

\* max_possible_combined(): the bound knows nothing of the ML factor.
MaxPossible(s, p) ==
    Weighted(s, [p EXCEPT !["scene"] = Ceiling, !["audio"] = Ceiling,
                          !["thumbnail"] = Ceiling])

\* score_to_status() reads the limits of the moment through get_int(), which
\* truncates a fractional limit; the snapshot keeps the fraction.
WholePoints(limit) == (limit \div 100) * 100

Verdict(s, score) ==
    IF score >= WholePoints(s.block) THEN "block"
    ELSE IF score >= WholePoints(s.soft) THEN "soft_block"
    ELSE IF score >= WholePoints(s.monitor) THEN "monitor"
    ELSE "allow"

\* What the settings page asks for and the PUT handler does not check.
SoundLimits(s) ==
    /\ s.monitor <= s.soft /\ s.monitor <= s.block
    /\ \A limit \in {s.monitor, s.soft, s.block} : WholePoints(limit) = limit

NoDownload == [scene |-> 0, audio |-> 0, thumbnail |-> 0]

WithDownload(p, d) ==
    [p EXCEPT !["scene"] = d.scene, !["audio"] = d.audio, !["thumbnail"] = d.thumbnail]

\* _can_skip_download(): the first phase is enough to block ...
CertainBlock(s, p, bonus) == Combined(s, WithDownload(p, NoDownload), bonus) >= s.block

\* ... or no download could lift the video to the monitor limit.
CertainAllow(s, p, bonus) ==
    Clamped(MaxPossible(s, p) + bonus * 100, Ceiling * 100) < s.monitor * 100

CanSkipDownload(s, p, bonus) == CertainBlock(s, p, bonus) \/ CertainAllow(s, p, bonus)

=============================================================================
