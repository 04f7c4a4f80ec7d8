----------------------------- MODULE ContentScores -----------------------------
(***************************************************************************)
(* What each content analyzer makes of what it found in a video.  A score  *)
(* is in hundredths of a point, 0 .. 10000, because the code rounds every  *)
(* score to two decimals; text, pictures and sound are abstracted to the   *)
(* counts and ratios the code takes from them.  A ratio is in thousandths, *)
(* unless it is given by its two terms.  The Is... and Are... say what an  *)
(* analyzer may have counted, in a video it could read.                    *)
(***************************************************************************)
EXTENDS Integers, Sequences, FiniteSetsExt

Full == 10000

AtMost(x, top) == IF x < top THEN x ELSE top

AtLeast(x, floor) == IF x < floor THEN floor ELSE x

Between(x, floor, top) == AtLeast(AtMost(x, top), floor)

\* round(a / b) of Python for b > 0, but for the choice it makes at a tie.
RoundDiv(a, b) == (2 * a + b) \div (2 * b)

-----------------------------------------------------------------------------
(* keyword_analyzer.py.  A text is the number of times it holds each term. *)

\* Texts, and the terms of each, are finitely many.
IsText(text) ==
    /\ IsFiniteSet(DOMAIN text)
    /\ \A t \in DOMAIN text : t.weight \in Nat /\ text[t] \in Nat

IsTexts(texts) == IsFiniteSet(DOMAIN texts) /\ \A c \in DOMAIN texts : IsText(texts[c])

\* _search_text finds a word or phrase once, whatever its count; _search_emojis
\* counts an emoji of the built-in table up to five times.  Weights are in tenths.
MatchWeight(term, count) ==
    IF term.emoji THEN term.weight * AtMost(count, 5) ELSE term.weight

\* analyze() searches five texts; the thumbnail's OCR text for words only.
KeywordMatches(texts) ==
    UNION {{[term |-> t, weight |-> MatchWeight(t, texts[c][t])] :
               t \in {u \in DOMAIN texts[c] : texts[c][u] > 0
                                              /\ (c = "ocr" => ~u.emoji)}} :
           c \in DOMAIN texts}

\* _compute_score(): the best match of every term counts, and a sum of 50 is full
\* marks.  Music videos are damped to 0.7.
KeywordScore(texts, music) ==
    LET matches == KeywordMatches(texts)
        Best(t) == Max({m.weight : m \in {n \in matches : n.term = t}})
        raw == MapThenSumSet(Best, {m.term : m \in matches})
        score == AtMost(raw * 20, Full)
    IN  IF music THEN RoundDiv(score * 7, 10) ELSE score

-----------------------------------------------------------------------------
(* comment_analyzer.py.  No comments - none, no API key, an error of the API -  *)
(* and every part is zero.                                                      *)

NoComments == [comments |-> 0]

AreComments(c) ==
    /\ c.comments \in Nat
    /\ c.comments # 0 => {c.hits, c.words, c.emojis, c.chars, c.unique, c.caps, c.prints,
                          c.duplicates} \subseteq Nat

KeywordDensity(c) == AtMost(RoundDiv(c.hits * 80000, AtLeast(c.words, 1)), 4000)

EmojiFlood(c) == AtMost(RoundDiv(c.emojis * 6700, AtLeast(c.words, 1)), 2000)

\* Short comments, few distinct words and capitals each add their part.
CommentQuality(c) ==
    LET short == AtLeast(RoundDiv((15 * c.comments - c.chars) * 700, 15 * c.comments), 0)
        repetitive == AtLeast(RoundDiv((400 - c.unique) * 700, 400), 0)
        shouting == AtMost(2 * c.caps, 600)
    IN  AtMost(short + repetitive + shouting, 2000)

Repetition(c) ==
    IF c.prints = 0 THEN 0 ELSE AtMost(RoundDiv(c.duplicates * Full, c.prints), 2000)

CommentScore(c) ==
    IF c.comments = 0 THEN 0
    ELSE AtMost(KeywordDensity(c) + EmojiFlood(c) + CommentQuality(c) + Repetition(c), Full)

-----------------------------------------------------------------------------
(* engagement_analyzer.py.  The velocity is the decimal logarithm, in hundredths, *)
(* of the views per day; the channel's part is zero, because no pipeline passes    *)
(* channel data.                                                                   *)

AreFigures(e) == {e.views, e.days, e.magnitude, e.likes, e.comments, e.seconds} \subseteq Nat

ViewVelocity(e) ==
    IF e.days <= 0 \/ e.views <= 0 THEN 0 ELSE AtMost(3 * e.magnitude, 1500)

EngagementRatio(e) ==
    IF e.views <= 0 THEN 0 ELSE AtMost(RoundDiv((e.likes + e.comments) * Full, e.views), 1500)

LikeRatio(e) ==
    IF e.views <= 0 THEN 0 ELSE AtMost(RoundDiv(e.likes * Full, e.views), 1000)

CommentRatio(e) ==
    IF e.views <= 0 THEN 0 ELSE AtMost(RoundDiv(e.comments * 50000, e.views), 1000)

DurationPart(seconds) ==
    CASE seconds <= 0                    -> 0
      [] seconds \in 1 .. 60             -> 1000
      [] seconds \in 480 .. 720          -> 400
      [] seconds \in 61 .. 179           -> 600
      [] seconds > 3600                  -> 100
      [] OTHER                           -> 0

\* Each bait pattern found in the title adds the points of the pattern once.
BaitPoints == [question |-> 3, listicle |-> 3, urgency |-> 4, emotion |-> 4, caps |-> 3,
               reaction |-> 2, hooks |-> 3, numbers |-> 2, hyperbole |-> 1]

BaitPart(patterns) == AtMost(100 * MapThenSumSet(LAMBDA p : BaitPoints[p], patterns), 2000)

EngagementScore(e) ==
    AtMost(ViewVelocity(e) + EngagementRatio(e) + LikeRatio(e) + CommentRatio(e)
             + DurationPart(e.seconds) + BaitPart(e.bait), Full)

-----------------------------------------------------------------------------
(* thumbnail_analyzer.py: six parts of a decoded picture. *)

NoImage == [decoded |-> FALSE]

IsImage(i) ==
    /\ i.decoded \in BOOLEAN
    /\ i.decoded => {i.saturation, i.textArea, i.capsWords, i.redShapes, i.redArea, i.faces,
                     i.faceArea, i.edges, i.entropy, i.contrast, i.extremes} \subseteq Nat

SaturationPart(i) ==
    LET base == AtMost(RoundDiv(i.saturation * 3000, 255), 2000)
    IN  IF i.saturation90 > 220 THEN AtMost(base + 400, 2000) ELSE base

TextPart(i) ==
    LET content == (IF i.slang THEN 500 ELSE 0) + AtMost(i.capsWords * 100, 300)
                     + (IF i.exclaims THEN 200 ELSE 0)
    IN  AtMost(AtMost(i.textArea * 5, 1500) + AtMost(content, 1000), 2500)

RedPart(i) == AtMost(AtMost(i.redShapes * 250, 1000) + AtMost(i.redArea * 5, 500), 1500)

FacePart(i) ==
    IF i.faces = 0 THEN 0
    ELSE AtMost(AtMost(i.faceArea * 4, 800) + AtMost(i.faces * 250, 700), 1500)

\* Entropy is in hundredths of a bit.
ComplexityPart(i) ==
    AtMost(AtMost(RoundDiv(i.edges * 27, 10), 800) + AtMost(RoundDiv(i.entropy * 700, 800), 700), 1500)

BrightnessPart(i) ==
    AtMost(AtMost(RoundDiv(i.contrast * 500, 128), 500) + AtMost(i.extremes * 2, 500), 1000)

\* A thumbnail that cannot be had from any address, or not be decoded, scores zero;
\* "failed" names the parts whose library is missing or raises.
ThumbnailScore(i) ==
    LET Part(name, value) == IF name \in i.failed THEN 0 ELSE value
    IN  IF ~i.decoded THEN 0
        ELSE AtMost(Part("saturation", SaturationPart(i)) + Part("text", TextPart(i))
                      + Part("red", RedPart(i)) + Part("faces", FacePart(i))
                      + Part("complexity", ComplexityPart(i))
                      + Part("brightness", BrightnessPart(i)), Full)

\* The fallback of the pipeline when the analyzer cannot be imported or raises.
OcrFallback(triggers) == AtMost(triggers * 1500, Full)

-----------------------------------------------------------------------------
(* shorts_detector.py: points added to the combined score. *)

ShortsBonus(v) ==
    LET confirmed == v.address \/ v.hashtag
        short == confirmed \/ v.seconds \in 1 .. 60
    IN  CASE short /\ v.patterns > 0             -> 2000
          [] confirmed /\ v.patterns = 0         -> 1500
          [] short /\ ~confirmed /\ v.patterns = 0 -> 1000
          [] ~short                             -> AtMost(500 * v.patterns, 1500)

-----------------------------------------------------------------------------
(* scene_analyzer.py: cuts per minute on a curve of straight pieces. *)

ScoreCurve == << <<0, 0>>, <<5, 10>>, <<10, 25>>, <<20, 50>>,
                 <<35, 70>>, <<50, 85>>, <<75, 95>>, <<100, 100>> >>

\* _cpm_to_score() of cuts * 60 / seconds.
CpmScore(cuts, seconds) ==
    LET cpm == cuts * 60
        Beyond(x) == cpm >= x * seconds
    IN  CASE cuts = 0 \/ seconds = 0 -> 0
          [] seconds > 0 /\ cuts > 0 /\ Beyond(100) -> Full
          [] OTHER ->
               LET k == Min({j \in 1 .. 7 : ~Beyond(ScoreCurve[j + 1][1])})
                   x0 == ScoreCurve[k][1]      y0 == ScoreCurve[k][2]
                   x1 == ScoreCurve[k + 1][1]  y1 == ScoreCurve[k + 1][2]
               IN  100 * y0 + RoundDiv((cpm - x0 * seconds) * (y1 - y0) * 100,
                                       (x1 - x0) * seconds)

\* A scan that fails finds no cut in no time.  The dampening is in hundredths.
SceneScore(scan, music, dampening) ==
    LET raw == CpmScore(scan.cuts, scan.seconds)
    IN  IF music THEN RoundDiv(raw * dampening, 100) ELSE raw

-----------------------------------------------------------------------------
(* audio_analyzer.py.  Without ffmpeg, the file, a WAV or librosa: zero. *)

NoAudio == [loaded |-> FALSE]

IsSound(a) ==
    /\ a.loaded => {a.rms, a.range, a.flux, a.crossings, a.onsets} \subseteq Int
    /\ a.loaded /\ a.transcript => {a.phrases, a.nonsense, a.hits} \subseteq Int

\* rms in thousandths of full scale, the dynamic range in dB.
Loudness(a) ==
    Between(AtMost(a.rms * 20, 6000) + AtLeast(100 * (40 - a.range), 0), 0, Full)

\* Each measure is in thousandths of its norm (500, 0.2 and 10 per second).
Chaos(a) ==
    Between(5 * AtMost(a.flux, 1000) + 2 * AtMost(a.crossings, 1000)
              + 3 * AtMost(a.onsets, 1000), 0, Full)

\* Phrases heard three times, words that make up the speech, keywords in it; no
\* transcript (no Vosk model, no speech) and the part is zero.
Speech(a) ==
    IF ~a.transcript THEN 0
    ELSE AtMost(AtMost(a.phrases * 1000, 5000) + 3 * a.nonsense
                  + AtMost(a.hits * 500, 2000), Full)

\* The weights of the parts are settings, in hundredths, and need not sum to one.
AudioScore(a, w) ==
    IF ~a.loaded THEN 0
    ELSE Between(RoundDiv(Loudness(a) * w.loudness + Chaos(a) * w.chaos
                            + Speech(a) * w.nlp, 100), 0, Full)

=============================================================================
