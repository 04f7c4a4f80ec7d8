------------------------------- MODULE MCPipeline -------------------------------
(* The evidence and the settings TLC runs the pipeline on, and the scoring     *)
(* functions against independent definitions over small ranges of their input. *)
EXTENDS Pipeline

Slang == [word : {"skibidi", "rizz", "gyatt", "sigma"}, emoji : {FALSE}, weight : {80}]
Skull == [word |-> "skull", emoji |-> TRUE, weight |-> 30]

\* A text that holds every term n times.
Holding(terms, n) == [t \in terms |-> n]

Quiet == [loaded |-> TRUE, rms |-> 50, range |-> 45, flux |-> 100, crossings |-> 200,
          onsets |-> 100, transcript |-> FALSE]
Loud  == [loaded |-> TRUE, rms |-> 400, range |-> 5, flux |-> 900, crossings |-> 1500,
          onsets |-> 1200, transcript |-> TRUE, phrases |-> 6, nonsense |-> 800, hits |-> 5]

Dull  == [decoded |-> TRUE, failed |-> {"faces"}, saturation |-> 60, saturation90 |-> 120,
          textArea |-> 0, slang |-> FALSE, capsWords |-> 0, exclaims |-> FALSE,
          redShapes |-> 0, redArea |-> 0, faces |-> 0, faceArea |-> 0,
          edges |-> 50, entropy |-> 500, contrast |-> 20, extremes |-> 10]
Gaudy == [decoded |-> TRUE, failed |-> {}, saturation |-> 200, saturation90 |-> 250,
          textArea |-> 300, slang |-> TRUE, capsWords |-> 5, exclaims |-> TRUE,
          redShapes |-> 5, redArea |-> 200, faces |-> 3, faceArea |-> 400,
          edges |-> 400, entropy |-> 780, contrast |-> 120, extremes |-> 400]

Plain  == [views |-> 1000, days |-> 100, magnitude |-> 100, likes |-> 20, comments |-> 1,
           seconds |-> 1500, bait |-> {}]
Viral  == [views |-> 200000, days |-> 10, magnitude |-> 430, likes |-> 30000,
           comments |-> 4000, seconds |-> 45, bait |-> {"urgency", "caps", "hooks"}]

Lecture == [category |-> "Education", texts |-> [title |-> Holding(Slang, 0), captions |-> Holding(Slang, 0)],
            comments |-> NoComments, figures |-> Plain, image |-> Dull, triggers |-> 0,
            scan |-> [cuts |-> 2, seconds |-> 45], sound |-> Quiet,
            signs |-> [address |-> FALSE, hashtag |-> FALSE, seconds |-> 1500, patterns |-> 0]]

Brainrot == [category |-> "Music",
             texts |-> [title |-> Holding({Skull}, 9), captions |-> Holding(Slang, 7)],
             comments |-> [comments |-> 50, hits |-> 60, words |-> 300, emojis |-> 90,
                           chars |-> 400, unique |-> 200, caps |-> 300, prints |-> 50,
                           duplicates |-> 20],
             figures |-> Viral, image |-> Gaudy, triggers |-> 3,
             scan |-> [cuts |-> 40, seconds |-> 45], sound |-> Loud,
             signs |-> [address |-> FALSE, hashtag |-> TRUE, seconds |-> 45, patterns |-> 2]]

MCVideos == {Lecture, Brainrot}

Defaults == [weight |-> [keyword |-> 25, scene |-> 20, audio |-> 15, comment |-> 15,
                         engagement |-> 10, thumbnail |-> 10],
             others |-> 100, monitor |-> 2000, soft |-> 3500, block |-> 5500, music |-> 60,
             audio |-> [loudness |-> 40, chaos |-> 35, nlp |-> 25]]

\* Keywords count most, the ML scorer is on, and the limits are raised; and a limit
\* with a fraction, which PUT /api/settings accepts.
Textual  == [Defaults EXCEPT !.weight = [keyword |-> 110, scene |-> 5, audio |-> 5,
                 comment |-> 20, engagement |-> 10, thumbnail |-> 15],
                 !.others = 95, !.monitor = 3000, !.soft = 4000]
Fraction == [Textual EXCEPT !.weight["keyword"] = 100, !.monitor = 2950, !.others = 100]

MCSettings == {Defaults, Textual}

-----------------------------------------------------------------------------
(* The curve of cuts per minute as one minimum of lines is not concave, so it is *)
(* compared with its points and required to be monotone between them.            *)
ASSUME CurvePoints == \A k \in 1 .. 8 : CpmScore(ScoreCurve[k][1], 60) = 100 * ScoreCurve[k][2]
ASSUME CurveRises == \A c \in 0 .. 120 : \A s \in {20, 45, 60} :
                        CpmScore(c, s) <= CpmScore(c + 1, s)
ASSUME CurveFalls == \A c \in 0 .. 60 : \A s \in 30 .. 60 : CpmScore(c, s) >= CpmScore(c, s + 1)

ASSUME ScoresBounded ==
  /\ \A v \in MCVideos : \A m \in BOOLEAN :
       /\ KeywordScore(v.texts, m) \in 0 .. Full
       /\ SceneScore(v.scan, m, 60) \in 0 .. Full
  /\ \A n \in 0 .. 12 : OcrFallback(n) \in 0 .. Full
  /\ ThumbnailScore(NoImage) = 0 /\ AudioScore(NoAudio, Defaults.audio) = 0

\* What a Short adds, whatever duration, address and title say of it: never less than a
\* video that is none, and at most twenty points.
ASSUME ShortsRank ==
  \A a, h \in BOOLEAN : \A d \in {0, 45, 60, 61} : \A n \in 0 .. 4 :
    LET bonus == ShortsBonus([address |-> a, hashtag |-> h, seconds |-> d, patterns |-> n])
    IN  /\ bonus \in 0 .. 2000
        /\ bonus >= ShortsBonus([address |-> FALSE, hashtag |-> FALSE, seconds |-> 61, patterns |-> n])

\* The longer way to write the bands of score_to_status().
ASSUME BandsMeet ==
  \A s \in MCSettings \cup {Fraction} : \A x \in {0, 1999, 2000, 2949, 2950, 2999, 3000, 3499, 3500, 5499, 5500, Full} :
    Verdict(s, x) = IF x < WholePoints(s.monitor) THEN "allow"
                    ELSE IF x < WholePoints(s.soft) THEN "monitor"
                    ELSE IF x < WholePoints(s.block) THEN "soft_block" ELSE "block"

\* Under the default weights the first phase, whatever it finds, never decides.
ASSUME DefaultsNeverSkip ==
  \A k, c, e \in {0, 2500, Full} :
    ~CanSkipDownload(Defaults, WithDownload([keyword |-> k, comment |-> c, engagement |-> e,
                                             scene |-> 0, audio |-> 0, thumbnail |-> 0], NoDownload), 0)

\* Why EarlyExitAgrees asks for whole limits: with 29.5 points the early exit allows
\* what a complete analysis would flag from 29 points on.
ASSUME FractionMisleads ==
  \E e \in 0 .. Full :
    LET p == [q \in Parts |-> IF q = "engagement" THEN e ELSE 0]
        worst == [scene |-> Full, audio |-> Full, thumbnail |-> Full]
    IN  CertainAllow(Fraction, p, 0)
        /\ Verdict(Fraction, Combined(Fraction, WithDownload(p, worst), 0)) = "monitor"

=============================================================================
