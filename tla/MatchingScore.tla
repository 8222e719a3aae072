----------------------------- MODULE MatchingScore -----------------------------
(***************************************************************************)
(* How two people are compared for an introduction: the must-haves that    *)
(* exclude, the score of each direction, their harmonic mean, the ranking  *)
(* of the candidates and the reasons written on the card.  Pure operators  *)
(* over the snapshots of two people.                                       *)
(*                                                                         *)
(* A score, a fraction of 1 in the code, is a number of UnitScore-ths,     *)
(* rounded down.  A value that may be absent is a set of at most one       *)
(* element.                                                                *)
(***************************************************************************)
EXTENDS Integers, FiniteSets, Sequences, SequencesExt, TLC

UnitScore == 1200
Dimensions == {"personality", "values", "lifestyle", "relationship"}
DefaultImportance == 3

Clamp(n) == IF n < 0 THEN 0 ELSE IF n > UnitScore THEN UnitScore ELSE n
Gap(x, y) == IF x < y THEN y - x ELSE x - y
Known(option) == CHOOSE v \in option : TRUE

\* An answer from 1 to 5; anything else is no answer.
Likert(v) == {v} \cap (1 .. 5)

\* The mean of the values that are present, of a function or a sequence of
\* options.
Average(options) ==
    LET present == {i \in DOMAIN options : options[i] # {}}
    IN IF present = {} THEN {}
       ELSE {MapThenSumSet(LAMBDA i : Known(options[i]), present) \div Cardinality(present)}

HarmonicMean(a, b) == IF a <= 0 \/ b <= 0 THEN 0 ELSE (2 * a * b) \div (a + b)

\* How near two points of the scale from 1 to 5 are, both in units.
Near(x, y) == Clamp(UnitScore - Gap(x, y) \div 4)

Similarity(a, b) ==
    {Near(UnitScore * x, UnitScore * y) : x \in Likert(a), y \in Likert(b)}

\* An importance outside 1 to 5 counts as the default.
Importance(raw) == [d \in Dimensions |-> IF raw[d] \in 1 .. 5 THEN raw[d] ELSE DefaultImportance]

Axes == {"calm", "social"}

\* The mean of a person's answers on one axis, reversed questions turned round.
AxisMean(responses, category, axis) ==
    LET answers == {r \in responses :
                      r.category = category /\ r.axis = axis /\ r.value \in 1 .. 5}
        Turned(r) == UnitScore * (IF r.reverse THEN 6 - r.value ELSE r.value)
    IN IF answers = {} THEN {} ELSE {MapThenSumSet(Turned, answers) \div Cardinality(answers)}

CategorySimilarity(a, b, category) ==
    Average([axis \in Axes |->
               {Near(x, y) : x \in AxisMean(a, category, axis), y \in AxisMean(b, category, axis)}])

OverlapRatio(a, b) ==
    IF a = {} \/ b = {} THEN {}
    ELSE LET smaller == IF Cardinality(a) < Cardinality(b) THEN Cardinality(a) ELSE Cardinality(b)
         IN {(UnitScore * Cardinality(a \cap b)) \div smaller}

-----------------------------------------------------------------------------
\* Must-haves.

Below(option, x) == \E b \in option : x < b
Above(option, x) == \E b \in option : x > b
DrinkingOrder == [none |-> 0, sometimes |-> 1, often |-> 2]

\* What a must-have asks is not met by the candidate.  A must-have about an
\* answer that is missing is not met.
Unmet(rule, viewer, candidate) ==
    LET cand == candidate.profile
    IN \/ rule.kind = "age_range" /\ (Below(rule.min, cand.age) \/ Above(rule.max, cand.age))
       \/ rule.kind = "height_range" /\ (Below(rule.min, cand.height) \/ Above(rule.max, cand.height))
       \/ rule.kind = "smoking" /\ cand.smoking # "none"
       \/ rule.kind = "drinking" /\ DrinkingOrder[cand.drinking] > DrinkingOrder[rule.max]
       \/ rule.kind = "regions" /\ rule.codes # {} /\ cand.region \notin rule.codes
       \/ /\ rule.kind = "marriage_intent"
          /\ ~ \E i \in Likert(candidate.values.marriage) : i >= rule.min
       \/ /\ rule.kind = "children_intent"
          /\ ~ \E m \in Likert(viewer.values.children), t \in Likert(candidate.values.children) :
                 Gap(m, t) <= rule.maxGap
       \/ rule.kind = "religion" /\ cand.religion \in rule.exclude

CheckDealbreakers(viewer, candidate) ==
    {rule.kind : rule \in {r \in viewer.breakers : Unmet(r, viewer, candidate)}}

-----------------------------------------------------------------------------
\* The score of one direction.

PersonalityScore(viewer, candidate) ==
    Average(<<CategorySimilarity(viewer.responses, candidate.responses, "personality"),
              {(2 * UnitScore + 3 * fit) \div 5 :
                 fit \in OverlapRatio(viewer.prefs.keywords, candidate.profile.keywords)}>>)

\* The axes of the values; marriage and children weigh double.
ValueWeight == [marriage |-> 2, children |-> 2, spending |-> 1]

ValuesScore(viewer, candidate) ==
    LET sim == [x \in DOMAIN ValueWeight |-> Similarity(viewer.values[x], candidate.values[x])]
        both == {x \in DOMAIN ValueWeight : sim[x] # {}}
    IN IF both = {} THEN {}
       ELSE {MapThenSumSet(LAMBDA x : ValueWeight[x] * Known(sim[x]), both)
               \div MapThenSumSet(LAMBDA x : ValueWeight[x], both)}

SmokingFit == [none |-> UnitScore, sometimes |-> UnitScore \div 2, regular |-> UnitScore \div 5]

\* The region is a fact every profile has, so this dimension always has a score.
LifestyleScore(viewer, candidate) ==
    Average(<<CategorySimilarity(viewer.responses, candidate.responses, "lifestyle"),
              OverlapRatio(viewer.profile.hobbies, candidate.profile.hobbies),
              {IF viewer.profile.region = candidate.profile.region
                 THEN UnitScore ELSE (2 * UnitScore) \div 5},
              IF viewer.prefs.smoking = "prefer_non"
                THEN {SmokingFit[candidate.profile.smoking]} ELSE {}>>)

RelationshipScore(viewer, candidate) ==
    Average(<<CategorySimilarity(viewer.responses, candidate.responses, "relationship"),
              Similarity(viewer.values.contact, candidate.values.contact)>>)

DimensionScore(viewer, candidate) ==
    [personality |-> PersonalityScore(viewer, candidate),
     values |-> ValuesScore(viewer, candidate),
     lifestyle |-> LifestyleScore(viewer, candidate),
     relationship |-> RelationshipScore(viewer, candidate)]

Fits(direction, mine, theirs) ==
    CASE direction = "older" -> theirs > mine
      [] direction = "younger" -> theirs < mine
      [] direction = "same" -> theirs = mine

\* What the preferences add or take: they never exclude.
PreferenceFit(viewer, candidate) ==
    LET p == viewer.prefs
        cand == candidate.profile
        Within(range, x, good, bad) ==
            IF range.min = {} /\ range.max = {} THEN 0
            ELSE IF Below(range.min, x) \/ Above(range.max, x) THEN bad ELSE good
    IN Within(p.ages, cand.age, 36, -60)
       + (IF p.direction = "any" THEN 0
          ELSE IF Fits(p.direction, viewer.profile.age, cand.age) THEN 36 ELSE -36)
       + Within(p.heights, cand.height, 36, -60)
       + (IF p.regions = {} THEN 0 ELSE IF cand.region \in p.regions THEN 24 ELSE -36)

\* The mean of the dimensions that have a score, weighted by their importance.
WeightedBase(dims, weight) ==
    LET available == {d \in Dimensions : dims[d] # {}}
    IN IF available = {} THEN {}
       ELSE {MapThenSumSet(LAMBDA d : weight[d] * Known(dims[d]), available)
               \div MapThenSumSet(LAMBDA d : weight[d], available)}

DirectionalScore(viewer, candidate) ==
    LET dims == DimensionScore(viewer, candidate)
        base == WeightedBase(dims, Importance(viewer.importance))
    IN [dims |-> dims, base |-> base,
        score |-> {Clamp(b + PreferenceFit(viewer, candidate)) : b \in base}]

-----------------------------------------------------------------------------
\* Public facts: the answers chosen from lists.

Prompts == <<"day_off", "together", "important">>
MaxChoices == [day_off |-> 2, together |-> 2, important |-> 1]
PromptOptions == {"x", "y", "z"}
RelationshipGoals == {"serious", "take_it_slow"}

\* The first choices, in order, that are on the list, none twice, no more than
\* the prompt allows.
PickAllowedValues(prompt, raw) ==
    LET Take(kept, v) ==
          IF v \in PromptOptions /\ v \notin Range(kept) /\ Len(kept) < MaxChoices[prompt]
            THEN Append(kept, v) ELSE kept
    IN FoldLeft(Take, << >>, raw)

ReasonKinds == <<"hobbies", "region", "goal", "day_off", "together", "important", "keywords">>

\* What the public facts of both support.
ReasonHolds(a, b, reason) ==
    CASE reason = "hobbies" -> a.hobbies \cap b.hobbies # {}
      [] reason = "region" -> a.region = b.region
      [] reason = "goal" -> a.goal # "none" /\ a.goal = b.goal
      [] reason = "keywords" -> a.keywords \cap b.keywords # {}
      [] OTHER -> Range(PickAllowedValues(reason, a.answers[reason]))
                    \cap Range(PickAllowedValues(reason, b.answers[reason])) # {}

MaxReasons == 3

BuildReasons(a, b) ==
    LET reasons == SelectSeq(ReasonKinds, LAMBDA reason : ReasonHolds(a.profile, b.profile, reason))
    IN SubSeq(reasons, 1, IF Len(reasons) < MaxReasons THEN Len(reasons) ELSE MaxReasons)

-----------------------------------------------------------------------------
\* Two people compared.

NoScore == [basis |-> "none", total |-> {}, aToB |-> {}, bToA |-> {}]

ComputeMatch(a, b) ==
    LET oriented == a.profile.seeking = b.profile.gender /\ b.profile.seeking = a.profile.gender
        failed == CheckDealbreakers(a, b) \cup CheckDealbreakers(b, a)
        aToB == DirectionalScore(a, b).score
        bToA == DirectionalScore(b, a).score
        total == {HarmonicMean(x, y) : x \in aToB, y \in bToA}
    IN IF ~oriented \/ failed # {}
         THEN [eligible |-> FALSE, score |-> NoScore, reasons |-> << >>]
         ELSE [eligible |-> TRUE,
               score |-> [basis |-> IF total # {} THEN "scored" ELSE "conditions_only",
                          total |-> total, aToB |-> aToB, bToA |-> bToA],
               reasons |-> BuildReasons(a, b)]

\* The label kept with an introduction; rank 0 is the first.
PickStrategy(score, rank) ==
    IF score.basis # "scored" THEN "fallback"
    ELSE LET total == Known(score.total)
         IN IF total >= 744 /\ rank = 0 THEN "high_confidence"
            ELSE IF total >= 600 THEN "exploration" ELSE "fallback"

\* A plausible slip: equal keys decide nothing.
RankUntied(x, y, key) ==
    LET Total(r) == IF r.score.total = {} THEN 0 ELSE Known(r.score.total)
    IN Total(x) > Total(y) \/ (Total(x) = Total(y) /\ key[x.id] < key[y.id])

\* x comes before y: the scored ones first, the higher total first, then the
\* key of the day, then the id.
RankBefore(x, y, key) ==
    LET Rank(r) == IF r.score.basis = "scored" THEN 0 ELSE 1
        Total(r) == IF r.score.total = {} THEN 0 ELSE Known(r.score.total)
    IN \/ Rank(x) < Rank(y)
       \/ /\ Rank(x) = Rank(y)
          /\ \/ Total(x) > Total(y)
             \/ /\ Total(x) = Total(y)
                /\ \/ key[x.id] < key[y.id]
                   \/ key[x.id] = key[y.id] /\ x.id < y.id

RankCandidates(results, key) ==
    SetToSortSeq({r \in results : r.eligible}, LAMBDA x, y : RankBefore(x, y, key))
=============================================================================
