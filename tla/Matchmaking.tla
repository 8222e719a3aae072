------------------------------ MODULE Matchmaking ------------------------------
(***************************************************************************)
(* The rows three people keep about themselves, as they edit them, and     *)
(* what the comparison of MatchingScore and the questions of               *)
(* StarterQuestions make of them.  Person 1 asks for an introduction;      *)
(* 1 and 2 also have a conversation, which keeps a copy of its opening     *)
(* questions.                                                              *)
(***************************************************************************)
EXTENDS StarterQuestions

CONSTANTS
    MaxSaves,     \* bound: how often a row is saved
    MaxOpenings   \* bound: how often the opening questions are asked for

VARIABLES saved, keys, opening
matchmaking == <<saved, keys, opening>>

People == 1 .. 3

\* The questionnaire: q1 and q2 are of one axis, q2 is asked the other way
\* round; q9 is no longer asked.
QuestionMeta ==
    [q1 |-> [category |-> "personality", axis |-> "calm", reverse |-> FALSE],
     q2 |-> [category |-> "personality", axis |-> "calm", reverse |-> TRUE],
     q3 |-> [category |-> "relationship", axis |-> "social", reverse |-> FALSE]]

NoLimits == [min |-> {}, max |-> {}]
NoAnswers == [day_off |-> << >>, together |-> << >>, important |-> << >>]
NoValues == [marriage |-> 0, children |-> 0, spending |-> 0, contact |-> 0]
DefaultPrefs ==
    [ages |-> NoLimits, direction |-> "any", heights |-> NoLimits, regions |-> {},
     smoking |-> "any", keywords |-> {},
     importance |-> [d \in Dimensions |-> DefaultImportance]]

\* A person's rows as one snapshot: no row of private values is no answers, no
\* row of preferences the defaults, and an answer to a question that is no
\* longer asked is dropped.
LoadSnapshot(row) ==
    LET prefs == IF row.prefs = {} THEN DefaultPrefs ELSE Known(row.prefs)
    IN [profile |-> row.profile,
        values |-> IF row.private = {} THEN NoValues ELSE Known(row.private),
        responses |-> {[value |-> r.value] @@ QuestionMeta[r.question] :
                         r \in {a \in row.responses : a.question \in DOMAIN QuestionMeta}},
        importance |-> prefs.importance,
        prefs |-> prefs,
        breakers |-> row.breakers]

-----------------------------------------------------------------------------
\* What is saved: a change of some fields of the profile, of the private
\* values, or the whole form of preferences with its must-haves.

ProfileChanges ==
    {[region |-> "r2"], [smoking |-> "regular"], [drinking |-> "often"], [age |-> 40],
     [religion |-> "faith"], [hobbies |-> {"h1", "h3"}], [hobbies |-> {"h1", "h2"}],
     [keywords |-> {"k1"}], [goal |-> "serious"], [goal |-> "none"],
     [answers |-> [NoAnswers EXCEPT !.day_off = <<"q", "x", "x", "y", "z">>]],
     [answers |-> [NoAnswers EXCEPT !.day_off = <<"x">>, !.important = <<"y">>]],
     [answers |-> [NoAnswers EXCEPT !.day_off = <<"z", "y">>, !.together = <<"x", "z">>, !.important = <<"y", "x">>]]}

ValueChanges == {[marriage |-> 1], [marriage |-> 4], [children |-> 1], [children |-> 5], [contact |-> 3], [contact |-> 6]}

PrefsForms ==
    {[form |-> DefaultPrefs, breakers |-> {}],
     [form |-> [DefaultPrefs EXCEPT !.ages.min = {20}, !.ages.max = {35}],
      breakers |-> {[kind |-> "age_range", min |-> {20}, max |-> {35}]}],
     [form |-> [DefaultPrefs EXCEPT !.direction = "older", !.heights.min = {180}, !.regions = {"r1"}],
      breakers |-> {[kind |-> "regions", codes |-> {"r1"}]}],
     [form |-> [DefaultPrefs EXCEPT !.smoking = "prefer_non", !.keywords = {"k1"}],
      breakers |-> {[kind |-> "smoking"], [kind |-> "drinking", max |-> "sometimes"]}],
     [form |-> [DefaultPrefs EXCEPT !.importance["values"] = 5, !.importance["personality"] = 1],
      breakers |-> {[kind |-> "marriage_intent", min |-> 2], [kind |-> "religion", exclude |-> {"faith"}]}],
     [form |-> [DefaultPrefs EXCEPT !.importance["lifestyle"] = 0],
      breakers |-> {[kind |-> "children_intent", maxGap |-> 2]}]}

ResponseRows == {[question |-> q, value |-> v] : q \in {"q1", "q2", "q3", "q9"}, v \in {1, 5}}

CountSave == opening.saves < MaxSaves /\ opening' = [opening EXCEPT !.saves = @ + 1]

SaveProfile(p, change) ==
    /\ CountSave
    /\ saved' = [saved EXCEPT ![p].profile = change @@ @]
    /\ UNCHANGED keys

SaveValues(p, change) ==
    /\ CountSave
    /\ saved' = [saved EXCEPT ![p].private = {change @@ (IF @ = {} THEN NoValues ELSE Known(@))}]
    /\ UNCHANGED keys

\* One transaction: the settings and all must-haves.
SavePreferencesRow(p, save) ==
    /\ CountSave
    /\ saved' = [saved EXCEPT ![p].prefs = {save.form}, ![p].breakers = save.breakers]
    /\ UNCHANGED keys

SaveResponse(p, r) ==
    /\ CountSave
    /\ saved' = [saved EXCEPT ![p].responses = {a \in @ : a.question # r.question} \cup {r}]
    /\ UNCHANGED keys

Other(p) == 3 - p

\* The opening questions for one of the two: always made anew for the one who
\* asks; kept with the conversation unless a copy of this version is there.
\* Keeping it may fail without a word.
AskForQuestions(p, kept) ==
    /\ opening.asked < MaxOpenings
    /\ \E questions \in {GenerateStarterQuestions(saved[p].profile, saved[Other(p)].profile)} :
         opening' = [opening EXCEPT !.asked = @ + 1,
                      !.shown[p] = questions,
                      !.copy = IF kept /\ ParseStarterCache(@) = {}
                                 THEN BuildStarterCache(questions) ELSE @]
    /\ UNCHANGED <<saved, keys>>

\* Opening the chat shows the copy kept with the conversation when there is one.
OpenWithCopy(p) ==
    /\ opening.asked < MaxOpenings
    /\ ParseStarterCache(opening.copy) # {}
    /\ opening' = [opening EXCEPT !.asked = @ + 1, !.shown[p] = opening.copy.questions]
    /\ UNCHANGED <<saved, keys>>

-----------------------------------------------------------------------------

BaseProfile ==
    [gender |-> "f", seeking |-> "m", age |-> 30, height |-> 170, region |-> "r1",
     smoking |-> "none", drinking |-> "none", religion |-> "none", hobbies |-> {},
     keywords |-> {}, goal |-> "none", answers |-> NoAnswers]

BlankRow == [profile |-> BaseProfile, private |-> {}, responses |-> {}, prefs |-> {}, breakers |-> {}]

\* A row with something in every table.
FullRow ==
    [profile |-> [BaseProfile EXCEPT !.age = 25, !.hobbies = {"h1", "h2", "h3"}, !.keywords = {"k1", "k2"},
                    !.goal = "serious",
                    !.answers = [NoAnswers EXCEPT !.day_off = <<"x", "y">>, !.important = <<"y">>]],
     private |-> {[marriage |-> 2, children |-> 3, spending |-> 5, contact |-> 1]},
     responses |-> {[question |-> "q1", value |-> 4], [question |-> "q3", value |-> 2]},
     prefs |-> {[DefaultPrefs EXCEPT !.importance["values"] = 5, !.keywords = {"k1", "k2"}]},
     breakers |-> {}]

\* The person asking is of the other gender than the candidates.
Asking(row) == [row EXCEPT !.profile.gender = "m", !.profile.seeking = "f"]

MatchmakingInit ==
    /\ \E mine, theirs \in {BlankRow, FullRow} :
         saved = [p \in People |-> CASE p = 1 -> Asking(mine) [] p = 2 -> theirs [] OTHER -> FullRow]
    /\ keys \in [2 .. 3 -> {0}] \cup [2 .. 3 -> {1}] \cup {[c \in 2 .. 3 |-> 3 - c]}
    /\ opening = [saves |-> 0, asked |-> 0, shown |-> [p \in 1 .. 2 |-> << >>],
                  copy |-> [version |-> 1, questions |-> <<Question("old", "none", "none")>>]]

MatchmakingNext ==
    \/ \E p \in 1 .. 2 :
         \/ \E c \in ProfileChanges : SaveProfile(p, c)
         \/ \E c \in ValueChanges : SaveValues(p, c)
         \/ \E s \in PrefsForms : SavePreferencesRow(p, s)
         \/ \E r \in ResponseRows : SaveResponse(p, r)
         \/ \E kept \in BOOLEAN : AskForQuestions(p, kept)
         \/ OpenWithCopy(p)

MatchmakingSpec == MatchmakingInit /\ [][MatchmakingNext]_matchmaking

-----------------------------------------------------------------------------
\* What every pair of snapshots must satisfy.

\* The snapshots of the three and what comes of comparing any two of them.
Snapshots(rows) == [p \in People |-> LoadSnapshot(rows[p])]
Comparisons(snap) == [a, b \in People |-> ComputeMatch(snap[a], snap[b])]

\* Comparing a with b and b with a is one question: the same eligibility and
\* the same total (MatchingEngine.ts:333-375).
SymmetricMatch(match) ==
    \A a, b \in People :
        /\ match[a, b].eligible = match[b, a].eligible
        /\ match[a, b].score.total = match[b, a].score.total
        /\ ToSet(match[a, b].reasons) = ToSet(match[b, a].reasons)

\* The total never exceeds the mean of the two directions and never hides that
\* one of them is low: it lies between them.
TotalBetween(match) ==
    \A a, b \in People :
        LET s == match[a, b].score
        IN \A t \in s.total, x \in s.aToB, y \in s.bToA :
             /\ 2 * t <= x + y
             /\ t + 1 >= x \/ t + 1 >= y \/ x = 0 \/ y = 0

\* A dimension without a score counts as if it were not there: its importance
\* does not matter, and the base lies between the scores that are there.
MissingDimensionNeutral(snap) ==
    \A a, b \in People :
        LET dims == DimensionScore(snap[a], snap[b])
            present == {d \in Dimensions : dims[d] # {}}
            Base(d, w) == WeightedBase(dims, [Importance(snap[a].importance) EXCEPT ![d] = w])
        IN /\ \A d \in Dimensions \ present : Base(d, 1) = Base(d, 5)
           /\ \A base \in DirectionalScore(snap[a], snap[b]).base :
                /\ \E d \in present : Known(dims[d]) <= base
                /\ \E d \in present : Known(dims[d]) >= base

\* A must-have about a private answer that is missing is never met, and with
\* no must-haves nobody is excluded.
MustHavesDecide(snap, match) ==
    \A a, b \in People :
        LET kinds == {r.kind : r \in snap[a].breakers}
            missing(p, x) == Likert(snap[p].values[x]) = {}
        IN /\ "marriage_intent" \in kinds /\ missing(b, "marriage") => ~match[a, b].eligible
           /\ "children_intent" \in kinds /\ (missing(a, "children") \/ missing(b, "children"))
                => ~match[a, b].eligible
           /\ snap[a].breakers \cup snap[b].breakers = {} /\ {a, b} \cap {1} # {} /\ a # b
                => match[a, b].eligible

\* Whatever the keys, exactly one of two candidates comes before the other, so
\* the order does not depend on the one they were read in; no candidate without
\* a total comes before one with a total.
RankingIsTotal(results) ==
    /\ \A x, y \in results :
         /\ RankBefore(x, y, keys) => ~RankBefore(y, x, keys)
         /\ x # y => RankBefore(x, y, keys) \/ RankBefore(y, x, keys)
    /\ \A x, y \in results :
         x.eligible /\ y.eligible /\ RankBefore(x, y, keys) =>
            /\ \A t \in y.score.total : \E s \in x.score.total : s >= t
            /\ LET ranked == RankCandidates(results, keys)
               IN \A i \in DOMAIN ranked : ranked[i] = y => \E j \in 1 .. i : ranked[j] = x

\* A reason is true of the public facts and does not tell private answers: it
\* stays the same when those are gone (MatchingEngine.ts:391).
ReasonsPublic(match, bare) ==
    \A b \in 2 .. 3 :
        /\ match[1, b].eligible => match[1, b].reasons = ComputeMatch(bare[1], bare[b]).reasons
        /\ Len(match[1, b].reasons) <= MaxReasons

\* The label of an introduction says no more than its score: high confidence
\* only of the first, and nothing but a fallback without a total.
StrategyModest(results) ==
    \A r \in results, rank \in 0 .. 1 :
        LET label == PickStrategy(r.score, rank)
        IN /\ label = "high_confidence" => rank = 0 /\ r.score.basis = "scored"
           /\ label # "fallback" => \E x \in r.score.aToB : \E y \in r.score.bToA : 2 * 600 <= x + y

OnlyPublic(row) == [row EXCEPT !.private = {}, !.responses = {}, !.prefs = {}, !.breakers = {}]

\* Comparing two people: one verdict whichever is asked first, a total that
\* hides no low side, no score made up for missing answers, must-haves that
\* silence does not satisfy, an order of candidates that does not depend on how
\* they were read, and reasons that show nothing private
\* (MatchingEngine.ts:134-480).
ScoreInv ==
    \* a set of one element has its value computed once
    \A snap \in {Snapshots(saved)}, bare \in {Snapshots([p \in People |-> OnlyPublic(saved[p])])} :
    \A match \in {Comparisons(snap)} :
    \A results \in {{match[1, c] @@ [id |-> c] : c \in 2 .. 3}} :
        /\ SymmetricMatch(match) /\ TotalBetween(match) /\ MissingDimensionNeutral(snap)
        /\ MustHavesDecide(snap, match) /\ RankingIsTotal(results)
        /\ ReasonsPublic(match, bare) /\ StrategyModest(results)

\* What is claimed of two people's public facts: 'shared' of both, 'partner' of
\* the partner only.
Claims(q, viewer, partner) ==
    LET Has(facts) == IF q.prompt = "hobby" THEN q.value \in facts.hobbies
                      ELSE \E i \in DOMAIN facts.answers[q.prompt] : facts.answers[q.prompt][i] = q.value
    IN CASE q.basis = "shared" -> Has(viewer) /\ Has(partner)
         [] q.basis = "partner" -> Has(partner)
         [] OTHER -> TRUE

\* The questions made for one of the two: two or three, none twice, and none
\* claims what the public answers of the two do not say
\* (starterQuestions.ts:204-247).
StartersTruthful ==
    \A p \in 1 .. 2 : \A mine \in {saved[p].profile}, theirs \in {saved[Other(p)].profile} :
    \A made \in {GenerateStarterQuestions(mine, theirs)} :
        /\ Len(made) \in StarterMin .. StarterMax
        /\ IsInjective(made)
        /\ \A i \in DOMAIN made :
             /\ Claims(made[i], mine, theirs)
             /\ made[i].basis = "general" => \A j \in i .. Len(made) : made[j].basis = "general"

\* Old copies, which may have been made from private answers, are never shown
\* (icebreaker/index.ts:69-72).
OldCopyHidden ==
    \A p \in 1 .. 2 : \A i \in DOMAIN opening.shown[p] : opening.shown[p][i].basis # "old"

StartersInv == StartersTruthful /\ OldCopyHidden

\* A question about the partner that is on the screen is about the partner.
\* The code breaks it: the copy kept with the conversation is the one of who
\* asked first (icebreaker/index.ts:9, chat screen line 186).
PartnerMeansPartner ==
    \A p \in 1 .. 2 : \A i \in DOMAIN opening.shown[p] :
        LET q == opening.shown[p][i]
        IN opening.saves = 0 => Claims(q, saved[p].profile, saved[Other(p)].profile)
=============================================================================
