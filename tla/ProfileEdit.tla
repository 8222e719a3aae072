------------------------------ MODULE ProfileEdit ------------------------------
(***************************************************************************)
(* Changing what a person told about themselves: the basic facts, the      *)
(* preferences with the conditions that must hold, the private values and  *)
(* the public introduction.  A form is filled from the last answer of its  *)
(* query when it appears and keeps what was typed; the query may be        *)
(* answered again behind it.  "account" is the server's copy, "devices" the  *)
(* settings screens of the person's devices.                                *)
(***************************************************************************)
EXTENDS MatchingScore

CONSTANTS
    Devices,
    AgeTexts, HeightTexts,   \* what may be typed: a number, Empty, or Bad
    Places,                  \* regions to choose from
    Conditions,              \* kinds of conditions that exclude: age_range, regions, and some without a value
    MaxInputs, MaxSubmits, MaxReads, MaxBroken   \* bounds

ASSUME TextsAssumption == AgeTexts \cup HeightTexts \subseteq Nat

Empty == 0
Bad == 999

VARIABLES account, devices
profileEdit == <<account, devices>>

EditForms == {"start", "profile", "preferences", "values", "intro"}
\* One axis stands for the others, which are alike.
ValueAxes == {"marriage"}

Toggled(set, x) == IF x \in set THEN set \ {x} ELSE set \cup {x}

-----------------------------------------------------------------------------
\* Preferences: the form, and the rows it is stored as.

Num(text) == IF text \in {Empty, Bad} THEN {} ELSE {text}

InRange(pair, lo, hi) ==
    /\ \A i \in 1 .. 2 : \A n \in Num(pair[i]) : lo <= n /\ n <= hi
    /\ \A n \in Num(pair[1]), m \in Num(pair[2]) : n <= m

\* What the form asks before it sends anything.
ValidatePreferences(s) ==
    /\ Bad \notin {s.ages[1], s.ages[2], s.heights[1], s.heights[2]}
    /\ InRange(s.ages, 19, 80) /\ InRange(s.heights, 130, 220)

\* The settings: an empty field is null.
SettingsPayload(s) ==
    [ages |-> [i \in 1 .. 2 |-> Num(s.ages[i])], heights |-> [i \in 1 .. 2 |-> Num(s.heights[i])],
     regions |-> s.regions]

Condition(kind, ages, regions) == [kind |-> kind, ages |-> ages, regions |-> regions]
NoAges == [i \in 1 .. 2 |-> {}]

\* The conditions that are on; one without a value is not sent.
DealbreakerPayload(s) ==
    LET ages == SettingsPayload(s).ages
    IN {Condition("age_range", ages, {}) : k \in {x \in s.strict : x = "age_range" /\ ages # NoAges}}
       \cup {Condition("regions", NoAges, s.regions) : k \in {x \in s.strict : x = "regions" /\ s.regions # {}}}
       \cup {Condition(k, NoAges, {}) : k \in s.strict \ {"age_range", "regions"}}

\* The form for the rows read.
StateFromRows(settings, must) ==
    LET Text(n) == IF n = {} THEN Empty ELSE CHOOSE x \in n : TRUE
    IN [ages |-> [i \in 1 .. 2 |-> Text(settings.ages[i])],
        heights |-> [i \in 1 .. 2 |-> Text(settings.heights[i])],
        regions |-> settings.regions, strict |-> {d.kind : d \in must}]

PreferencesEqual(a, b) ==
    SettingsPayload(a) = SettingsPayload(b) /\ DealbreakerPayload(a) = DealbreakerPayload(b)

\* One input of the form.  "Any region" also turns its condition off.
PreferencesInputs(s) ==
    {[s EXCEPT !.ages[i] = t] : i \in 1 .. 2, t \in AgeTexts}
    \cup {[s EXCEPT !.heights[i] = t] : i \in 1 .. 2, t \in HeightTexts}
    \cup {[s EXCEPT !.heights = <<Empty, Empty>>]}
    \cup {[s EXCEPT !.regions = r] : r \in SUBSET Places}
    \cup {[s EXCEPT !.regions = {}, !.strict = @ \ {"regions"}]}
    \cup {[s EXCEPT !.strict = Toggled(@, k)] : k \in Conditions}

\* A plausible slip: only the kinds that are given are replaced.
KeptOthers(must, given) == {d \in must : d.kind \notin {g.kind : g \in given}}

\* preferences_save: the settings over the row, the given conditions, and no
\* other; all of it or nothing.
KeptConditions(must, given) == {}

SettingsAllowed(row) ==
    /\ \A i \in 1 .. 2 : (\A n \in row.ages[i] : n \in 19 .. 80) /\ (\A n \in row.heights[i] : n \in 130 .. 220)
    /\ \A n \in row.ages[1], m \in row.ages[2] : n <= m
    /\ \A n \in row.heights[1], m \in row.heights[2] : n <= m

PreferencesSave(acc, s) ==
    [acc EXCEPT !.settings = SettingsPayload(s),
                !.must = DealbreakerPayload(s) \cup KeptConditions(@, DealbreakerPayload(s)),
                !.log = @ \cup {"preferences_updated"}]

-----------------------------------------------------------------------------
\* The other three forms.

\* The basic facts.  A nickname is its two lengths after trimming: the form counts
\* units of UTF-16, the column characters, and an emoji is one character of two
\* units.  The keywords are their number; sex and year of birth are shown, not asked.
MaxKeywords == 3
Nicknames == {<<1, 1>>, <<2, 2>>, <<2, 1>>}

ProfileValid(v) ==
    /\ v.units >= 2 /\ v.birth \in 1950 .. 2007
    /\ \E h \in Num(v.height) : h \in 130 .. 220

ProfileInputs(v) ==
    {[v EXCEPT !.units = n[1], !.chars = n[2]] : n \in Nicknames}
    \cup {[v EXCEPT !.height = h] : h \in HeightTexts}
    \cup {[v EXCEPT !.words = n] : n \in {IF v.words < MaxKeywords THEN v.words + 1 ELSE v.words}}

ProfileAllowed(v) == v.chars \in 2 .. 12 /\ v.height \in 130 .. 220

\* The same form before the person has entered: what the verified identity says
\* is shown, what it does not say, or could not be read, is asked for.
Unknown == [birth |-> 0, sex |-> ""]
StartInputs(v) ==
    ProfileInputs(v)
    \cup (IF v.locked THEN {} ELSE {[v EXCEPT !.birth = y] : y \in {1949, 1990}}
                                   \cup {[v EXCEPT !.sex = x] : x \in {"male", "female"}})

StartForm(facts) ==
    [units |-> 0, chars |-> 0, birth |-> facts.birth, sex |-> facts.sex, height |-> Empty, words |-> 2,
     locked |-> facts.birth # 0 /\ facts.sex # ""]

\* A plausible slip: only the change after the entry is refused.
GuardEntered(acc, v) ==
    acc.entered => \A old \in acc.profile : v.birth = old.birth /\ v.sex = old.sex

\* The trigger on profiles: sex and year are those of the verified identity as
\* far as it says, and stay as they are once the person has entered.
GuardProfile(acc, v) ==
    /\ acc.facts.birth \in {0, v.birth} /\ acc.facts.sex \in {"", v.sex}
    /\ acc.entered => \A old \in acc.profile : v.birth = old.birth /\ v.sex = old.sex

\* The values.  The answer about earlier relationships may be taken back, which
\* also ends its sharing.
ValuesComplete(v) == \A a \in ValueAxes : v.axes[a] # 0

PastInputs(v) ==
    IF v.past = "" THEN {} ELSE {[v EXCEPT !.share = ~@], [v EXCEPT !.past = "", !.share = FALSE]}
ValuesInputs(v) ==
    {[v EXCEPT !.axes[a] = n] : a \in ValueAxes, n \in {1, 5}}
    \cup {[v EXCEPT !.past = p] : p \in {"few", "several"}}
    \cup PastInputs(v)

ValuesPayload(v) == [v EXCEPT !.share = v.past # "" /\ @]

\* The introduction: the first prompt is required; a prompt with one answer
\* takes the new one, a full one takes none.
IntroValid(v) == v.goal # "" /\ v.answers["day_off"] # << >>

Toggle(answers, prompt, value) ==
    LET now == answers[prompt]
        next == IF value \in Range(now) THEN SelectSeq(now, LAMBDA x : x # value)
                ELSE IF MaxChoices[prompt] = 1 THEN <<value>>
                ELSE IF Len(now) >= MaxChoices[prompt] THEN now ELSE Append(now, value)
    IN [answers EXCEPT ![prompt] = next]

IntroInputs(v) ==
    {[v EXCEPT !.goal = g] : g \in RelationshipGoals}
    \cup {[v EXCEPT !.answers = Toggle(@, p, x)] : p \in Range(Prompts), x \in PromptOptions}

NormalizePublicAnswers(answers) ==
    [p \in Range(Prompts) |-> PickAllowedValues(p, answers[p])]

\* All of them by the name of the form.
Inputs(f, v) ==
    CASE f = "start" -> StartInputs(v) [] f = "profile" -> ProfileInputs(v)
      [] f = "preferences" -> PreferencesInputs(v)
      [] f = "values" -> ValuesInputs(v) [] f = "intro" -> IntroInputs(v)

Valid(f, v) ==
    CASE f = "start" -> ProfileValid(v) /\ v.sex # "" [] f = "profile" -> ProfileValid(v)
      [] f = "preferences" -> ValidatePreferences(v)
      [] f = "values" -> ValuesComplete(v) [] f = "intro" -> IntroValid(v)

\* An event names a change of a person who has entered; none is written when
\* nothing changed.
Logged(acc, new, kind) == IF acc = new \/ ~acc.entered THEN new ELSE [new EXCEPT !.log = @ \cup {kind}]

\* What the server makes of a form that was sent: {} when it refuses.  The
\* settings' update leaves sex and year out.
ServerStores(acc, f, v) ==
    CASE f = "preferences" -> {PreferencesSave(acc, x) : x \in {y \in {v} : SettingsAllowed(SettingsPayload(y))}}
      [] f = "start" -> {[acc EXCEPT !.profile = {x}] : x \in {y \in {v} : ProfileAllowed(y) /\ GuardProfile(acc, y)}}
      [] f = "profile" ->
           LET Updated(old) == [v EXCEPT !.birth = old.birth, !.sex = old.sex]
           IN {Logged(acc, [acc EXCEPT !.profile = {Updated(old)}], "profile_updated") :
                 old \in {x \in acc.profile : ProfileAllowed(v) /\ GuardProfile(acc, Updated(x))}}
      [] f = "values" -> {Logged(acc, [acc EXCEPT !.values = ValuesPayload(v)], "values_updated")}
      [] f = "intro" -> {Logged(acc, [acc EXCEPT !.intro = [v EXCEPT !.answers = NormalizePublicAnswers(@)]],
                                "profile_updated")}

-----------------------------------------------------------------------------
NoFetch == [asking |-> FALSE, reply |-> {}, settings |-> {}, must |-> {}]
Closed == [open |-> FALSE, form |-> {}, busy |-> FALSE, call |-> {}, data |-> {}, failed |-> FALSE,
           fetch |-> NoFetch]

\* The forms share nothing: a behaviour uses one, the first of all or one of
\* the settings.
EditInit ==
    /\ \E page \in EditForms : account =
         [page |-> page, entered |-> page # "start",
          facts |-> [birth |-> 1990, sex |-> "male"],
          profile |-> {[units |-> 2, chars |-> 2, birth |-> 1990, sex |-> "male", height |-> 130, words |-> 2,
                         locked |-> TRUE] : x \in {page} \ {"start"}},
          settings |-> [ages |-> <<{19}, {}>>, heights |-> NoAges, regions |-> {}],
          must |-> {Condition("age_range", <<{19}, {}>>, {})},
          values |-> [axes |-> [a \in ValueAxes |-> 1], past |-> "", share |-> FALSE],
          intro |-> [goal |-> "serious", answers |-> [p \in Range(Prompts) |->
                       IF p = "day_off" THEN <<"x">> ELSE << >>]],
          log |-> {}, refused |-> {}, inputs |-> 0, saves |-> 0, reads |-> 0, broken |-> 0]
    /\ devices = [p \in Devices |-> Closed]

\* What a query answers.  The facts that cannot be read are unknown.
RowOf(f) ==
    CASE f = "start" -> {StartForm(account.facts)} [] f = "profile" -> account.profile
      [] f = "values" -> {account.values}
      [] f = "intro" -> {[account.intro EXCEPT !.answers = NormalizePublicAnswers(@)]}

\* A form appears as soon as there is data for it; the values' form also goes
\* away, with what was typed, while its query shows an error.
Appear(phone) ==
    IF ~phone.open THEN [phone EXCEPT !.form = {}, !.busy = FALSE]
    ELSE IF account.page = "values" /\ phone.failed THEN [phone EXCEPT !.form = {}]
    ELSE IF phone.form = {} THEN [phone EXCEPT !.form = phone.data] ELSE phone

\* A fetch drops the answer of the one under way; without data the error of the
\* last one goes.
Asks(phone) == [phone EXCEPT !.fetch = [NoFetch EXCEPT !.asking = TRUE], !.failed = @ /\ phone.data # {}]

\* Data younger than half a minute is not asked for again.
OpenForm(p) ==
    LET opened == [devices[p] EXCEPT !.open = TRUE]
    IN /\ ~devices[p].open
       /\ \/ /\ devices[p].data = {} \/ account.reads < MaxReads
             /\ account' = [account EXCEPT !.reads = IF devices[p].data = {} THEN @ ELSE @ + 1]
             /\ devices' = [devices EXCEPT ![p] = Appear(IF @.fetch.asking THEN opened ELSE Asks(opened))]
          \/ /\ devices[p].data # {} /\ UNCHANGED account
             /\ devices' = [devices EXCEPT ![p] = Appear(opened)]

\* "Try again" below the error.
Retry(p) ==
    /\ devices[p].open /\ devices[p].failed /\ ~devices[p].fetch.asking
    /\ devices' = [devices EXCEPT ![p] = Asks(@)]
    /\ UNCHANGED account

LeaveForm(p) ==
    /\ devices[p].open
    /\ devices' = [devices EXCEPT ![p] = Appear([@ EXCEPT !.open = FALSE])]
    /\ UNCHANGED account

\* The server answers a query; the two reads of the preferences run side by side.
Serve(p) ==
    LET fetch == devices[p].fetch
        Gets(new) == devices' = [devices EXCEPT ![p].fetch = new]
    IN /\ fetch.asking /\ fetch.reply = {}
       /\ \/ account.page # "preferences" /\ Gets([fetch EXCEPT !.reply = RowOf(account.page)])
          \/ account.page = "preferences" /\ fetch.settings = {} /\ Gets([fetch EXCEPT !.settings = {account.settings}])
          \/ account.page = "preferences" /\ fetch.must = {} /\ Gets([fetch EXCEPT !.must = {account.must}])
       /\ UNCHANGED account

\* What a complete answer says.
QueryAnswer(fetch) ==
    IF account.page = "preferences" THEN {StateFromRows(s, m) : s \in fetch.settings, m \in fetch.must}
    ELSE fetch.reply

Receive(p) ==
    /\ \E data \in QueryAnswer(devices[p].fetch) :
         devices' = [devices EXCEPT ![p] =
           Appear([@ EXCEPT !.data = {data}, !.failed = FALSE, !.fetch = NoFetch])]
    /\ UNCHANGED account

\* A query fails, also when it is repeated once; the facts never fail, they are
\* answered as unknown.
ReadFails(p) ==
    /\ account.broken < MaxBroken /\ devices[p].fetch.asking
    /\ devices' = [devices EXCEPT ![p] =
         IF account.page = "start" THEN [@ EXCEPT !.fetch.reply = {StartForm(Unknown)}]
         ELSE Appear([@ EXCEPT !.fetch = NoFetch, !.failed = TRUE])]
    /\ account' = [account EXCEPT !.broken = @ + 1]

\* The inputs are counted where a form has many states.
Type(p) ==
    /\ ~devices[p].busy /\ account.inputs < MaxInputs
    /\ \E v \in devices[p].form : \E w \in Inputs(account.page, v) \ {v} :
         devices' = [devices EXCEPT ![p].form = {w}]
    /\ account' = [account EXCEPT !.inputs = IF account.page \in {"preferences", "intro"} THEN @ + 1 ELSE @]

\* Preferences like those last read are not sent.
Submit(p) ==
    /\ ~devices[p].busy /\ devices[p].call = {} /\ account.saves < MaxSubmits
    /\ \E v \in devices[p].form :
         LET same == account.page = "preferences" /\ \E d \in devices[p].data : PreferencesEqual(d, v)
         IN /\ Valid(account.page, v)
            /\ devices' = [devices EXCEPT ![p] =
                 IF same THEN Appear([@ EXCEPT !.open = FALSE])
                 ELSE [@ EXCEPT !.busy = TRUE, !.call = {[value |-> v, answer |-> "none"]}]]
    /\ account' = [account EXCEPT !.saves = @ + 1]

\* The call is executed.  The first form may be refused for what could not be read;
\* what is refused of the others is kept.
Save(p) ==
    \E c \in devices[p].call :
      LET after == ServerStores(account, account.page, c.value)
      IN /\ c.answer = "none"
         /\ \/ /\ after = {}
               /\ account' = [account EXCEPT !.refused = @ \cup {v \in {c.value} : account.page # "start"}]
               /\ devices' = [devices EXCEPT ![p].call = {[c EXCEPT !.answer = "failed"]}]
            \/ /\ account' \in after
               /\ devices' = [devices EXCEPT ![p].call = {[c EXCEPT !.answer = "saved"]}]

\* The call does not arrive, or its answer is lost.
SaveLost(p) ==
    /\ account.broken < MaxBroken
    /\ \E c \in devices[p].call :
         c.answer # "failed" /\ devices' = [devices EXCEPT ![p].call = {[c EXCEPT !.answer = "failed"]}]
    /\ account' = [account EXCEPT !.broken = @ + 1]

\* A stored form is left, and its query is asked anew when it still shows.
\* After a failure the form stays as it is.  The first form leads on.
SaveAnswered(p) ==
    \E c \in devices[p].call :
      \/ /\ c.answer = "saved"
         /\ devices' = [devices EXCEPT ![p] =
              Appear([(IF @.open /\ account.page # "start" THEN Asks(@) ELSE @) EXCEPT !.call = {}, !.open = FALSE])]
         /\ UNCHANGED account
      \/ /\ c.answer = "failed"
         /\ devices' = [devices EXCEPT ![p].call = {}, ![p].busy = FALSE]
         /\ UNCHANGED account

\* The later steps of the entry end.
Enter ==
    /\ ~account.entered /\ account.profile # {}
    /\ account' = [account EXCEPT !.entered = TRUE]
    /\ UNCHANGED devices

EditNext == Enter \/ \E p \in Devices :
    \/ OpenForm(p) \/ Retry(p) \/ LeaveForm(p) \/ Serve(p) \/ Receive(p) \/ ReadFails(p)
    \/ Type(p) \/ Submit(p) \/ Save(p) \/ SaveLost(p) \/ SaveAnswered(p)

EditSpec == EditInit /\ [][EditNext]_profileEdit

-----------------------------------------------------------------------------
\* A condition is always the one of the settings stored with it, however old the
\* form was that was sent and whichever calls were lost: the ages and regions
\* that exclude are those of the settings (0024:136-249).
MustHavesAgree ==
    \A d \in account.must :
        /\ d.kind = "age_range" => d.ages = account.settings.ages /\ d.ages # NoAges
        /\ d.kind = "regions" => d.regions = account.settings.regions /\ d.regions # {}

\* A form of the settings that lets itself be sent is refused for nothing but a
\* nickname of one character that is two units (ProfileForm.tsx:94 against
\* 0001:116): at every other boundary it asks what the columns and triggers ask
\* (preferencesCore.ts:72).
ValidIsAccepted ==
    \A v \in account.refused : account.page = "profile" /\ v.units >= 2 /\ v.chars < 2

\* Reading the stored rows back gives a form that stores them again unchanged
\* (preferencesCore.ts:123).
RoundTrip ==
    LET s == StateFromRows(account.settings, account.must)
    IN SettingsPayload(s) = account.settings /\ DealbreakerPayload(s) = account.must

\* Only an answer that exists is shared, only choices of the list are public and
\* never more than a prompt takes; the required one is there.
PublicIsChosen ==
    /\ account.values.share => account.values.past # ""
    /\ account.intro.answers = NormalizePublicAnswers(account.intro.answers)
    /\ IntroValid(account.intro) /\ \A row \in account.profile : row.words <= MaxKeywords

\* Whatever form is sent, also one that could not read the verified identity and
\* asked, sex and year of birth stay those of the identity (0024:59-94).
FactsStay == \A row \in account.profile : row.birth = account.facts.birth /\ row.sex = account.facts.sex

EditInv == MustHavesAgree /\ ValidIsAccepted /\ RoundTrip /\ PublicIsChosen /\ FactsStay

\* Every form of the preferences shows what was stored together at some time.
\* The code does not promise it: the two parts are read side by side
\* (profileEdit.ts:79-88).
ShownWasStored ==
    account.page = "preferences" => \A p \in Devices : \A d \in devices[p].data :
        d.strict = {k.kind : k \in DealbreakerPayload(d)}
================================================================================
