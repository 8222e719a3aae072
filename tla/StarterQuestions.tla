--------------------------- MODULE StarterQuestions ---------------------------
(***************************************************************************)
(* The questions offered to open a conversation, made from the public      *)
(* facts of the two, and the copy of them kept with the conversation.      *)
(* A question is named by its basis, its prompt and the chosen value; the  *)
(* code's texts are different for different names.                         *)
(***************************************************************************)
EXTENDS MatchingScore

StarterMin == 2
StarterMax == 3
StarterVersion == 2

\* The hobbies that have a text; every option of a prompt has one.
HobbyTexts == {"h1", "h2"}
HasText(prompt, value) == value \in PromptOptions

GeneralQuestions == <<"general1", "general2", "general3">>

Question(basis, prompt, value) == [basis |-> basis, prompt |-> prompt, value |-> value]

\* The allowed answers of a person, prompt by prompt.
AnswersOf(facts) == [prompt \in ToSet(Prompts) |-> PickAllowedValues(prompt, facts.answers[prompt])]

\* The partner's answers in the order of the prompts, each as a shared question
\* when the viewer chose it too and as one about the partner when not.
PromptQuestions(viewer, partner) ==
    FlattenSeq([k \in DOMAIN Prompts |->
      LET prompt == Prompts[k]
          theirs == SelectSeq(AnswersOf(partner)[prompt], LAMBDA v : HasText(prompt, v))
          mine == ToSet(AnswersOf(viewer)[prompt])
      IN [i \in DOMAIN theirs |->
            Question(IF theirs[i] \in mine THEN "shared" ELSE "partner", prompt, theirs[i])]])

HobbyQuestions(viewer, partner) ==
    LET both == SetToSeq(viewer.hobbies \cap partner.hobbies \cap HobbyTexts)
    IN [i \in DOMAIN both |-> Question("shared", "hobby", both[i])]

\* What both chose first, then what the partner chose, at most three; general
\* questions only up to the least number.
GenerateStarterQuestions(viewer, partner) ==
    LET fromPrompts == PromptQuestions(viewer, partner)
        Of(basis) == SelectSeq(fromPrompts, LAMBDA q : q.basis = basis)
        grounded == Of("shared") \o HobbyQuestions(viewer, partner) \o Of("partner")
        kept == SubSeq(grounded, 1, Min({Len(grounded), StarterMax}))
        lacking == Max({0, StarterMin - Len(kept)})
    IN kept \o [i \in 1 .. lacking |-> Question("general", "none", GeneralQuestions[i])]

BuildStarterCache(questions) == [version |-> StarterVersion, questions |-> questions]

\* A plausible slip: the version is not looked at.
AnyCopy(raw) == {c \in {raw} : c.questions # << >>}

\* A copy of another version, or without questions, is no copy.
ParseStarterCache(raw) ==
    {c \in {raw} : c.version = StarterVersion /\ c.questions # << >>}
=============================================================================
