-------------------------------- MODULE MCGates --------------------------------
(***************************************************************************)
(* Seven components that share no state, for TLC in one run: "part" is the *)
(* one a behaviour belongs to; the others stay in an initial state, or are *)
(* absent.  Their properties need no fairness.                             *)
(***************************************************************************)
EXTENDS BetaInvites, SmsOtp, AdminLogin, AdminMembers, ChatClient, ProfileEdit, MeetupScreen,
        TLC

CONSTANTS u1, u2, r1, r2, i1, i2, h1, h2, k1, k2, f1, f2, o1, o2, t1, t2, s1, c1, d1

VARIABLE part

gateVars == <<part, invites, sms, adminLogin, adminMembers, chatVars, profileEdit, meetupScreen>>
Parts == {"invites", "sms", "login", "members", "chat", "edit", "meetup"}

Absent == "absent"

\* Each cohort has one code.
CohortsOfCodes == i1 :> h1 @@ i2 :> h2

\* The two calls, hooks, forms and orders are alike; a behaviour has those of
\* one part only, so that one exchange of all of them is enough.
Alike == {Calls, Hooks, Forms, Orders}
GateSymmetry ==
    {f \in Permutations(UNION Alike) : \/ \A x \in DOMAIN f : f[x] = x
                                       \/ \A S \in Alike, x \in DOMAIN f : x \in S => f[x] \in S \ {x}}

\* One initial state is enough for a part at rest.
GatesInit ==
    /\ part \in Parts
    /\ InvitesInit /\ SmsInit /\ AdminLoginInit /\ AdminMembersInit /\ ChatInit
    /\ part # "login" => ~admitted
    /\ IF part = "edit" THEN EditInit ELSE account = Absent /\ devices = Absent
    /\ IF part = "meetup" THEN MeetupScreenInit ELSE pair = Absent /\ view = Absent

\* A step of part p leaves the variables of every other part as they are.
Only(p) ==
    /\ part = p /\ UNCHANGED part
    /\ p # "invites" => UNCHANGED invites
    /\ p # "sms" => UNCHANGED sms
    /\ p # "login" => UNCHANGED adminLogin
    /\ p # "members" => UNCHANGED adminMembers
    /\ p # "chat" => UNCHANGED chatVars
    /\ p # "edit" => UNCHANGED profileEdit
    /\ p # "meetup" => UNCHANGED meetupScreen

GatesNext ==
    \/ Only("invites") /\ InvitesNext
    \/ Only("sms") /\ SmsNext
    \/ Only("login") /\ AdminLoginNext
    \/ Only("members") /\ AdminMembersNext
    \/ Only("chat") /\ ChatNext
    \/ Only("edit") /\ EditNext
    \/ Only("meetup") /\ MeetupScreenNext

GatesSpec == GatesInit /\ [][GatesNext]_gateVars
-----------------------------------------------------------------------------
\* The forms of the settings and the questions about a meeting, each evaluated
\* where its state exists (profileEdit.ts, meetup/[matchId].tsx).
FormsInv ==
    /\ part = "edit" => EditInv
    /\ part = "meetup" => MeetupScreenInv
=============================================================================
