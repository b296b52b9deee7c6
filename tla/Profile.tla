------------------------------ MODULE Profile ------------------------------
(***************************************************************************)
(* What a user says about themselves: profile, preferences and the consent *)
(* for gender preferences (application/profile/service.go and              *)
(* application/account/privacy.go).  The photos are those of Photos.tla,   *)
(* reduced to what others ask: is there one, is there a primary one.       *)
(*                                                                         *)
(* Every statement is a step.  The only transaction is the withdrawal of a *)
(* consent: it marks the row, which its commit makes visible together with *)
(* the cleared genders; a second withdrawal and a grant wait for the row.  *)
(***************************************************************************)
EXTENDS Integers, FiniteSets

CONSTANTS
  Users,          \* the accounts, in the order of their ids
  Requests,       \* slots for requests being served, over all API replicas
  Newcomers,      \* the users who have registered and done nothing yet
  Setup,          \* Setup[u]: what any other user has saved before
  ProfileInputs,  \* the bodies of PUT /profile
  PrefInputs,     \* the bodies of PUT /preferences
  MaxEdits        \* bound of the model: requests that change something

NoPlace == -1

\* A row of profiles, a row of user_preferences, and the three ways to give a location.
ProfileRow == [made : BOOLEAN, place : Nat \union {NoPlace}, taste : SUBSET STRING,
               onboarded : BOOLEAN]
PrefRow == [made : BOOLEAN, minAge : Nat, maxAge : Nat, km : Nat, genders : SUBSET STRING]
Location == [kind : {"keep", "clear"}] \union [kind : {"set"}, place : Nat]

ASSUME ProfileAssumption ==
  /\ Users \subseteq Nat /\ Newcomers \subseteq Users
  /\ \A in \in ProfileInputs : /\ in.location \in Location /\ in.onboarded \in BOOLEAN
                               /\ in.taste \subseteq STRING /\ IsFiniteSet(in.taste)
  /\ PrefInputs \subseteq [minAge : Nat, maxAge : Nat, km : Nat \ {0}, genders : SUBSET STRING]
  /\ \A u \in Users \ Newcomers :
       /\ Setup[u].prefs \in PrefRow /\ (Setup[u].prefs.made => Setup[u].prefs.km > 0)
       /\ Setup[u].profile \in ProfileRow /\ IsFiniteSet(Setup[u].profile.taste)
  /\ MaxEdits \in Nat

VARIABLES
  profile,   \* Postgres: the row of profiles
  prefs,     \* Postgres: the row of user_preferences
  consent,   \* Postgres: the users with a consent that is not withdrawn
  photo,     \* Postgres: the photos, "none", "plain" (no primary) or "primary"
  pc,        \* where each request is
  req,       \* the local variables of each request
  edits,     \* how many requests there were
  late       \* history: genders stored by a look-up that a withdrawal overtook

profileVars == <<profile, prefs, consent, photo, pc, req, edits, late>>

NoGenders == {"nil"}  \* the field is missing: a nil slice, not an empty one

NoProfile == [made |-> FALSE, place |-> NoPlace, taste |-> {}, onboarded |-> FALSE]
NoPrefs   == [made |-> FALSE, minAge |-> 0, maxAge |-> 0, km |-> 0, genders |-> {}]
NoReq     == [user |-> 0, in |-> <<>>, marked |-> FALSE, overtaken |-> FALSE]

\* The CASE of UpsertProfile: no coordinates keep what is stored.
NewPlace(old, location) ==
  CASE location.kind = "clear" -> NoPlace
    [] location.kind = "keep"  -> old
    [] location.kind = "set"   -> location.place

HasActiveConsent(u) == u \in consent

Cleared_Kept(genders) == genders
Cleared(genders) == {}

ProfileInit ==
  /\ profile = [u \in Users |-> IF u \in Newcomers THEN NoProfile ELSE Setup[u].profile]
  /\ prefs   = [u \in Users |-> IF u \in Newcomers THEN NoPrefs ELSE Setup[u].prefs]
  /\ consent = Users \ Newcomers
  /\ photo   = [u \in Users |-> IF u \in Newcomers THEN "none" ELSE "primary"]
  /\ pc      = [r \in Requests |-> "idle"]
  /\ req     = [r \in Requests |-> NoReq]
  /\ edits   = 0
  /\ late    = {}

Start(r, u, to, in) ==
  /\ pc[r] = "idle"
  /\ edits < MaxEdits
  /\ edits' = edits + 1
  /\ pc' = [pc EXCEPT ![r] = to]
  /\ req' = [req EXCEPT ![r] = [user |-> u, in |-> in, marked |-> FALSE, overtaken |-> FALSE]]

Goto(r, from, to) ==
  /\ pc[r] = from
  /\ pc' = [pc EXCEPT ![r] = to]
  /\ UNCHANGED <<req, edits>>

Return(r, from) ==
  /\ pc[r] = from
  /\ pc' = [pc EXCEPT ![r] = "idle"]
  /\ req' = [req EXCEPT ![r] = NoReq]
  /\ UNCHANGED edits
-----------------------------------------------------------------------------
(***************************************************************************)
(* UpdateProfile.  A body that the validation refuses changes nothing.     *)
(***************************************************************************)
UpdateProfile(r, u, in) ==
  /\ Start(r, u, IF in.onboarded THEN "count" ELSE "profile", in)
  /\ UNCHANGED <<profile, prefs, consent, photo, late>>

CountPhotos(r) ==
  /\ pc[r] = "count"
  /\ IF photo[req[r].user] = "none" THEN Return(r, "count") ELSE Goto(r, "count", "profile")
  /\ UNCHANGED <<profile, prefs, consent, photo, late>>

UpsertProfile(r) ==
  LET in == req[r].in IN
  /\ Return(r, "profile")
  /\ profile' = [profile EXCEPT ![req[r].user] =
                   [made |-> TRUE, place |-> NewPlace(@.place, in.location),
                    taste |-> in.taste, onboarded |-> in.onboarded]]
  /\ UNCHANGED <<prefs, consent, photo, late>>

(***************************************************************************)
(* UpdatePreferences: ages and distance are stored before the consent for  *)
(* the genders is looked up, and stay when it is missing.                  *)
(***************************************************************************)
UpdatePreferences(r, u, in) ==
  /\ Start(r, u, "prefs", in)
  /\ UNCHANGED <<profile, prefs, consent, photo, late>>

UpsertPreferences(r) ==
  LET in == req[r].in IN
  /\ pc[r] = "prefs"
  /\ IF in.genders = NoGenders THEN Return(r, "prefs") ELSE Goto(r, "prefs", "look")
  /\ prefs' = [prefs EXCEPT ![req[r].user] =
                 [made |-> TRUE, minAge |-> in.minAge, maxAge |-> in.maxAge,
                  km |-> in.km, genders |-> @.genders]]
  /\ UNCHANGED <<profile, consent, photo, late>>

LookUpConsent(r) ==
  /\ pc[r] = "look"
  /\ IF HasActiveConsent(req[r].user) THEN Goto(r, "look", "genders") ELSE Return(r, "look")
  /\ UNCHANGED <<profile, prefs, consent, photo, late>>

UpdateGenders(r) ==
  LET u == req[r].user IN
  /\ Return(r, "genders")
  /\ prefs' = [prefs EXCEPT ![u].genders = req[r].in.genders]
  /\ late' = IF req[r].overtaken THEN late \union {u} ELSE late \ {u}
  /\ UNCHANGED <<profile, consent, photo>>
-----------------------------------------------------------------------------
\* The unique index on active consents refuses a second one.
GrantConsent(u) ==
  /\ edits < MaxEdits
  /\ edits' = edits + 1
  /\ u \notin consent
  /\ consent' = consent \union {u}
  /\ UNCHANGED <<profile, prefs, photo, pc, req, late>>

(***************************************************************************)
(* WithdrawGenderPreferenceConsent: the row is marked, if there is one and *)
(* no other withdrawal holds it...                                         *)
(***************************************************************************)
MarkWithdrawn(r, u) ==
  /\ pc[r] = "idle"
  /\ edits < MaxEdits
  /\ \A s \in Requests : pc[s] = "clear" => ~(req[s].user = u /\ req[s].marked)
  /\ edits' = edits + 1
  /\ pc' = [pc EXCEPT ![r] = "clear"]
  /\ req' = [req EXCEPT ![r] = [user |-> u, in |-> <<>>, marked |-> u \in consent,
                                overtaken |-> FALSE]]
  /\ UNCHANGED <<profile, prefs, consent, photo, late>>

\* ...and the genders are cleared and the transaction commits.
CommitWithdrawal(r) ==
  LET u == req[r].user
      Overtaken(s) == req[r].marked /\ pc[s] = "genders" /\ req[s].user = u
  IN
  /\ pc[r] = "clear"
  /\ pc' = [pc EXCEPT ![r] = "idle"]
  /\ req' = [s \in Requests |-> IF s = r THEN NoReq
                                ELSE IF Overtaken(s) THEN [req[s] EXCEPT !.overtaken = TRUE]
                                ELSE req[s]]
  /\ consent' = IF req[r].marked THEN consent \ {u} ELSE consent
  /\ prefs' = [prefs EXCEPT ![u].genders = Cleared(@)]
  /\ late' = late \ {u}
  /\ UNCHANGED <<profile, photo, edits>>

\* What the requests of Photos.tla make of the photos.
ChangePhotos(u, p) ==
  /\ edits < MaxEdits
  /\ edits' = edits + 1
  /\ photo' = [photo EXCEPT ![u] = p]
  /\ UNCHANGED <<profile, prefs, consent, pc, req, late>>

\* A call fails or the process dies; an open transaction is rolled back.
Fail(r) ==
  /\ pc[r] # "idle"
  /\ Return(r, pc[r])
  /\ UNCHANGED <<profile, prefs, consent, photo, late>>

ProfileNext ==
  \/ \E r \in Requests, u \in Users :
       \/ \E in \in ProfileInputs : UpdateProfile(r, u, in)
       \/ \E in \in PrefInputs : UpdatePreferences(r, u, in)
       \/ MarkWithdrawn(r, u)
  \/ \E u \in Users : GrantConsent(u)
  \/ \E u \in Users, p \in {"none", "plain", "primary"} : ChangePhotos(u, p)
  \/ \E r \in Requests :
       \/ CountPhotos(r) \/ UpsertProfile(r)
       \/ UpsertPreferences(r) \/ LookUpConsent(r) \/ UpdateGenders(r)
       \/ CommitWithdrawal(r) \/ Fail(r)
-----------------------------------------------------------------------------
(***************************************************************************)
(* README.md:78 promises that gender preferences are never stored without  *)
(* an active consent, and that withdrawing it erases them.  The one way    *)
(* past that is a request that looked the consent up before a withdrawal   *)
(* and stores after it: without such a request in between, genders without *)
(* a consent do not exist, however grants, withdrawals, failed and         *)
(* repeated requests follow each other.                                    *)
(***************************************************************************)
OnlyLateWritesEscape ==
  \A u \in Users : prefs[u].genders # {} => u \in consent \/ u \in late
=============================================================================
