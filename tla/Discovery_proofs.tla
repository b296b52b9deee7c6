-------------------------- MODULE Discovery_proofs --------------------------
(***************************************************************************)
(* The consent behind the gender preferences and the pages of a scan, for  *)
(* any finite set of users, any requests, edits, page size and clock.      *)
(***************************************************************************)
EXTENDS Discovery, Sorting_proofs

Inputs == {<<>>} \union ProfileInputs \union PrefInputs

ReqRow == [user : Users \union {0}, in : Inputs, marked : BOOLEAN, overtaken : BOOLEAN]

\* Rows and variables have their types; a request about preferences has a body.
Typed ==
  /\ prefs \in [Users -> PrefRow]
  /\ req \in [Requests -> ReqRow]
  /\ pc \in [Requests -> {"idle", "count", "profile", "prefs", "look", "genders", "clear"}]
  /\ \A r \in Requests :
       /\ pc[r] # "idle" => req[r].user \in Users
       /\ pc[r] \in {"prefs", "look", "genders"} => req[r].in \in PrefInputs

\* A request that will store genders has a consent, or was overtaken.
Covered ==
  \A r \in Requests : pc[r] = "genders" => req[r].user \in consent \/ req[r].overtaken

ConsentInv == Typed /\ Covered /\ OnlyLateWritesEscape

\* The slot of a request that has ended is empty.
LEMMA EndedOK ==
  ASSUME Typed, NEW r \in Requests, NEW from, Return(r, from)
  PROVE  /\ req' \in [Requests -> ReqRow]
         /\ pc' \in [Requests -> {"idle", "count", "profile", "prefs", "look", "genders", "clear"}]
         /\ pc[r] = from /\ pc'[r] = "idle"
         /\ \A q \in Requests \ {r} : pc'[q] = pc[q] /\ req'[q] = req[q]
<1>1. NoReq \in ReqRow
  BY DEF NoReq, ReqRow, Inputs
<1> QED BY <1>1 DEF Typed, Return

\* A slot that is free takes a new request.
LEMMA StartedOK ==
  ASSUME Typed, NEW r \in Requests, NEW u \in Users, NEW to \in {"count", "profile", "prefs"},
         NEW in \in Inputs, to = "prefs" => in \in PrefInputs, Start(r, u, to, in), UNCHANGED prefs
  PROVE  /\ Typed' /\ pc'[r] = to
         /\ \A q \in Requests \ {r} : pc'[q] = pc[q] /\ req'[q] = req[q]
<1> DEFINE new == [user |-> u, in |-> in, marked |-> FALSE, overtaken |-> FALSE]
<1>1. new \in ReqRow /\ new.user = u /\ new.in = in
  BY DEF ReqRow
<1>2. pc' = [pc EXCEPT ![r] = to] /\ req' = [req EXCEPT ![r] = new]
  BY DEF Start
<1> HIDE DEF new
<1> QED BY <1>1, <1>2 DEF Typed

\* A request goes on to its next statement.
LEMMA GoneOK ==
  ASSUME Typed, NEW r \in Requests, NEW from, NEW to \in {"profile", "look", "genders"},
         to \in {"look", "genders"} => from \in {"prefs", "look"}, from # "idle", Goto(r, from, to)
  PROVE  /\ req' = req /\ pc[r] = from /\ pc'[r] = to
         /\ \A q \in Requests \ {r} : pc'[q] = pc[q]
         /\ pc' \in [Requests -> {"idle", "count", "profile", "prefs", "look", "genders", "clear"}]
         /\ \A q \in Requests :
              /\ pc'[q] # "idle" => req'[q].user \in Users
              /\ pc'[q] \in {"prefs", "look", "genders"} => req'[q].in \in PrefInputs
BY DEF Typed, Goto

(***************************************************************************)
(* Every step of the profile service keeps the invariant.                  *)
(***************************************************************************)
LEMMA ProfileStep ==
  ASSUME ConsentInv, ProfileNext
  PROVE  ConsentInv'
<1> Typed /\ Covered /\ OnlyLateWritesEscape
  BY DEF ConsentInv
<1>1. ASSUME NEW r \in Requests, NEW u \in Users, NEW in \in ProfileInputs, UpdateProfile(r, u, in)
      PROVE  ConsentInv'
  <2>1. Typed' /\ pc'[r] # "genders" /\ \A q \in Requests \ {r} : pc'[q] = pc[q] /\ req'[q] = req[q]
    BY <1>1, StartedOK DEF UpdateProfile, Inputs
  <2> QED BY <1>1, <2>1 DEF UpdateProfile, ConsentInv, Covered, OnlyLateWritesEscape
<1>2. ASSUME NEW r \in Requests, NEW u \in Users, NEW in \in PrefInputs, UpdatePreferences(r, u, in)
      PROVE  ConsentInv'
  <2>1. Typed' /\ pc'[r] # "genders" /\ \A q \in Requests \ {r} : pc'[q] = pc[q] /\ req'[q] = req[q]
    BY <1>2, StartedOK DEF UpdatePreferences, Inputs
  <2> QED BY <1>2, <2>1 DEF UpdatePreferences, ConsentInv, Covered, OnlyLateWritesEscape
<1>3. ASSUME NEW r \in Requests, NEW u \in Users, MarkWithdrawn(r, u)
      PROVE  ConsentInv'
  <2> DEFINE m == u \in consent
             new == [user |-> u, in |-> <<>>, marked |-> m, overtaken |-> FALSE]
  <2>1. m \in BOOLEAN
    OBVIOUS
  <2>2. pc[r] = "idle" /\ pc' = [pc EXCEPT ![r] = "clear"] /\ req' = [req EXCEPT ![r] = new]
        /\ UNCHANGED <<prefs, consent, late>>
    BY <1>3 DEF MarkWithdrawn
  <2> HIDE DEF m
  <2>3. new \in ReqRow /\ new.user = u
    BY <2>1 DEF ReqRow, Inputs
  <2> HIDE DEF new
  <2>4. Typed'
    BY <2>2, <2>3 DEF Typed
  <2> QED BY <2>2, <2>4 DEF ConsentInv, Typed, Covered, OnlyLateWritesEscape
<1>4. ASSUME NEW u \in Users, GrantConsent(u)
      PROVE  ConsentInv'
  BY <1>4 DEF GrantConsent, ConsentInv, Typed, Covered, OnlyLateWritesEscape
<1>5. ASSUME NEW u \in Users, NEW p, ChangePhotos(u, p)
      PROVE  ConsentInv'
  BY <1>5 DEF ChangePhotos, ConsentInv, Typed, Covered, OnlyLateWritesEscape
<1>6. ASSUME NEW r \in Requests, NEW from, Return(r, from), UNCHANGED <<prefs, consent, late>>
      PROVE  ConsentInv'
  <2>1. Typed'
    BY <1>6, EndedOK DEF Typed
  <2> QED BY <1>6, <2>1, EndedOK DEF ConsentInv, Covered, OnlyLateWritesEscape
<1>7. ASSUME NEW r \in Requests, CountPhotos(r)
      PROVE  ConsentInv'
  <2>1. CASE Goto(r, "count", "profile")
    <3>1. Typed' /\ Covered'
      BY <1>7, <2>1, GoneOK DEF CountPhotos, Typed, Covered
    <3> QED BY <1>7, <3>1 DEF CountPhotos, ConsentInv, OnlyLateWritesEscape
  <2> QED BY <1>6, <1>7, <2>1 DEF CountPhotos
<1>8. ASSUME NEW r \in Requests, UpsertProfile(r)
      PROVE  ConsentInv'
  BY <1>6, <1>8 DEF UpsertProfile
<1>9. ASSUME NEW r \in Requests, UpsertPreferences(r)
      PROVE  ConsentInv'
  <2> DEFINE in == req[r].in
             u  == req[r].user
             row == [made |-> TRUE, minAge |-> in.minAge, maxAge |-> in.maxAge,
                     km |-> in.km, genders |-> prefs[u].genders]
  <2>1. pc[r] = "prefs" /\ u \in Users /\ in \in PrefInputs
    BY <1>9 DEF UpsertPreferences, Typed
  <2>2. row \in PrefRow /\ row.genders = prefs[u].genders
    BY <2>1, ProfileAssumption DEF PrefRow, Typed
  <2>3. prefs' = [prefs EXCEPT ![u] = row] /\ UNCHANGED <<consent, late>>
    BY <1>9 DEF UpsertPreferences
  <2> HIDE DEF row
  <2>4. prefs' \in [Users -> PrefRow] /\ OnlyLateWritesEscape'
    BY <2>1, <2>2, <2>3 DEF Typed, OnlyLateWritesEscape
  <2>5. CASE Return(r, "prefs")
    BY <2>3, <2>4, <2>5, EndedOK DEF ConsentInv, Typed, Covered
  <2>6. CASE Goto(r, "prefs", "look")
    BY <2>3, <2>4, <2>6, GoneOK DEF ConsentInv, Typed, Covered
  <2> QED BY <1>9, <2>5, <2>6 DEF UpsertPreferences
<1>10. ASSUME NEW r \in Requests, LookUpConsent(r)
       PROVE  ConsentInv'
  <2>1. CASE HasActiveConsent(req[r].user) /\ Goto(r, "look", "genders")
    <3>1. Typed' /\ Covered'
      BY <1>10, <2>1, GoneOK DEF LookUpConsent, HasActiveConsent, Typed, Covered
    <3> QED BY <1>10, <3>1 DEF LookUpConsent, ConsentInv, OnlyLateWritesEscape
  <2> QED BY <1>6, <1>10, <2>1 DEF LookUpConsent
<1>11. ASSUME NEW r \in Requests, UpdateGenders(r)
       PROVE  ConsentInv'
  <2> DEFINE u == req[r].user
             row == [prefs[u] EXCEPT !.genders = req[r].in.genders]
  <2>1. /\ pc[r] = "genders" /\ u \in Users /\ req[r].in \in PrefInputs
        /\ u \in consent \/ req[r].overtaken
    BY <1>11 DEF UpdateGenders, Return, Typed, Covered
  <2>2. row \in PrefRow
    BY <2>1, ProfileAssumption DEF PrefRow, Typed
  <2>3. prefs' = [prefs EXCEPT ![u] = row] /\ UNCHANGED consent
    BY <1>11 DEF UpdateGenders
  <2> HIDE DEF row
  <2>4. prefs' \in [Users -> PrefRow] /\ \A w \in Users \ {u} : prefs'[w] = prefs[w]
    BY <2>1, <2>2, <2>3 DEF Typed
  <2>5. OnlyLateWritesEscape'
    BY <1>11, <2>1, <2>3, <2>4 DEF UpdateGenders, OnlyLateWritesEscape
  <2>6. Return(r, "genders")
    BY <1>11 DEF UpdateGenders
  <2> QED BY <2>3, <2>4, <2>5, <2>6, EndedOK DEF ConsentInv, Typed, Covered
<1>12. ASSUME NEW r \in Requests, CommitWithdrawal(r)
       PROVE  ConsentInv'
  <2> DEFINE u == req[r].user
             row == [prefs[u] EXCEPT !.genders = Cleared(@)]
             Over(s) == req[r].marked /\ pc[s] = "genders" /\ req[s].user = u
  <2>1. /\ pc[r] = "clear" /\ u \in Users /\ pc' = [pc EXCEPT ![r] = "idle"]
        /\ prefs' = [prefs EXCEPT ![u] = row] /\ late' = late \ {u}
        /\ consent' = IF req[r].marked THEN consent \ {u} ELSE consent
        /\ \A s \in Requests : req'[s] = IF s = r THEN NoReq
             ELSE IF Over(s) THEN [req[s] EXCEPT !.overtaken = TRUE] ELSE req[s]
        /\ req' = [s \in Requests |-> req'[s]]
    BY <1>12 DEF CommitWithdrawal, Typed
  <2>2. row \in PrefRow /\ row.genders = {}
    BY <2>1 DEF PrefRow, Typed, Cleared
  <2> HIDE DEF row
  <2>3. prefs' \in [Users -> PrefRow] /\ OnlyLateWritesEscape'
    BY <2>1, <2>2 DEF Typed, OnlyLateWritesEscape
  <2>4. ASSUME NEW s \in Requests, s # r
        PROVE  /\ req'[s] \in ReqRow /\ req'[s].user = req[s].user /\ req'[s].in = req[s].in
               /\ req[s].overtaken => req'[s].overtaken
               /\ Over(s) => req'[s].overtaken
    <3> req[s] \in ReqRow
      BY DEF Typed
    <3>1. CASE Over(s)
      <4>1. req'[s] = [req[s] EXCEPT !.overtaken = TRUE]
        BY <2>1, <2>4, <3>1
      <4> QED BY <4>1 DEF ReqRow
    <3>2. CASE ~Over(s)
      <4>1. req'[s] = req[s]
        BY <2>1, <2>4, <3>2
      <4> QED BY <4>1, <3>2
    <3> QED BY <3>1, <3>2
  <2>5. req'[r] \in ReqRow
    <3>1. req'[r] = NoReq
      BY <2>1
    <3> QED BY <3>1 DEF NoReq, ReqRow, Inputs
  <2>6. Typed'
    BY <2>1, <2>3, <2>4, <2>5 DEF Typed
  <2>7. ASSUME NEW s \in Requests, pc'[s] = "genders"
        PROVE  req'[s].user \in consent' \/ req'[s].overtaken
    <3>1. s # r /\ pc[s] = "genders"
      BY <2>1, <2>7 DEF Typed
    <3>2. CASE Over(s)
      BY <2>1, <3>1, <3>2 DEF Typed, ReqRow
    <3>3. CASE ~Over(s)
      BY <2>1, <3>1, <3>3 DEF Covered
    <3> QED BY <3>2, <3>3
  <2> QED BY <2>3, <2>6, <2>7 DEF ConsentInv, Covered
<1>13. ASSUME NEW r \in Requests, Fail(r)
       PROVE  ConsentInv'
  BY <1>6, <1>13 DEF Fail
<1> QED
  BY <1>1, <1>2, <1>3, <1>4, <1>5, <1>7, <1>8, <1>9, <1>10, <1>11, <1>12, <1>13 DEF ProfileNext

\* What users have saved before is covered by their consent.
LEMMA ConsentInit == Init => ConsentInv
<1> SUFFICES ASSUME Init PROVE ConsentInv
  OBVIOUS
<1>1. NoPrefs \in PrefRow /\ NoPrefs.genders = {} /\ NoReq \in ReqRow
  BY DEF NoPrefs, PrefRow, NoReq, ReqRow, Inputs
<1>2. /\ prefs = [u \in Users |-> IF u \in Newcomers THEN NoPrefs ELSE Setup[u].prefs]
      /\ consent = Users \ Newcomers
      /\ pc = [r \in Requests |-> "idle"] /\ req = [r \in Requests |-> NoReq]
  BY DEF Init, ProfileInit
<1>3. Typed /\ Covered
  BY <1>1, <1>2, ProfileAssumption DEF Typed, Covered
<1>4. OnlyLateWritesEscape
  BY <1>1, <1>2 DEF OnlyLateWritesEscape
<1> QED BY <1>3, <1>4 DEF ConsentInv

\* Paging, swipes, blocks and the clock do not touch what is said about the consent.
LEMMA ConsentStep ==
  ASSUME ConsentInv, [Next]_vars
  PROVE  ConsentInv'
<1>1. CASE ProfileNext
  BY <1>1, ProfileStep
<1>2. CASE UNCHANGED <<prefs, consent, pc, req, late>>
  BY <1>2 DEF ConsentInv, Typed, Covered, OnlyLateWritesEscape
<1>3. CASE FirstPage \/ NextPage \/ CheckReady \/ ListCandidates \/ TouchActivity \/ DiscoverFails
  BY <1>2, <1>3 DEF FirstPage, NextPage, CheckReady, ListCandidates, TouchActivity,
                    DiscoverFails, others, profileVars
<1>4. CASE \E v, c \in Users : Swipe(v, c) \/ Block(v, c)
  BY <1>2, <1>4 DEF Swipe, Block
<1>5. CASE (\E p \in matched : Unmatch(p)) \/ (\E u \in Users : OtherIsActive(u)) \/ Tick
  BY <1>2, <1>5 DEF Unmatch, OtherIsActive, Tick, others, profileVars
<1>6. CASE UNCHANGED vars
  BY <1>2, <1>6 DEF vars, profileVars
<1> QED BY <1>1, <1>3, <1>4, <1>5, <1>6 DEF Next

(***************************************************************************)
(* Gender preferences are stored without an active consent only by a       *)
(* request whose look at the consent a withdrawal overtook (README.md:78,  *)
(* service.go:147-157): for any users, any number of concurrent requests   *)
(* and whatever fails.  Paging, swipes, blocks and the clock of Discovery  *)
(* do not touch what is said about it.                                     *)
(***************************************************************************)
THEOREM ConsentKept == Spec => []OnlyLateWritesEscape
<1>1. ConsentInv => OnlyLateWritesEscape
  BY DEF ConsentInv
<1> QED BY <1>1, ConsentInit, ConsentStep, PTL DEF Spec
-----------------------------------------------------------------------------
(***************************************************************************)
(* What is stored: every table has its type, distances are those that the  *)
(* validation lets through, a request about a profile has its body.        *)
(***************************************************************************)
StoredOK ==
  /\ profile \in [Users -> ProfileRow] /\ \A u \in Users : IsFiniteSet(profile[u].taste)
  /\ \A u \in Users : prefs[u].made => prefs[u].km > 0
  /\ \A r \in Requests : pc[r] \in {"count", "profile"} => req[r].in \in ProfileInputs
  /\ consent \subseteq Users /\ late \subseteq Users
  /\ photo \in [Users -> {"none", "plain", "primary"}]
  /\ edits \in 0 .. MaxEdits

\* The clock does not run ahead of what it has stamped.
ClockOK ==
  /\ now \in FirstTime .. MaxTime /\ asOf \in Int /\ asOf <= now
  /\ lastActive \in [Users -> FirstTime .. now]

\* A match is made of two swipes, and its end does not remove it.
PairsOK ==
  /\ ended \subseteq matched
  /\ \A p \in matched : \A u, w \in p : u # w => <<u, w>> \in swiped

Card == [user : Users \ {Viewer}, score : Nat]

ScanTyped ==
  /\ at \in {"rest", "ready", "list", "touch"} /\ atEnd \in BOOLEAN
  /\ shown \in Seq(Card) /\ cursor \in Card \union {NoCursor}
  /\ ranks \in [Users -> Int] /\ steady \subseteq Users

\* The cursor is the last card on the screen; without one, a request begins anew.
CursorIsLast ==
  /\ cursor # NoCursor => shown # <<>> /\ cursor = shown[Len(shown)] /\ ~atEnd
  /\ at \in {"ready", "list"} /\ cursor = NoCursor => shown = <<>> /\ ~atEnd

\* A steady candidate has been shown, or is still ahead of the cursor.
SteadyAhead ==
  \A u \in steady :
    \/ \E i \in DOMAIN shown : shown[i].user = u
    \/ cursor = NoCursor /\ ~atEnd
    \/ cursor # NoCursor /\ ranks[u] >= 0 /\ Before(cursor, [user |-> u, score |-> ranks[u]])

ScanInv == ScanTyped /\ CursorIsLast /\ OneRanking /\ SteadyAhead

\* A request that is started with a body keeps it; the others have theirs.
LEMMA BodyStarted ==
  ASSUME Typed, StoredOK, NEW r \in Requests, NEW u \in Users, NEW to, NEW in,
         to \in {"count", "profile"} => in \in ProfileInputs, Start(r, u, to, in),
         UNCHANGED <<profile, prefs, consent, photo, late>>
  PROVE  StoredOK'
<1> DEFINE new == [user |-> u, in |-> in, marked |-> FALSE, overtaken |-> FALSE]
<1>1. pc' = [pc EXCEPT ![r] = to] /\ req' = [req EXCEPT ![r] = new] /\ new.in = in
      /\ edits < MaxEdits /\ edits' = edits + 1
  BY DEF Start
<1> HIDE DEF new
<1>2. ASSUME NEW q \in Requests, pc'[q] \in {"count", "profile"}
      PROVE  req'[q].in \in ProfileInputs
  BY <1>1, <1>2 DEF Typed, StoredOK
<1>3. edits' \in 0 .. MaxEdits
  BY <1>1, ProfileAssumption DEF StoredOK
<1> QED BY <1>2, <1>3 DEF StoredOK

\* A request that goes on from a statement to the next one, or ends.
LEMMA BodyKept ==
  ASSUME Typed, StoredOK, NEW r \in Requests, NEW from, NEW to,
         Goto(r, from, to) \/ Return(r, from), to = "profile" => from = "count", to # "count"
  PROVE  /\ \A q \in Requests : pc'[q] \in {"count", "profile"} => req'[q].in \in ProfileInputs
         /\ edits' = edits
<1>1. CASE Goto(r, from, to)
  BY <1>1 DEF Goto, Typed, StoredOK
<1>2. CASE Return(r, from)
  BY <1>2 DEF Return, Typed, StoredOK
<1> QED BY <1>1, <1>2

LEMMA NewRow ==
  ASSUME NEW old \in ProfileRow, NEW in \in ProfileInputs
  PROVE  [made |-> TRUE, place |-> NewPlace(old.place, in.location),
          taste |-> in.taste, onboarded |-> in.onboarded] \in ProfileRow
<1>1. in.location \in Location /\ in.onboarded \in BOOLEAN /\ in.taste \subseteq STRING
  BY ProfileAssumption
<1>2. old.place \in Nat \union {NoPlace}
  BY DEF ProfileRow
<1>3. NewPlace(old.place, in.location) \in Nat \union {NoPlace}
  BY <1>1, <1>2 DEF NewPlace, Location
<1> QED BY <1>1, <1>3 DEF ProfileRow

(***************************************************************************)
(* Every step of the profile service keeps what is stored well formed.     *)
(***************************************************************************)
LEMMA StoredStep ==
  ASSUME Typed, StoredOK, ProfileNext
  PROVE  StoredOK'
<1> USE DEF StoredOK
<1>1. ASSUME NEW r \in Requests, NEW u \in Users, NEW in \in ProfileInputs, UpdateProfile(r, u, in)
      PROVE  StoredOK'
  BY <1>1, BodyStarted DEF UpdateProfile
<1>2. ASSUME NEW r \in Requests, NEW u \in Users, NEW in \in PrefInputs, UpdatePreferences(r, u, in)
      PROVE  StoredOK'
  BY <1>2, BodyStarted DEF UpdatePreferences
<1>3. ASSUME NEW r \in Requests, NEW u \in Users, MarkWithdrawn(r, u)
      PROVE  StoredOK'
  <2>1. /\ pc' = [pc EXCEPT ![r] = "clear"] /\ \A q \in Requests \ {r} : req'[q] = req[q]
        /\ edits < MaxEdits /\ edits' = edits + 1
        /\ UNCHANGED <<profile, prefs, consent, photo, late>>
    BY <1>3 DEF MarkWithdrawn, Typed
  <2>2. \A q \in Requests : pc'[q] \in {"count", "profile"} => req'[q].in \in ProfileInputs
    BY <2>1 DEF Typed
  <2>3. edits' \in 0 .. MaxEdits
    BY <2>1, ProfileAssumption
  <2> QED BY <2>1, <2>2, <2>3
<1>4. ASSUME NEW u \in Users, GrantConsent(u)
      PROVE  StoredOK'
  <2>1. edits' \in 0 .. MaxEdits /\ consent' \subseteq Users
    BY <1>4, ProfileAssumption DEF GrantConsent
  <2> QED BY <1>4, <2>1 DEF GrantConsent
<1>5. ASSUME NEW u \in Users, NEW p \in {"none", "plain", "primary"}, ChangePhotos(u, p)
      PROVE  StoredOK'
  <2>1. edits' \in 0 .. MaxEdits /\ photo' \in [Users -> {"none", "plain", "primary"}]
    BY <1>5, ProfileAssumption DEF ChangePhotos
  <2> QED BY <1>5, <2>1 DEF ChangePhotos
<1>6. ASSUME NEW r \in Requests, CountPhotos(r)
      PROVE  StoredOK'
  <2>1. Goto(r, "count", "profile") \/ Return(r, "count")
    BY <1>6 DEF CountPhotos
  <2>2. (\A q \in Requests : pc'[q] \in {"count", "profile"} => req'[q].in \in ProfileInputs)
        /\ edits' = edits
    BY <2>1, BodyKept
  <2> QED BY <1>6, <2>2 DEF CountPhotos
<1>7. ASSUME NEW r \in Requests, UpsertProfile(r)
      PROVE  StoredOK'
  <2> DEFINE in  == req[r].in
             u   == req[r].user
             row == [made |-> TRUE, place |-> NewPlace(profile[u].place, in.location),
                     taste |-> in.taste, onboarded |-> in.onboarded]
  <2>1. Return(r, "profile") /\ UNCHANGED <<prefs, consent, photo, late>>
    BY <1>7 DEF UpsertProfile
  <2>2. in \in ProfileInputs /\ u \in Users
    BY <2>1 DEF Return, Typed
  <2>3. row \in ProfileRow /\ row.taste = in.taste /\ IsFiniteSet(in.taste)
    BY <2>2, NewRow, ProfileAssumption
  <2>4. profile' = [profile EXCEPT ![u] = row]
    BY <1>7 DEF UpsertProfile
  <2> HIDE DEF row
  <2>5. profile' \in [Users -> ProfileRow] /\ \A w \in Users : IsFiniteSet(profile'[w].taste)
    BY <2>2, <2>3, <2>4
  <2>6. (\A q \in Requests : pc'[q] \in {"count", "profile"} => req'[q].in \in ProfileInputs)
        /\ edits' = edits
    BY <2>1, BodyKept
  <2> QED BY <2>1, <2>5, <2>6
<1>8. ASSUME NEW r \in Requests, UpsertPreferences(r)
      PROVE  StoredOK'
  <2> DEFINE in == req[r].in
             u  == req[r].user
             row == [made |-> TRUE, minAge |-> in.minAge, maxAge |-> in.maxAge,
                     km |-> in.km, genders |-> prefs[u].genders]
  <2>1. pc[r] = "prefs" /\ u \in Users /\ in \in PrefInputs /\ in.km > 0
    BY <1>8, ProfileAssumption DEF UpsertPreferences, Typed
  <2>2. prefs' = [prefs EXCEPT ![u] = row] /\ row.km = in.km
        /\ UNCHANGED <<profile, consent, photo, late>>
    BY <1>8 DEF UpsertPreferences
  <2> HIDE DEF row
  <2>3. \A w \in Users : prefs'[w].made => prefs'[w].km > 0
    BY <2>1, <2>2 DEF Typed
  <2>4. Goto(r, "prefs", "look") \/ Return(r, "prefs")
    BY <1>8 DEF UpsertPreferences
  <2>5. (\A q \in Requests : pc'[q] \in {"count", "profile"} => req'[q].in \in ProfileInputs)
        /\ edits' = edits
    BY <2>4, BodyKept
  <2> QED BY <2>2, <2>3, <2>5
<1>9. ASSUME NEW r \in Requests, LookUpConsent(r)
      PROVE  StoredOK'
  <2>1. Goto(r, "look", "genders") \/ Return(r, "look")
    BY <1>9 DEF LookUpConsent
  <2>2. (\A q \in Requests : pc'[q] \in {"count", "profile"} => req'[q].in \in ProfileInputs)
        /\ edits' = edits
    BY <2>1, BodyKept
  <2> QED BY <1>9, <2>2 DEF LookUpConsent
<1>10. ASSUME NEW u \in Users, NEW g, prefs' = [prefs EXCEPT ![u].genders = g]
       PROVE  \A w \in Users : prefs'[w].made => prefs'[w].km > 0
  <2> DEFINE row == [prefs[u] EXCEPT !.genders = g]
  <2>1. row.made = prefs[u].made /\ row.km = prefs[u].km
    BY DEF Typed, PrefRow
  <2>2. prefs' = [prefs EXCEPT ![u] = row]
    BY <1>10
  <2> HIDE DEF row
  <2> QED BY <2>1, <2>2 DEF Typed
<1>11. ASSUME NEW r \in Requests, UpdateGenders(r)
       PROVE  StoredOK'
  <2>1. Return(r, "genders") /\ req[r].user \in Users /\ UNCHANGED <<profile, consent, photo>>
        /\ late' \subseteq Users
    BY <1>11 DEF UpdateGenders, Return, Typed
  <2>2. \A w \in Users : prefs'[w].made => prefs'[w].km > 0
    BY <1>10, <1>11, <2>1 DEF UpdateGenders
  <2>3. (\A q \in Requests : pc'[q] \in {"count", "profile"} => req'[q].in \in ProfileInputs)
        /\ edits' = edits
    BY <2>1, BodyKept
  <2> QED BY <2>1, <2>2, <2>3
<1>12. ASSUME NEW r \in Requests, CommitWithdrawal(r)
       PROVE  StoredOK'
  <2> DEFINE Over(s) == req[r].marked /\ pc[s] = "genders" /\ req[s].user = req[r].user
  <2>1. /\ req[r].user \in Users /\ pc' = [pc EXCEPT ![r] = "idle"]
        /\ prefs' = [prefs EXCEPT ![req[r].user].genders = Cleared(@)]
        /\ consent' \subseteq Users /\ late' \subseteq Users /\ UNCHANGED <<profile, photo, edits>>
        /\ \A s \in Requests : s # r =>
             req'[s] = IF Over(s) THEN [req[s] EXCEPT !.overtaken = TRUE] ELSE req[s]
    BY <1>12 DEF CommitWithdrawal, Typed
  <2>2. \A w \in Users : prefs'[w].made => prefs'[w].km > 0
    BY <1>10, <2>1 DEF Cleared
  <2>3. ASSUME NEW s \in Requests, pc'[s] \in {"count", "profile"}
        PROVE  req'[s].in \in ProfileInputs
    <3>1. s # r /\ pc[s] = pc'[s] /\ ~Over(s)
      BY <2>1, <2>3 DEF Typed
    <3> HIDE DEF Over
    <3> QED BY <2>1, <2>3, <3>1
  <2> QED BY <2>1, <2>2, <2>3
<1>13. ASSUME NEW r \in Requests, Fail(r)
       PROVE  StoredOK'
  <2>1. (\A q \in Requests : pc'[q] \in {"count", "profile"} => req'[q].in \in ProfileInputs)
        /\ edits' = edits
    BY <1>13, BodyKept DEF Fail
  <2> QED BY <1>13, <2>1 DEF Fail
<1> QED
  BY <1>1, <1>2, <1>3, <1>4, <1>5, <1>6, <1>7, <1>8, <1>9, <1>11, <1>12, <1>13 DEF ProfileNext
-----------------------------------------------------------------------------
\* The order of the cards tells any two of them apart.
LEMMA CardOrder ==
  ASSUME NEW c \in Card \union {NoCursor}, NEW d \in Card, NEW e \in Card
  PROVE  /\ ~Before(d, d)
         /\ Before(c, d) /\ Before(d, e) => Before(c, e)
         /\ d # e => Before(d, e) \/ Before(e, d)
<1>1. /\ c.user \in Int /\ c.score \in Int /\ d.user \in Int /\ d.score \in Int
      /\ e.user \in Int /\ e.score \in Int
  <2>1. NoCursor.user \in Int /\ NoCursor.score \in Int
    BY DEF NoCursor
  <2>2. \A k \in Card : k.user \in Int /\ k.score \in Int
    <3>1. Users \subseteq Int
      BY ProfileAssumption
    <3> SUFFICES ASSUME NEW k \in Card
                 PROVE  k.user \in Int /\ k.score \in Int
      OBVIOUS
    <3>2. k.user \in Users /\ k.score \in Nat
      BY DEF Card
    <3>3. k.user \in Int
      BY <3>1, <3>2
    <3>4. k.score \in Int
      BY <3>2
    <3> QED BY <3>3, <3>4
  <2> QED BY <2>1, <2>2
<1>2. d # e => d.user # e.user \/ d.score # e.score
  BY DEF Card
<1> QED BY <1>1, <1>2 DEF Before

LEMMA RowsOrdered ==
  ASSUME NEW rows \in SUBSET Card
  PROVE  IsStrictOrder(rows, Order(rows))
<1> SUFFICES ASSUME NEW c \in rows, NEW d \in rows, NEW e \in rows
             PROVE  /\ ~Before(d, d)
                    /\ Before(c, d) /\ Before(d, e) => Before(c, e)
                    /\ d # e => Before(d, e) \/ Before(e, d)
  BY DEF IsStrictOrder, Order
<1> QED BY CardOrder

(***************************************************************************)
(* The score is a natural number: preferences reach at least a kilometre,  *)
(* so nothing is divided by 0.                                             *)
(***************************************************************************)
LEMMA ScoreType ==
  ASSUME Typed, StoredOK, ClockOK, NEW v \in Users, NEW c \in Users, Eligible(v, c, asOf)
  PROVE  Score(v, c, asOf) \in Nat
<1>1. Scale \in Nat /\ Scale > 0 /\ Window \in Nat /\ Window > 0
  BY DiscoveryAssumption
<1>2. \A n \in Int : Clamp(n) \in Nat
  BY <1>1 DEF Clamp, Min2
<1>3. TasteScore(v, c) \in Nat
  <2> DEFINE A == profile[v].taste
             B == profile[c].taste
  <2>1. IsFiniteSet(A) /\ IsFiniteSet(B)
    BY DEF StoredOK
  <2>2. IsFiniteSet(A \union B) /\ Cardinality(A \union B) \in Nat
    BY <2>1, FS_Union, FS_CardinalityType
  <2>3. Cardinality(A \intersect B) \in Nat
    BY <2>1, FS_Intersection, FS_CardinalityType
  <2>4. A \union B # {} => Cardinality(A \union B) > 0
    BY <2>2, FS_EmptySet
  <2> DEFINE n == Cardinality(A \union B)
             k == Scale * Cardinality(A \intersect B)
  <2>5. k \in Nat
    BY <1>1, <2>3
  <2>6. TasteScore(v, c) = IF A \union B = {} THEN 0 ELSE k \div n
    BY DEF TasteScore
  <2> HIDE DEF k, n
  <2>7. n \in Nat /\ (A \union B # {} => n > 0)
    BY <2>2, <2>4 DEF n
  <2> QED BY <2>5, <2>6, <2>7
<1>4. DistanceScore(v, c) \in Nat
  <2>1. Reach(v, c) \in Nat /\ Reach(v, c) > 0
    BY DEF Eligible, IsViewer, Reach, Min2, StoredOK, Typed, PrefRow
  <2>2. profile[v].place \in Int /\ profile[c].place \in Int
    BY DEF StoredOK, ProfileRow, NoPlace
  <2>3. Distance(v, c) \in Int
    BY <2>2 DEF Distance
  <2> DEFINE k == Scale * Distance(v, c)
  <2>4. k \in Int
    BY <1>1, <2>3
  <2> HIDE DEF k
  <2>5. Scale - k \div Reach(v, c) \in Int
    BY <1>1, <2>1, <2>4
  <2> QED BY <1>2, <2>5 DEF DistanceScore, k
<1>5. ActivityScore(c, asOf) \in Nat
  <2>1. asOf - lastActive[c] \in Int
    BY DiscoveryAssumption DEF ClockOK
  <2> DEFINE k == Scale * (asOf - lastActive[c])
  <2>2. k \in Int
    BY <1>1, <2>1
  <2> HIDE DEF k
  <2>3. Scale - k \div Window \in Int
    BY <1>1, <2>2
  <2> QED BY <1>2, <2>3 DEF ActivityScore, k
<1> QED BY <1>3, <1>4, <1>5 DEF Score

\* What is listed is a finite set of cards, one for each candidate.
LEMMA ListedCards ==
  ASSUME Typed, StoredOK, ClockOK
  PROVE  /\ Listed(Viewer, asOf) \subseteq Card /\ IsFiniteSet(Listed(Viewer, asOf))
         /\ \A row \in Listed(Viewer, asOf) : row.score = Score(Viewer, row.user, asOf)
<1> DEFINE E == {u \in Users : Eligible(Viewer, u, asOf)}
           L == {[user |-> c, score |-> Score(Viewer, c, asOf)] : c \in E}
           f == [c \in E |-> [user |-> c, score |-> Score(Viewer, c, asOf)]]
<1>1. Viewer \in Users /\ IsFiniteSet(Users)
  BY DiscoveryAssumption
<1>2. \A c \in E : c \in Users \ {Viewer} /\ Score(Viewer, c, asOf) \in Nat
  BY <1>1, ScoreType DEF Eligible
<1>3. L \subseteq Card
  BY <1>2 DEF Card
<1>4. f \in Surjection(E, L)
  BY DEF Surjection
<1>5. IsFiniteSet(E)
  BY <1>1, FS_Subset
<1>6. IsFiniteSet(L)
  BY <1>4, <1>5, FS_Surjection
<1>7. L = Listed(Viewer, asOf)
  BY DEF Listed
<1>8. \A row \in L : row.score = Score(Viewer, row.user, asOf)
  OBVIOUS
<1> QED BY <1>3, <1>6, <1>7, <1>8


CardsInOrder == {p \in Card \X Card : Before(p[1], p[2])}

\* A page of the cards S.
LEMMA CardsPage ==
  ASSUME NEW S \in SUBSET Card, IsFiniteSet(S),
         NEW rows, rows = FirstRows(S, Asked), NEW page, page = Limit(rows, PageSize)
  PROVE  IsPage(S, CardsInOrder, PageSize, rows, page)
<1>1. IsStrictOrder(S, Order(S)) /\ Order(S) \subseteq CardsInOrder
  BY RowsOrdered DEF Order, CardsInOrder
<1>2. PageSize \in Nat \ {0}
  BY DiscoveryAssumption
<1>3. rows = Limit(InOrder(S, Order(S)), PageSize + 1)
  BY DEF FirstRows, Asked
<1>4. IsPage(S, Order(S), PageSize, rows, page)
  BY <1>1, <1>2, <1>3, PageHolds
<1> QED BY <1>1, <1>4 DEF IsPage, Ascends

(***************************************************************************)
(* The rows asked for stand behind the cursor, which is the last card      *)
(* shown, so a page continues the ranking.                                 *)
(***************************************************************************)
LEMMA CardsContinue ==
  ASSUME ScanInv, at = "list", NEW S \in SUBSET Card, \A row \in S : Behind(row, cursor),
         NEW page \in Seq(S), Ascends(page, CardsInOrder)
  PROVE  /\ shown \o page \in Seq(Card) /\ Ascends(shown \o page, CardsInOrder)
         /\ Joined(shown, page, shown \o page)
<1>1. ScanTyped /\ CursorIsLast /\ OneRanking
  BY DEF ScanInv
<1>2. shown \in Seq(Card) /\ page \in Seq(Card)
  BY <1>1 DEF ScanTyped
<1>3. Ascends(shown, CardsInOrder)
  <2>1. DOMAIN shown = 1 .. Len(shown) /\ \A i \in 1 .. Len(shown) : shown[i] \in Card
    BY <1>2
  <2> QED BY <1>1, <2>1 DEF Ascends, OneRanking, CardsInOrder
<1>4. Transitive(Card, CardsInOrder)
  BY CardOrder DEF Transitive, CardsInOrder
<1>5. ASSUME shown # <<>>, NEW i \in 1 .. Len(page)
      PROVE  <<shown[Len(shown)], page[i]>> \in CardsInOrder
  <2>1. cursor # NoCursor /\ cursor = shown[Len(shown)]
    BY <1>1, <1>5 DEF CursorIsLast
  <2>2. cursor \in Card
    BY <1>1, <2>1 DEF ScanTyped
  <2>3. page[i] \in S
    BY <1>5
  <2>4. Before(cursor, page[i])
    BY <2>1, <2>3 DEF Behind
  <2> QED BY <2>1, <2>2, <2>3, <2>4 DEF CardsInOrder
<1>6. Follows(shown, page, CardsInOrder)
  BY <1>5 DEF Follows
<1> QED BY <1>2, <1>3, <1>4, <1>6, PagesAscend

(***************************************************************************)
(* The listing as a whole.  A steady candidate that was ahead of the cursor*)
(* is among the rows, and is shown now or stands behind the new cursor; if *)
(* the answer is lost it stays ahead, because its score did not rise.      *)
(***************************************************************************)
LEMMA ListStep ==
  ASSUME Typed, StoredOK, ClockOK, ScanInv, ListCandidates
  PROVE  ScanInv'
<1> DEFINE listed == Listed(Viewer, asOf)
           S      == {row \in listed : Behind(row, cursor)}
           rows   == FirstRows(S, Asked)
           page   == Limit(rows, PageSize)
           card(u) == [user |-> u, score |-> ranks'[u]]
<1>1. ScanTyped /\ CursorIsLast /\ OneRanking /\ SteadyAhead /\ at = "list" /\ at' = "touch"
  BY DEF ScanInv, ListCandidates
<1>2. listed \subseteq Card /\ IsFiniteSet(listed)
      /\ \A row \in listed : row.score = Score(Viewer, row.user, asOf)
  BY ListedCards
<1>3. S \subseteq Card /\ IsFiniteSet(S) /\ \A row \in S : Behind(row, cursor)
  BY <1>2, FS_Subset
<1>4. IsPage(S, CardsInOrder, PageSize, rows, page)
  BY <1>3, CardsPage
<1>5. /\ \A u \in Users : ranks'[u] = IF \E row \in listed : row.user = u
                                       THEN Score(Viewer, u, asOf) ELSE -1
      /\ ranks' = [u \in Users |-> ranks'[u]]
      /\ steady' = {u \in steady : ranks'[u] >= 0 /\ (ranks[u] = -1 \/ ranks'[u] <= ranks[u])}
  BY DEF ListCandidates
<1>6. \/ UNCHANGED <<cursor, shown, atEnd>>
      \/ /\ shown' = shown \o page /\ atEnd' = (Len(rows) <= PageSize)
         /\ cursor' = IF Len(rows) > PageSize THEN CursorOf(rows) ELSE NoCursor
  BY DEF ListCandidates
<1> HIDE DEF listed, S, rows, page
<1>7. ASSUME NEW u \in Users
      PROVE  /\ ranks'[u] \in Int
             /\ ranks'[u] >= 0 => card(u) \in listed /\ card(u) \in Card
  <2>1. CASE \E row \in listed : row.user = u
    <3>1. PICK row \in listed : row.user = u
      BY <2>1
    <3>2. row \in Card /\ row.score = ranks'[u]
      BY <1>2, <1>5, <2>1, <3>1
    <3>3. row = card(u) /\ ranks'[u] \in Nat
      BY <3>1, <3>2 DEF Card
    <3> QED BY <3>1, <3>2, <3>3
  <2>2. CASE ~\E row \in listed : row.user = u
    BY <1>5, <2>2
  <2> QED BY <2>1, <2>2
<1>8. ranks' \in [Users -> Int] /\ steady' \subseteq Users
  BY <1>1, <1>5, <1>7 DEF ScanTyped
<1>9. ASSUME NEW u \in steady', ~\E i \in DOMAIN shown : shown[i].user = u
      PROVE  /\ card(u) \in S /\ card(u) \in Card /\ ranks'[u] >= 0
             /\ cursor = NoCursor => ~atEnd
             /\ cursor # NoCursor => Before(cursor, card(u))
  <2>1. /\ u \in steady /\ u \in Users /\ ranks'[u] >= 0
        /\ ranks[u] = -1 \/ ranks'[u] <= ranks[u]
    BY <1>5, <1>8
  <2>2. card(u) \in listed /\ card(u) \in Card
    BY <1>7, <2>1
  <2>3. \/ cursor = NoCursor /\ ~atEnd
        \/ cursor # NoCursor /\ ranks[u] >= 0 /\ Before(cursor, [user |-> u, score |-> ranks[u]])
    BY <1>1, <1>9, <2>1 DEF SteadyAhead
  <2>4. CASE cursor = NoCursor
    BY <2>1, <2>2, <2>3, <2>4 DEF S, Behind
  <2>5. CASE cursor # NoCursor
    <3>1. cursor \in Card /\ ranks[u] \in Int /\ ranks'[u] \in Int
      BY <1>1, <1>7, <2>1, <2>5 DEF ScanTyped
    <3>2. cursor.score \in Int
      BY <3>1 DEF Card
    <3>3. Before(cursor, card(u))
      BY <2>1, <2>3, <2>5, <3>1, <3>2 DEF Before
    <3> QED BY <2>1, <2>2, <2>5, <3>3 DEF S, Behind
  <2> QED BY <2>4, <2>5
<1>10. CASE UNCHANGED <<cursor, shown, atEnd>>
  <2>1. ScanTyped' /\ CursorIsLast' /\ OneRanking'
    BY <1>1, <1>8, <1>10 DEF ScanTyped, CursorIsLast, OneRanking
  <2>2. SteadyAhead'
    BY <1>9, <1>10 DEF SteadyAhead
  <2> QED BY <2>1, <2>2 DEF ScanInv
<1>11. CASE /\ shown' = shown \o page /\ atEnd' = (Len(rows) <= PageSize)
            /\ cursor' = IF Len(rows) > PageSize THEN CursorOf(rows) ELSE NoCursor
  <2>1. /\ rows \in Seq(S) /\ page \in Seq(S) /\ Ascends(page, CardsInOrder)
        /\ Len(rows) \in Nat /\ Len(page) \in Nat /\ PageSize \in Nat \ {0}
    BY <1>4, LenProperties, DiscoveryAssumption DEF IsPage
  <2>2. /\ shown' \in Seq(Card) /\ Ascends(shown', CardsInOrder) /\ Joined(shown, page, shown')
    BY <1>1, <1>3, <1>11, <2>1, CardsContinue
  <2>3. /\ DOMAIN shown = 1 .. Len(shown) /\ Len(shown) \in Nat
        /\ DOMAIN shown' = 1 .. Len(shown') /\ Len(shown') \in Nat
    BY <1>1, <2>2, LenProperties DEF ScanTyped
  <2>4. OneRanking'
    BY <2>2, <2>3 DEF OneRanking, Ascends, CardsInOrder
  <2>5. \A i \in DOMAIN shown : i \in DOMAIN shown' /\ shown'[i] = shown[i]
    BY <2>1, <2>2, <2>3 DEF Joined
  <2>6. ASSUME NEW x, \E i \in 1 .. Len(page) : page[i] = x
        PROVE  \E i \in DOMAIN shown' : shown'[i] = x
    <3>1. PICK i \in 1 .. Len(page) : page[i] = x
      BY <2>6
    <3>2. Len(shown) + i \in DOMAIN shown' /\ shown'[Len(shown) + i] = page[i]
      BY <2>1, <2>2, <2>3 DEF Joined
    <3> QED BY <3>1, <3>2
  <2>7. CASE Len(rows) <= PageSize
    <3>1. cursor' = NoCursor /\ atEnd' = TRUE
      <4>1. ~(Len(rows) > PageSize)
        BY <2>1, <2>7
      <4> QED BY <1>11, <2>7, <4>1
    <3>2. \A x \in S : \E i \in DOMAIN shown' : shown'[i] = x
      BY <1>4, <2>6, <2>7 DEF IsPage
    <3>3. SteadyAhead'
      <4> SUFFICES ASSUME NEW u \in steady'
                   PROVE  \E i \in DOMAIN shown' : shown'[i].user = u
        BY DEF SteadyAhead
      <4>1. CASE \E i \in DOMAIN shown : shown[i].user = u
        BY <2>5, <4>1
      <4>2. CASE ~\E i \in DOMAIN shown : shown[i].user = u
        <5>1. PICK i \in DOMAIN shown' : shown'[i] = card(u)
          BY <1>9, <3>2, <4>2
        <5> QED BY <5>1
      <4> QED BY <4>1, <4>2
    <3>4. ScanTyped' /\ CursorIsLast'
      BY <1>1, <1>8, <2>2, <3>1 DEF ScanTyped, CursorIsLast
    <3> QED BY <2>4, <3>3, <3>4 DEF ScanInv
  <2>8. CASE Len(rows) > PageSize
    <3>1. /\ cursor' = page[PageSize] /\ cursor' \in S /\ Len(page) = PageSize /\ atEnd' \in BOOLEAN /\ ~atEnd'
          /\ \A x \in S : (\E i \in 1 .. Len(page) : page[i] = x) \/ <<page[PageSize], x>> \in CardsInOrder
      <4>1. ~(Len(rows) <= PageSize)
        BY <2>1, <2>8
      <4>2. cursor' = rows[PageSize]
        BY <1>11, <2>8 DEF CursorOf
      <4>3. atEnd' \in BOOLEAN /\ ~atEnd'
        <5> DEFINE all == Len(rows) <= PageSize
        <5>1. all \in BOOLEAN /\ ~all /\ atEnd' = all
          BY <1>11, <4>1
        <5> HIDE DEF all
        <5> QED BY <5>1
      <4> QED BY <1>4, <2>8, <4>2, <4>3 DEF IsPage
    <3>2. cursor' \in Card /\ cursor' # NoCursor
      <4>1. cursor' \in Card
        BY <1>3, <3>1
      <4>2. cursor'.score \in Nat /\ NoCursor.score = -1
        BY <4>1 DEF Card, NoCursor
      <4>3. cursor' # NoCursor
        BY <4>2
      <4> QED BY <4>1, <4>3
    <3>3. Len(shown') = Len(shown) + PageSize /\ shown'[Len(shown')] = page[PageSize]
      BY <2>1, <2>2, <2>3, <3>1 DEF Joined
    <3>4. shown' # <<>>
      BY <2>1, <2>3, <3>3
    <3>5. SteadyAhead'
      <4> SUFFICES ASSUME NEW u \in steady', ~\E i \in DOMAIN shown' : shown'[i].user = u
                   PROVE  ranks'[u] >= 0 /\ Before(cursor', card(u))
        BY <3>2 DEF SteadyAhead
      <4>1. ~\E i \in DOMAIN shown : shown[i].user = u
        BY <2>5
      <4>2. card(u) \in S /\ ranks'[u] >= 0
        BY <1>9, <4>1
      <4>3. ~\E i \in 1 .. Len(page) : page[i] = card(u)
        BY <2>6
      <4>4. <<cursor', card(u)>> \in CardsInOrder
        BY <3>1, <4>2, <4>3
      <4> QED BY <4>2, <4>4 DEF CardsInOrder
    <3>6. ScanTyped' /\ CursorIsLast'
      BY <1>1, <1>8, <2>2, <3>1, <3>2, <3>3, <3>4 DEF ScanTyped, CursorIsLast
    <3> QED BY <2>4, <3>5, <3>6 DEF ScanInv
  <2> QED BY <2>1, <2>7, <2>8
<1> QED BY <1>6, <1>10, <1>11

\* The other steps of a request, and those of everybody else.
LEMMA ScanStep ==
  ASSUME Typed, StoredOK, ClockOK, ScanInv, [Next]_vars
  PROVE  ScanInv'
<1>1. ScanTyped /\ CursorIsLast /\ OneRanking /\ SteadyAhead
  BY DEF ScanInv
<1>2. CASE FirstPage
  <2>1. /\ at' = "ready" /\ cursor' = NoCursor /\ shown' = <<>> /\ ~atEnd' /\ atEnd' \in BOOLEAN
        /\ ranks' = [u \in Users |-> -1] /\ steady' = Users
    BY <1>2 DEF FirstPage
  <2>2. shown' \in Seq(Card) /\ Len(shown') = 0 /\ DOMAIN shown' = {}
    BY <2>1
  <2>3. ScanTyped' /\ CursorIsLast'
    BY <2>1, <2>2 DEF ScanTyped, CursorIsLast
  <2>4. OneRanking' /\ SteadyAhead'
    BY <2>1, <2>2 DEF OneRanking, SteadyAhead
  <2> QED BY <2>3, <2>4 DEF ScanInv
<1>3. CASE /\ at' \in {"rest", "touch", "list", "ready"}
           /\ at' \in {"list", "ready"} => at \in {"list", "ready"} \/ cursor # NoCursor
           /\ UNCHANGED <<cursor, shown, atEnd, ranks, steady>>
  BY <1>1, <1>3 DEF ScanInv, ScanTyped, CursorIsLast, OneRanking, SteadyAhead
<1>4. CASE NextPage \/ CheckReady \/ TouchActivity \/ DiscoverFails
  BY <1>3, <1>4 DEF NextPage, CheckReady, TouchActivity, DiscoverFails
<1>5. CASE UNCHANGED scan
  BY <1>1, <1>5 DEF scan, ScanInv, ScanTyped, CursorIsLast, OneRanking, SteadyAhead
<1>6. CASE (\E v, c \in Users : Swipe(v, c) \/ Block(v, c)) \/ \E p \in matched : Unmatch(p)
  BY <1>5, <1>6 DEF Swipe, Block, Unmatch
<1>7. CASE (\E u \in Users : OtherIsActive(u)) \/ Tick
  BY <1>5, <1>7 DEF OtherIsActive, Tick
<1> QED BY <1>2, <1>4, <1>5, <1>6, <1>7, ListStep DEF Next, vars

LEMMA ClockStep ==
  ASSUME ClockOK, [Next]_vars
  PROVE  ClockOK'
<1> USE DEF ClockOK
<1>1. ASSUME NEW u \in Users, lastActive' \in {lastActive, Touched(u, now)}, UNCHANGED <<now, asOf>>
      PROVE  ClockOK'
  <2>1. now \in FirstTime .. now
    BY DiscoveryAssumption
  <2>2. Touched(u, now) \in [Users -> FirstTime .. now]
    BY <2>1 DEF Touched
  <2> QED BY <1>1, <2>2
<1>2. CASE UNCHANGED <<now, asOf, lastActive>>
  BY <1>2
<1>3. CASE FirstPage
  BY <1>3, DiscoveryAssumption DEF FirstPage
<1>4. CASE NextPage \/ CheckReady \/ ListCandidates \/ DiscoverFails
  BY <1>2, <1>4 DEF NextPage, CheckReady, ListCandidates, DiscoverFails
<1>5. CASE TouchActivity
  BY <1>1, <1>5, DiscoveryAssumption DEF TouchActivity
<1>6. ASSUME NEW v \in Users, NEW c \in Users, Swipe(v, c)
      PROVE  ClockOK'
  BY <1>1, <1>6 DEF Swipe, scan
<1>7. CASE (\E v, c \in Users : Block(v, c)) \/ \E p \in matched : Unmatch(p)
  BY <1>2, <1>7 DEF Block, Unmatch, scan
<1>8. ASSUME NEW u \in Users, OtherIsActive(u)
      PROVE  ClockOK'
  BY <1>1, <1>8 DEF OtherIsActive, scan
<1>9. CASE Tick
  <2>1. now \in Int /\ now' = now + 1 /\ now < MaxTime /\ UNCHANGED <<lastActive, asOf>>
    BY <1>9, DiscoveryAssumption DEF Tick, scan
  <2>2. now' \in FirstTime .. MaxTime /\ FirstTime .. now \subseteq FirstTime .. now'
    BY <2>1, DiscoveryAssumption
  <2> QED BY <2>1, <2>2
<1> QED BY <1>2, <1>3, <1>4, <1>5, <1>6, <1>7, <1>8, <1>9 DEF Next, vars, scan

LEMMA PairsStep ==
  ASSUME PairsOK, [Next]_vars
  PROVE  PairsOK'
<1> USE DEF PairsOK
<1>1. CASE UNCHANGED pairs
  BY <1>1 DEF pairs
<1>2. CASE FirstPage \/ NextPage \/ CheckReady \/ ListCandidates \/ TouchActivity \/ DiscoverFails
  BY <1>1, <1>2 DEF FirstPage, NextPage, CheckReady, ListCandidates, TouchActivity, DiscoverFails,
                    others
<1>3. ASSUME NEW v \in Users, NEW c \in Users, Swipe(v, c)
      PROVE  PairsOK'
  <2>1. /\ swiped' = swiped \union {<<v, c>>} /\ ended' = ended
        /\ matched' = matched \/ (matched' = matched \union {{v, c}} /\ <<c, v>> \in swiped)
    BY <1>3 DEF Swipe, Swiped
  <2> QED BY <2>1
<1>4. ASSUME NEW v \in Users, NEW c \in Users, Block(v, c)
      PROVE  PairsOK'
  BY <1>4 DEF Block
<1>5. ASSUME NEW p \in matched, Unmatch(p)
      PROVE  PairsOK'
  BY <1>5 DEF Unmatch
<1>6. CASE (\E u \in Users : OtherIsActive(u)) \/ Tick
  BY <1>1, <1>6 DEF OtherIsActive, Tick, others
<1> QED BY <1>1, <1>2, <1>3, <1>4, <1>5, <1>6 DEF Next, vars

LEMMA StoredNext ==
  ASSUME Typed, StoredOK, [Next]_vars
  PROVE  StoredOK'
<1>1. CASE ProfileNext
  BY <1>1, StoredStep
<1>2. CASE UNCHANGED profileVars
  BY <1>2 DEF profileVars, StoredOK
<1>3. CASE FirstPage \/ NextPage \/ CheckReady \/ ListCandidates \/ TouchActivity \/ DiscoverFails
  BY <1>2, <1>3 DEF FirstPage, NextPage, CheckReady, ListCandidates, TouchActivity, DiscoverFails,
                    others
<1>4. CASE Edit /\ UNCHANGED <<profile, prefs, consent, photo, pc, req, late>>
  <2>1. edits' \in 0 .. MaxEdits
    BY <1>4, ProfileAssumption DEF Edit, StoredOK
  <2> QED BY <1>4, <2>1 DEF StoredOK
<1>5. CASE (\E v, c \in Users : Swipe(v, c) \/ Block(v, c)) \/ \E p \in matched : Unmatch(p)
  BY <1>4, <1>5 DEF Swipe, Block, Unmatch
<1>6. CASE (\E u \in Users : OtherIsActive(u)) \/ Tick
  BY <1>2, <1>6 DEF OtherIsActive, Tick, others
<1> QED BY <1>1, <1>2, <1>3, <1>5, <1>6 DEF Next, vars

DiscoveryInv == ConsentInv /\ StoredOK /\ ClockOK /\ PairsOK /\ ScanInv

LEMMA DiscoveryInit == Init => DiscoveryInv
<1> SUFFICES ASSUME Init PROVE DiscoveryInv
  OBVIOUS
<1>1. NoProfile \in ProfileRow /\ IsFiniteSet(NoProfile.taste) /\ NoPrefs.made = FALSE
  BY FS_EmptySet DEF NoProfile, ProfileRow, NoPrefs
<1>2. /\ profile = [u \in Users |-> IF u \in Newcomers THEN NoProfile ELSE Setup[u].profile]
      /\ prefs = [u \in Users |-> IF u \in Newcomers THEN NoPrefs ELSE Setup[u].prefs]
      /\ consent = Users \ Newcomers /\ late = {} /\ edits = 0
      /\ photo = [u \in Users |-> IF u \in Newcomers THEN "none" ELSE "primary"]
      /\ pc = [r \in Requests |-> "idle"]
  BY DEF Init, ProfileInit
<1>3. StoredOK
  <2>1. profile \in [Users -> ProfileRow] /\ \A u \in Users : IsFiniteSet(profile[u].taste)
    BY <1>1, <1>2, ProfileAssumption
  <2>2. \A u \in Users : prefs[u].made => prefs[u].km > 0
    BY <1>1, <1>2, ProfileAssumption
  <2> QED BY <1>2, <2>1, <2>2, ProfileAssumption DEF StoredOK
<1>4. ClockOK
  BY DiscoveryAssumption DEF Init, ClockOK
<1>5. PairsOK
  <2>1. ended = {} /\ swiped = {s \in Users \X Users : s[1] # s[2] /\ {s[1], s[2]} \in matched}
    BY DEF Init
  <2>2. \A p \in matched : \E u, w \in Users : p = {u, w}
    BY DiscoveryAssumption DEF Init
  <2>3. ASSUME NEW p \in matched, NEW u \in p, NEW w \in p, u # w
        PROVE  <<u, w>> \in swiped
    <3>1. u \in Users /\ w \in Users /\ {u, w} = p
      BY <2>2, <2>3
    <3>2. <<u, w>> \in Users \X Users /\ <<u, w>>[1] = u /\ <<u, w>>[2] = w
      BY <3>1
    <3> QED BY <2>1, <2>3, <3>1, <3>2
  <2> QED BY <2>1, <2>3 DEF PairsOK
<1>6. ScanInv
  <2>1. /\ at = "rest" /\ cursor = NoCursor /\ shown = <<>> /\ ~atEnd /\ atEnd \in BOOLEAN
        /\ ranks = [u \in Users |-> -1] /\ steady = {}
    BY DEF Init
  <2>2. ScanTyped /\ CursorIsLast
    <3>1. shown \in Seq(Card) /\ ranks \in [Users -> Int] /\ steady \subseteq Users
      BY <2>1
    <3> QED BY <2>1, <3>1 DEF ScanTyped, CursorIsLast
  <2>3. OneRanking /\ SteadyAhead
    BY <2>1 DEF OneRanking, SteadyAhead
  <2> QED BY <2>2, <2>3 DEF ScanInv
<1> QED BY <1>3, <1>4, <1>5, <1>6, ConsentInit DEF DiscoveryInv

LEMMA DiscoveryAlways == Spec => []DiscoveryInv
<1>1. DiscoveryInv /\ [Next]_vars => DiscoveryInv'
  BY ConsentStep, StoredNext, ClockStep, PairsStep, ScanStep DEF DiscoveryInv, ConsentInv
<1> QED BY <1>1, DiscoveryInit, PTL DEF Spec

(***************************************************************************)
(* The state of discovery has its type: a match is made of two swipes and  *)
(* outlives its end, the cursor is the last card shown, cards are others.  *)
(***************************************************************************)
THEOREM DiscoveryTyped == Spec => []TypeOK
<1>1. DiscoveryInv => TypeOK
  <2> SUFFICES ASSUME DiscoveryInv PROVE TypeOK
    OBVIOUS
  <2> USE DEF DiscoveryInv, ConsentInv
  <2>1. \A u \in Users : profile[u].place \in Nat \union {NoPlace} /\ prefs[u].km \in Nat
    BY DEF StoredOK, Typed, ProfileRow, PrefRow
  <2>2. /\ consent \subseteq Users /\ late \subseteq Users
        /\ photo \in [Users -> {"none", "plain", "primary"}]
        /\ pc \in [Requests -> {"idle", "count", "profile", "prefs", "look", "genders", "clear"}]
        /\ edits \in 0 .. MaxEdits
    BY DEF StoredOK, Typed
  <2>3. now \in FirstTime .. MaxTime /\ asOf <= now /\ \A u \in Users : lastActive[u] \in FirstTime .. now
    BY DEF ClockOK
  <2>4. /\ at \in {"rest", "ready", "list", "touch"} /\ atEnd \in BOOLEAN
        /\ cursor # NoCursor => shown # <<>> /\ cursor = shown[Len(shown)]
    BY DEF ScanInv, ScanTyped, CursorIsLast
  <2>5. \A i \in DOMAIN shown : shown[i].user \in Users \ {Viewer}
    <3>1. \A i \in DOMAIN shown : shown[i] \in Card
      BY DEF ScanInv, ScanTyped
    <3> QED BY <3>1 DEF Card
  <2> QED BY <2>1, <2>2, <2>3, <2>4, <2>5 DEF PairsOK, TypeOK
<1> QED BY <1>1, DiscoveryAlways, PTL

(***************************************************************************)
(* Whatever is written between two pages, and whichever answers are lost,  *)
(* the pages of one scan are one ranking: a card stands behind all cards   *)
(* shown before it (PLAN.md:307, ties are stable).                         *)
(***************************************************************************)
THEOREM PagesAreOneRanking == Spec => []OneRanking
<1>1. DiscoveryInv => OneRanking
  BY DEF DiscoveryInv, ScanInv
<1> QED BY <1>1, DiscoveryAlways, PTL

(***************************************************************************)
(* A candidate who was eligible in every listing, with a score that never  *)
(* rose, has been shown when the pages end (PLAN.md:307).                  *)
(***************************************************************************)
THEOREM SteadyAreShown == Spec => []NothingSkipped
<1>1. DiscoveryInv => NothingSkipped
  BY DEF DiscoveryInv, ScanInv, CursorIsLast, SteadyAhead, NothingSkipped
<1> QED BY <1>1, DiscoveryAlways, PTL

(***************************************************************************)
(* The queries agree: a candidate of the listing can be swiped and has a   *)
(* photo that loads, as long as nobody had a birthday since its as_of, and *)
(* an active match has a photo and the same chat on both sides.            *)
(***************************************************************************)
THEOREM QueriesAgree == Spec => []CardsAreWhole
<1>1. ASSUME NEW c \in Users, Eligible(Viewer, c, asOf),
             \A u \in {Viewer, c} : Age(u, asOf) = Age(u, now)
      PROVE  CanSwipeTarget(Viewer, c, now) /\ PhotoVisible(Viewer, c, now) /\ ~Blocked(Viewer, c)
  <2>1. Age(c, now) = Age(c, asOf) /\ Age(Viewer, now) = Age(Viewer, asOf)
    BY <1>1
  <2> QED BY <1>1, <2>1 DEF Eligible, CanSwipeTarget, PhotoVisible
<1>2. ASSUME NEW c \in ActiveMatches(Viewer)
      PROVE  PhotoVisible(Viewer, c, now) /\ c \in Conversations(Viewer) /\ Viewer \in Conversations(c)
  <2>1. {Viewer, c} = {c, Viewer} /\ Viewer \in Users
    BY DiscoveryAssumption
  <2> QED BY <2>1 DEF ActiveMatches, PhotoVisible, Conversations, Blocked
<1>3. CardsAreWhole
  BY <1>1, <1>2 DEF CardsAreWhole
<1> QED BY <1>3, PTL
=============================================================================
