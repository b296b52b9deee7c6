----------------------------- MODULE Discovery -----------------------------
(***************************************************************************)
(* Who is shown to whom: the pages of GET /discovery (Service.Discover and *)
(* the queries of matching.sql.go) over the profiles, preferences, consents*)
(* and photos of Profile, while their owners change them.                  *)
(*                                                                         *)
(* One user, the viewer, pages.  A page is three round trips: the viewer   *)
(* is checked, the candidates are listed by one statement, the activity is *)
(* touched.  A cursor holds the time of the first page and the rank of the *)
(* last candidate of the page before.  Swipes are those of Matching.tla,   *)
(* here one step each.                                                     *)
(***************************************************************************)
EXTENDS Profile, Sorting

CONSTANTS
  Viewer,       \* the user who pages
  OldMatches,   \* the sets of pairs that may have matched before
  GenderOf,     \* GenderOf[u]: users.gender
  BornAt,       \* BornAt[u]: users.birth_date, in ticks of the clock
  Year,         \* ticks in a year
  PageSize,     \* candidates on a page
  Window,       \* ticks after which activity counts for nothing: 30 days
  Gap,          \* ticks before activity is written again: 15 minutes
  Scale,        \* the score of a perfect component
  FirstTime,    \* the clock at the start
  MaxTime       \* bound of the model: the last tick of the clock

ASSUME DiscoveryAssumption ==
  /\ Viewer \in Users
  /\ \A old \in OldMatches : \A p \in old : \E u, w \in Users : u # w /\ p = {u, w}
  /\ {Year, PageSize, Window, Scale} \subseteq Nat \ {0}
  /\ Gap \in Nat /\ FirstTime \in Nat /\ MaxTime \in Nat /\ FirstTime <= MaxTime
  /\ IsFiniteSet(Users)

VARIABLES
  now,          \* the clock of the API
  lastActive,   \* Postgres: users.last_active_at
  swiped,       \* Postgres: the pairs <<actor, target>> of swipes
  matched,      \* Postgres: the pairs of matches, ended ones too
  ended,        \* Postgres: the pairs whose match was ended
  blocks,       \* Postgres: the pairs <<blocker, blocked>>
  at,           \* where the viewer's request is
  cursor,       \* the cursor the viewer has, or NoCursor
  asOf,         \* the as_of of the request
  shown,        \* what the pages have shown, in the order of the screen
  atEnd,        \* the last page had no cursor
  ranks,        \* history: the candidates of the last listing and their score
  steady        \* history: candidates in every listing whose score never rose

scan == <<at, cursor, asOf, shown, atEnd, ranks, steady>>
pairs == <<swiped, matched, ended, blocks>>
vars == <<profileVars, now, lastActive, pairs, scan>>

NoCursor == [score |-> -1, user |-> -1]

Min2(a, b) == IF a < b THEN a ELSE b
Clamp(n) == IF n < 0 THEN 0 ELSE Min2(n, Scale)

Age(u, t) == (t - BornAt[u]) \div Year
Distance(u, w) == LET d == profile[u].place - profile[w].place IN IF d < 0 THEN -d ELSE d
Reach(u, w) == Min2(prefs[u].km, prefs[w].km)
-----------------------------------------------------------------------------
(***************************************************************************)
(* Three statements that decide about a pair, and one about the viewer.    *)
(* They are written separately in SQL, and separately here.                *)
(***************************************************************************)
EnsureDiscoveryReady(u) ==
  /\ profile[u].made /\ prefs[u].made
  /\ HasActiveConsent(u)
  /\ profile[u].onboarded
  /\ profile[u].place # NoPlace
  /\ prefs[u].genders # {}
  /\ photo[u] = "primary"

\* The CTE "viewer", the same text in both queries.
IsViewer(v) ==
  /\ profile[v].made /\ prefs[v].made
  /\ HasActiveConsent(v)
  /\ profile[v].onboarded
  /\ profile[v].place # NoPlace
  /\ prefs[v].genders # {}

Swiped(v, c) == <<v, c>> \in swiped
Blocked(v, c) == <<v, c>> \in blocks \/ <<c, v>> \in blocks

\* The CTE "eligible" of ListDiscoveryCandidates.
Eligible_NotMutual(v, c, t) ==
  /\ IsViewer(v) /\ c # v /\ EnsureDiscoveryReady(c)
  /\ GenderOf[c] \in prefs[v].genders
  /\ Age(c, t) \in prefs[v].minAge .. prefs[v].maxAge
  /\ Age(v, t) \in prefs[c].minAge .. prefs[c].maxAge
  /\ Distance(v, c) <= Reach(v, c)
  /\ ~Swiped(v, c) /\ ~Blocked(v, c) /\ {v, c} \notin matched
Eligible(v, c, t) ==
  /\ IsViewer(v)
  /\ c # v
  /\ profile[c].made /\ profile[c].onboarded /\ profile[c].place # NoPlace
  /\ prefs[c].made
  /\ HasActiveConsent(c)
  /\ photo[c] = "primary"
  /\ prefs[c].genders # {}
  /\ GenderOf[c] \in prefs[v].genders
  /\ GenderOf[v] \in prefs[c].genders
  /\ Age(c, t) \in prefs[v].minAge .. prefs[v].maxAge
  /\ Age(v, t) \in prefs[c].minAge .. prefs[c].maxAge
  /\ Distance(v, c) <= Reach(v, c)
  /\ ~Swiped(v, c)
  /\ ~Blocked(v, c)
  /\ {v, c} \notin matched

\* RecordSwipe refuses a target that is not allowed; blocks are looked up apart.
CanSwipeTarget(v, c, t) ==
  /\ IsViewer(v)
  /\ profile[c].made /\ profile[c].onboarded /\ profile[c].place # NoPlace
  /\ prefs[c].made
  /\ HasActiveConsent(c)
  /\ prefs[c].genders # {}
  /\ GenderOf[c] \in prefs[v].genders
  /\ GenderOf[v] \in prefs[c].genders
  /\ Age(c, t) \in prefs[v].minAge .. prefs[v].maxAge
  /\ Age(v, t) \in prefs[c].minAge .. prefs[c].maxAge
  /\ Distance(v, c) <= Reach(v, c)
  /\ photo[c] = "primary"
  /\ {v, c} \notin matched

\* GetVisibleMatchingPhoto: one's own photo, that of an active match, or that of a
\* candidate.
PhotoVisible(v, c, t) ==
  /\ photo[c] = "primary"
  /\ ~Blocked(v, c)
  /\ \/ c = v
     \/ {v, c} \in matched \ ended
     \/ /\ IsViewer(v)
        /\ profile[c].made /\ profile[c].onboarded /\ profile[c].place # NoPlace
        /\ prefs[c].made /\ prefs[c].genders # {}
        /\ HasActiveConsent(c)
        /\ GenderOf[c] \in prefs[v].genders
        /\ GenderOf[v] \in prefs[c].genders
        /\ Age(c, t) \in prefs[v].minAge .. prefs[v].maxAge
        /\ Age(v, t) \in prefs[c].minAge .. prefs[c].maxAge
        /\ Distance(v, c) <= Reach(v, c)
        /\ ~Swiped(v, c)

\* ListActiveMatches leaves out a match whose other side has no primary photo...
ActiveMatches(v) ==
  {c \in Users : /\ {v, c} \in matched \ ended
                 /\ profile[c].made
                 /\ photo[c] = "primary"
                 /\ ~Blocked(v, c)}

\* ...and ListConversations, of the same matches, does not.
Conversations(v) == {c \in Users : {v, c} \in matched \ ended /\ ~Blocked(v, c)}
-----------------------------------------------------------------------------
(***************************************************************************)
(* The score: shared tastes (interests and questionnaire, as one set), the *)
(* distance and the activity, with equal weights.                          *)
(***************************************************************************)
TasteScore(v, c) ==
  LET all == profile[v].taste \union profile[c].taste IN
  IF all = {} THEN 0
  ELSE (Scale * Cardinality(profile[v].taste \intersect profile[c].taste)) \div Cardinality(all)

DistanceScore(v, c) == Clamp(Scale - (Scale * Distance(v, c)) \div Reach(v, c))

ActivityScore(c, t) == Clamp(Scale - (Scale * (t - lastActive[c])) \div Window)

Score(v, c, t) == TasteScore(v, c) + DistanceScore(v, c) + ActivityScore(c, t)

\* ORDER BY total_score DESC, user_id: c is listed before d.
Before(c, d) == c.score > d.score \/ (c.score = d.score /\ c.user < d.user)

\* The rows behind the cursor: a lower score, or the same and a higher id.
Behind_Inclusive(row, cur) ==
  cur = NoCursor \/ row.score < cur.score \/ (row.score = cur.score /\ row.user >= cur.user)
Behind(row, cur) == cur = NoCursor \/ Before(cur, row)

Listed(v, t) == {[user |-> c, score |-> Score(v, c, t)] : c \in {u \in Users : Eligible(v, u, t)}}

\* The first n rows in order.
Order(rows) == {p \in rows \X rows : Before(p[1], p[2])}
FirstRows(rows, n) == Limit(InOrder(rows, Order(rows)), n)

\* Discover asks for one row more than the page, to know whether another follows.
Asked_PageSize == PageSize
Asked == PageSize + 1

\* The cursor is made of the last candidate of the page.
CursorOf_Extra(rows) == rows[PageSize + 1]
CursorOf(rows) == rows[PageSize]

\* last_active_at moves only when it is older than the gap.
Touched(u, t) == IF lastActive[u] < t - Gap THEN [lastActive EXCEPT ![u] = t] ELSE lastActive
-----------------------------------------------------------------------------
Init ==
  /\ ProfileInit
  /\ now        = FirstTime
  /\ lastActive = [u \in Users |-> FirstTime]
  /\ matched \in OldMatches
  /\ swiped     = {s \in Users \X Users : s[1] # s[2] /\ {s[1], s[2]} \in matched}
  /\ ended      = {} /\ blocks = {}
  /\ at         = "rest"
  /\ cursor     = NoCursor
  /\ asOf       = FirstTime
  /\ shown      = <<>>
  /\ atEnd      = FALSE
  /\ ranks      = [u \in Users |-> -1]
  /\ steady     = {}

others == <<profileVars, pairs>>

\* Discover without a cursor: the as_of is the time of this request.
FirstPage ==
  /\ at = "rest"
  /\ at' = "ready" /\ asOf' = now /\ cursor' = NoCursor
  /\ shown' = <<>> /\ atEnd' = FALSE
  /\ ranks' = [u \in Users |-> -1] /\ steady' = Users
  /\ UNCHANGED <<others, now, lastActive>>

\* With a cursor: its as_of goes on.  A page that failed is asked for again.
NextPage ==
  /\ at = "rest" /\ cursor # NoCursor
  /\ at' = "ready"
  /\ UNCHANGED <<others, now, lastActive, cursor, asOf, shown, atEnd, ranks, steady>>

CheckReady ==
  /\ at = "ready"
  /\ at' = IF EnsureDiscoveryReady(Viewer) THEN "list" ELSE "rest"
  /\ UNCHANGED <<others, now, lastActive, cursor, asOf, shown, atEnd, ranks, steady>>

\* ListCandidates; the answer reaches the client or is lost on the way.
ListCandidates ==
  LET listed == Listed(Viewer, asOf)
      rows == FirstRows({row \in listed : Behind(row, cursor)}, Asked)
  IN
  /\ at = "list"
  /\ at' = "touch"
  /\ ranks' = [u \in Users |-> IF \E row \in listed : row.user = u
                                 THEN Score(Viewer, u, asOf) ELSE -1]
  /\ steady' = {u \in steady : /\ ranks'[u] >= 0
                               /\ ranks[u] = -1 \/ ranks'[u] <= ranks[u]}
  /\ \/ UNCHANGED <<cursor, shown, atEnd>>
     \/ /\ shown' = shown \o Limit(rows, PageSize)
        /\ atEnd' = (Len(rows) <= PageSize)
        /\ cursor' = IF Len(rows) > PageSize THEN CursorOf(rows) ELSE NoCursor
  /\ UNCHANGED <<others, now, lastActive, asOf>>

\* TouchActivity, whose error Discover ignores.
TouchActivity ==
  /\ at = "touch"
  /\ at' = "rest"
  /\ lastActive' \in {lastActive, Touched(Viewer, now)}
  /\ UNCHANGED <<others, now, cursor, asOf, shown, atEnd, ranks, steady>>

DiscoverFails ==
  /\ at \in {"ready", "list"}
  /\ at' = "rest"
  /\ UNCHANGED <<others, now, lastActive, cursor, asOf, shown, atEnd, ranks, steady>>
-----------------------------------------------------------------------------
Edit == edits < MaxEdits /\ edits' = edits + 1

\* A swipe of Matching.tla: a match is made only of two swipes.
Swipe(v, c) ==
  /\ Edit
  /\ c # v /\ ~Swiped(v, c) /\ ~Blocked(v, c)
  /\ CanSwipeTarget(v, c, now)
  /\ swiped' = swiped \union {<<v, c>>}
  /\ matched' \in IF Swiped(c, v) THEN {matched, matched \union {{v, c}}} ELSE {matched}
  /\ lastActive' = Touched(v, now)
  /\ UNCHANGED <<profile, prefs, consent, photo, pc, req, late, now, ended, blocks, scan>>

Block(v, c) ==
  /\ Edit
  /\ c # v /\ <<v, c>> \notin blocks
  /\ blocks' = blocks \union {<<v, c>>}
  /\ ended' = ended \union ({{v, c}} \intersect matched)
  /\ UNCHANGED <<profile, prefs, consent, photo, pc, req, late, now, lastActive, swiped, matched, scan>>

Unmatch(p) ==
  /\ Edit
  /\ p \in matched \ ended
  /\ ended' = ended \union {p}
  /\ UNCHANGED <<profile, prefs, consent, photo, pc, req, late, now, lastActive, swiped, matched,
                 blocks, scan>>

\* Another user calls Discover or ListMatches.
OtherIsActive(u) ==
  /\ u # Viewer
  /\ lastActive' = Touched(u, now)
  /\ lastActive' # lastActive
  /\ UNCHANGED <<others, now, scan>>

Tick ==
  /\ now < MaxTime
  /\ now' = now + 1
  /\ UNCHANGED <<others, lastActive, scan>>

Next ==
  \/ ProfileNext /\ UNCHANGED <<now, lastActive, pairs, scan>>
  \/ FirstPage \/ NextPage \/ CheckReady \/ ListCandidates \/ TouchActivity \/ DiscoverFails
  \/ \E v, c \in Users : Swipe(v, c) \/ Block(v, c)
  \/ \E p \in matched : Unmatch(p)
  \/ \E u \in Users : OtherIsActive(u)
  \/ Tick

Spec == Init /\ [][Next]_vars
-----------------------------------------------------------------------------
(***************************************************************************)
(* The type of the state.  A match needs two swipes and outlives its end,  *)
(* the viewer's cursor is the last candidate on the screen, and what the   *)
(* scan remembers belongs to other users.                                  *)
(***************************************************************************)
TypeOK ==
  /\ \A u \in Users : profile[u].place \in Nat \union {NoPlace} /\ prefs[u].km \in Nat
  /\ consent \subseteq Users /\ late \subseteq Users
  /\ photo \in [Users -> {"none", "plain", "primary"}]
  /\ pc \in [Requests -> {"idle", "count", "profile", "prefs", "look", "genders", "clear"}]
  /\ edits \in 0 .. MaxEdits /\ now \in FirstTime .. MaxTime /\ asOf <= now
  /\ \A u \in Users : lastActive[u] \in FirstTime .. now
  /\ ended \subseteq matched
  /\ \A p \in matched : \A u, w \in p : u # w => <<u, w>> \in swiped
  /\ at \in {"rest", "ready", "list", "touch"} /\ atEnd \in BOOLEAN
  /\ cursor # NoCursor => shown # <<>> /\ cursor = shown[Len(shown)]
  /\ \A i \in DOMAIN shown : shown[i].user \in Users \ {Viewer}

(***************************************************************************)
(* The pages of one scan are one ranking: whatever is written between two  *)
(* pages, each row stands behind all that were shown before.  So nobody is *)
(* shown twice unless their score fell in between, and equal scores keep   *)
(* the order of the ids from page to page (PLAN.md:307: ties are stable).  *)
(***************************************************************************)
OneRanking ==
  \A i, j \in DOMAIN shown : i < j => Before(shown[i], shown[j])

(***************************************************************************)
(* PLAN.md:307 says the cursor keeps the moment of the ranking.  It keeps  *)
(* the time and not the rows; what it does keep is this: when the pages    *)
(* end, a candidate has been shown if every listing found them eligible,   *)
(* with a score that never rose.  Swipes, blocks, lost answers and changes *)
(* of the other profiles do not make the scan skip them.                   *)
(***************************************************************************)
NothingSkipped ==
  atEnd => \A u \in steady : \E i \in DOMAIN shown : shown[i].user = u

(***************************************************************************)
(* Five queries decide apart from each other whom the viewer is shown, as a*)
(* candidate, a match or a conversation, whose photo loads and who can be  *)
(* swiped.  At the moment of its listing a candidate has a photo that loads*)
(* and a swipe would not be answered with 404, as long as nobody has had a *)
(* birthday since the as_of of the cursor; a match on the list has its     *)
(* photo and its chat.  It compares the statements in one state: what      *)
(* changes between the card and the swipe may refuse it all the same.      *)
(***************************************************************************)
CardsAreWhole ==
  /\ at = "list" =>
       \A c \in Users :
         /\ Eligible(Viewer, c, asOf)
         /\ \A u \in {Viewer, c} : Age(u, asOf) = Age(u, now)
         => /\ CanSwipeTarget(Viewer, c, now)
            /\ PhotoVisible(Viewer, c, now)
            /\ ~Blocked(Viewer, c)
  /\ \A c \in ActiveMatches(Viewer) :
       PhotoVisible(Viewer, c, now) /\ c \in Conversations(Viewer) /\ Viewer \in Conversations(c)
=============================================================================
