-------------------------------- MODULE Chat --------------------------------
(***************************************************************************)
(* One match seen from the chat API (application/messaging/service.go):    *)
(* who may send and how fast, the pages of the history, read receipts, and *)
(* the end of the match while requests are under way.  Nonces, retries and *)
(* live delivery are in Messaging.                                         *)
(*                                                                         *)
(* A message is stamped when its INSERT starts and visible when it has     *)
(* committed.  One user, the reader, pages and marks messages as read; a   *)
(* page and a receipt are two round trips, the first of which looks at the *)
(* match.  The clock counts thirds of a second.                            *)
(***************************************************************************)
EXTENDS Sorting, Functions

CONSTANTS
  Members,      \* the two participants of the match
  Reader,       \* the one who pages and marks
  Messages,     \* the messages, in the order of their ids
  Skews,        \* how far the clock of an API replica is ahead of Postgres...
  MaxLag,       \* ...and may be behind
  Page,         \* messages on a page
  RateLimit,    \* messages a user may send in a window...
  RateWindow,   \* ...of so many seconds
  MaxClock      \* bound of the model: the last tick

ASSUME ChatAssumption ==
  /\ Reader \in Members
  /\ Messages \subseteq Nat /\ IsFiniteSet(Messages) /\ Skews \subseteq Int
  /\ MaxLag \in Nat /\ \A skew \in Skews : -MaxLag <= skew
  /\ {Page, RateLimit, RateWindow} \subseteq Nat \ {0} /\ MaxClock \in Nat

VARIABLES
  clock,     \* the clock of Postgres and Redis
  open,      \* the match is active and nobody has blocked the other
  msg,       \* each message: where its request is, its sender, its created_at
  read,      \* Postgres: the messages with a read_at
  rate,      \* Redis: the counter messaging:rate:<user>, and when it expires
  pager,     \* the history request and what its pages have shown
  marker,    \* the read receipt under way
  early,     \* history: sends admitted in the window, its last half second aside
  admitted   \* history: the messages whose request was past the match at its end

send == <<msg, rate, early>>
chatVars == <<clock, open, send, read, pager, marker, admitted>>

NoMark    == -1
NoWindow  == [count |-> 0, expires |-> 0]
Start     == [stamp |-> -1, id |-> -1]     \* before the first page
NoMsg     == [at |-> "new", sender |-> Reader, stamp |-> 0]
NoPager   == [at |-> "rest", cursor |-> Start, shown |-> <<>>, there |-> {}, end |-> FALSE]
NoMarker  == [at |-> "rest", time |-> NoMark, screen |-> {}]  \* screen: what was to be marked

Stored == {m \in Messages : msg[m].at = "stored"}
Key(m) == [stamp |-> msg[m].stamp, id |-> m]

\* ORDER BY created_at DESC, id DESC: k is newer than l.
Newer(k, l) == k.stamp > l.stamp \/ (k.stamp = l.stamp /\ k.id > l.id)

\* GetActiveParticipants, with which every request begins.
GetActiveParticipants_Always == TRUE
GetActiveParticipants == open
-----------------------------------------------------------------------------
\* The window of a user may have begun with a message in another chat.
ChatInit ==
  /\ clock    = 0
  /\ open     = TRUE
  /\ msg      = [m \in Messages |-> NoMsg]
  /\ read     = {}
  /\ rate \in {[u \in Members |-> w] : w \in {NoWindow, [count |-> 1, expires |-> 2]}}
  /\ pager    = NoPager
  /\ marker   = NoMarker
  /\ early    = [u \in Members |-> rate[u].count]
  /\ admitted = {}

Refused == [NoMsg EXCEPT !.at = "refused"]

\* SendText: first the match...
Admit(m, u) ==
  /\ msg[m].at = "new"
  /\ msg' = [msg EXCEPT ![m] = IF GetActiveParticipants
                                 THEN [NoMsg EXCEPT !.at = "member", !.sender = u] ELSE Refused]
  /\ UNCHANGED <<clock, open, rate, early, read, pager, marker, admitted>>

(***************************************************************************)
(* ...then messageRateScript.  TTL rounds to whole seconds: in the last    *)
(* half second it is 0, and the script answers -0, which Allow takes for a *)
(* count and admits.                                                       *)
(***************************************************************************)
UnderLimit_OffByOne(count, ttl) == count <= RateLimit + 1 \/ ttl = 0
UnderLimit(count, ttl) == count <= RateLimit \/ ttl = 0

Allow(m) ==
  LET u       == msg[m].sender
      live    == rate[u].count > 0
      count   == rate[u].count + 1
      expires == IF live THEN rate[u].expires ELSE clock + 3 * RateWindow
      ttl     == (2 * (expires - clock) + 3) \div 6
  IN
  /\ msg[m].at = "member"
  /\ msg' = [msg EXCEPT ![m] = IF UnderLimit(count, ttl) THEN [@ EXCEPT !.at = "allowed"] ELSE Refused]
  /\ rate' = [rate EXCEPT ![u] = [count |-> count, expires |-> expires]]
  /\ early' = IF UnderLimit(count, ttl) /\ ttl > 0 THEN [early EXCEPT ![u] = @ + 1] ELSE early
  /\ UNCHANGED <<clock, open, read, pager, marker, admitted>>

\* InsertMessage: created_at is the start of the statement...
InsertStarts(m) ==
  /\ msg[m].at = "allowed"
  /\ msg' = [msg EXCEPT ![m].at = "stamped", ![m].stamp = clock]
  /\ UNCHANGED <<clock, open, rate, early, read, pager, marker, admitted>>

\* ...and the row is there when it has committed.
InsertCommits(m) ==
  /\ msg[m].at = "stamped"
  /\ msg' = [msg EXCEPT ![m].at = "stored"]
  /\ UNCHANGED <<clock, open, rate, early, read, pager, marker, admitted>>

SendFails(m) ==
  /\ msg[m].at \in {"member", "allowed", "stamped"}
  /\ msg' = [msg EXCEPT ![m] = Refused]
  /\ UNCHANGED <<clock, open, rate, early, read, pager, marker, admitted>>
-----------------------------------------------------------------------------
(***************************************************************************)
(* History: the match; then a page, without a cursor or from the cursor of *)
(* the page before.                                                        *)
(***************************************************************************)
HistoryAuthorizes ==
  /\ pager.at = "rest"
  /\ GetActiveParticipants
  /\ \/ pager' = [NoPager EXCEPT !.at = "list"]
     \/ pager.cursor # Start /\ pager' = [pager EXCEPT !.at = "list"]
  /\ UNCHANGED <<clock, open, send, read, marker, admitted>>

\* ListMessagesBefore: the rows behind the cursor, newest first.
Before_StampOnly(k, cursor) == cursor = Start \/ cursor.stamp > k.stamp
Before(k, cursor) == cursor = Start \/ Newer(cursor, k)

Rows(cursor) == {Key(m) : m \in {n \in Stored : Before(Key(n), cursor)}}
Order(rows) == {p \in rows \X rows : Newer(p[1], p[2])}

\* One row more than the page is asked for, and gives the cursor to the last of it.
HistoryAnswers ==
  LET found == Rows(pager.cursor)
      rows  == Limit(InOrder(found, Order(found)), Page + 1)
      more  == Len(rows) > Page
      page  == Limit(rows, Page)
  IN
  /\ pager.at = "list"
  /\ pager' = [at |-> "rest",
               cursor |-> IF more THEN page[Page] ELSE Start,
               shown  |-> pager.shown \o page,
               there  |-> IF pager.cursor = Start THEN Stored ELSE pager.there,
               end    |-> ~more]
  /\ UNCHANGED <<clock, open, send, read, marker, admitted>>

HistoryFails ==
  /\ pager.at = "list"
  /\ pager' = [pager EXCEPT !.at = "rest"]
  /\ UNCHANGED <<clock, open, send, read, marker, admitted>>
-----------------------------------------------------------------------------
(***************************************************************************)
(* MarkRead: the match; then one UPDATE up to the time of the API's clock. *)
(* The user asks for what is on the screen, and not younger than MaxLag.   *)
(***************************************************************************)
MarkAuthorizes ==
  /\ marker.at \in {"rest", "done"}
  /\ \E skew \in Skews :
       marker' = IF GetActiveParticipants
                   THEN [at |-> "update", time |-> clock + skew,
                         screen |-> {m \in Stored : /\ Key(m) \in Range(pager.shown)
                                                    /\ msg[m].sender # Reader
                                                    /\ msg[m].stamp <= clock - MaxLag}]
                   ELSE NoMarker
  /\ UNCHANGED <<clock, open, send, read, pager, admitted>>

Received_Earlier(m, time) == msg[m].sender # Reader /\ msg[m].stamp < time
Received(m, time) == msg[m].sender # Reader /\ msg[m].stamp <= time

MarkMessagesRead ==
  /\ marker.at = "update"
  /\ read' = read \union {m \in Stored : Received(m, marker.time)}
  /\ marker' = [marker EXCEPT !.at = "done", !.time = NoMark]
  /\ UNCHANGED <<clock, open, send, pager, admitted>>

MarkFails ==
  /\ marker.at = "update"
  /\ marker' = NoMarker
  /\ UNCHANGED <<clock, open, send, read, pager, admitted>>

\* The unread count of ListConversations.
Unread == {m \in Stored : msg[m].sender # Reader /\ m \notin read}
-----------------------------------------------------------------------------
\* Unmatch, or a block by either of them: there is no way back.
MatchEnds ==
  /\ open
  /\ open' = FALSE
  /\ admitted' = {m \in Messages : msg[m].at \notin {"new", "refused"}}
  /\ UNCHANGED <<clock, send, read, pager, marker>>

\* A counter expires with its window.
Tick ==
  LET over(u) == rate[u].count > 0 /\ rate[u].expires <= clock + 1 IN
  /\ clock < MaxClock
  /\ clock' = clock + 1
  /\ rate' = [u \in Members |-> IF over(u) THEN NoWindow ELSE rate[u]]
  /\ early' = [u \in Members |-> IF over(u) THEN 0 ELSE early[u]]
  /\ UNCHANGED <<open, msg, read, pager, marker, admitted>>

ChatNext ==
  \/ \E m \in Messages, u \in Members : Admit(m, u)
  \/ \E m \in Messages : Allow(m) \/ InsertStarts(m) \/ InsertCommits(m) \/ SendFails(m)
  \/ HistoryAuthorizes \/ HistoryAnswers \/ HistoryFails
  \/ MarkAuthorizes \/ MarkMessagesRead \/ MarkFails
  \/ MatchEnds \/ Tick

ChatSpec == ChatInit /\ [][ChatNext]_chatVars
-----------------------------------------------------------------------------
\* The type of the state: counters are of their window, receipts of stored messages.
ChatTypeOK ==
  /\ clock \in 0 .. MaxClock /\ open \in BOOLEAN
  /\ msg \in [Messages -> [at : {"new", "member", "allowed", "stamped", "stored", "refused"},
                           sender : Members, stamp : 0 .. MaxClock]]
  /\ \A u \in Members : /\ early[u] <= rate[u].count
                        /\ rate[u].count > 0 => rate[u].expires \in clock + 1 .. clock + 3 * RateWindow
  /\ read \union marker.screen \subseteq Stored /\ admitted \subseteq Messages
  /\ pager.at \in {"rest", "list"} /\ marker.at \in {"rest", "update", "done"}
  /\ pager.cursor # Start => pager.cursor = pager.shown[Len(pager.shown)]

(***************************************************************************)
(* messages.sql.go says that concurrent inserts create neither gaps nor    *)
(* duplicates while the client pages backwards.  The pages are one strictly*)
(* descending list, and whatever was stored when the first of them was     *)
(* read is on it as soon as the pages have passed its place.  (A message   *)
(* that is stamped before that page and commits after it may be missing.)  *)
(***************************************************************************)
OneHistory ==
  /\ \A i, j \in DOMAIN pager.shown : i < j => Newer(pager.shown[i], pager.shown[j])
  /\ \A m \in pager.there :
       Key(m) \in Range(pager.shown) \/ (~pager.end /\ Newer(pager.cursor, Key(m)))

(***************************************************************************)
(* A message that was on the reader's screen when they marked the chat as  *)
(* read is not counted as unread afterwards, unless it is younger than the *)
(* difference between the clock of the API, which the receipt carries, and *)
(* that of Postgres, which stamped it.  Messages that commit while the     *)
(* receipt is under way do not take its place.                             *)
(***************************************************************************)
MarkedIsRead == marker.at = "done" => marker.screen \intersect Unread = {}

(***************************************************************************)
(* After an unmatch or a block no new message enters the chat: what is     *)
(* stored then was sent before, or was past the check of the match, which  *)
(* no later step repeats.                                                  *)
(***************************************************************************)
LateMessagesWereAdmitted == ~open => Stored \subseteq admitted

(***************************************************************************)
(* message_rate_limiter.go caps the messages of a user in a window.  Sends *)
(* beyond the limit pass only in its last half second, where the rounded   *)
(* TTL is 0, whatever replicas they come through.                          *)
(***************************************************************************)
OverLimitOnlyAtTheEnd == \A u \in Members : early[u] <= RateLimit
=============================================================================
