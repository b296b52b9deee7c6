-------------------------- MODULE Services_proofs --------------------------
(***************************************************************************)
(* Proofs about the two services of MCServices.  A chat: for any messages  *)
(* and participants, any clocks of the replicas, any limit, window and page*)
(* size.  The way in: what the limiter bounds and what a registration      *)
(* keeps, for any number of requests, addresses, emails and attempts.      *)
(***************************************************************************)
EXTENDS MCServices, Sorting_proofs

Places == {"new", "member", "allowed", "stamped", "stored", "refused"}
MsgRow == [at : Places, sender : Members, stamp : Int]
Window == [count : Nat, expires : Int]

ChatTyped ==
  /\ clock \in Int
  /\ msg \in [Messages -> MsgRow]
  /\ rate \in [Members -> Window] /\ early \in [Members -> Nat]
  /\ marker \in [at : {"rest", "update", "done"}, time : Int, screen : SUBSET Messages]

\* What is to be marked is stored; the UPDATE under way will reach it, or has.
ScreenOK ==
  \A m \in marker.screen :
    /\ msg[m].at = "stored"
    /\ marker.at = "update" => Received(m, marker.time)
    /\ marker.at = "done" => m \in read

\* The sends admitted early in a window are among those that Redis counts.
RateOK == \A u \in Members : early[u] <= RateLimit /\ early[u] <= rate[u].count

\* After the end every request that goes on was past the check of the match.
EndOK == ~open => \A m \in Messages : msg[m].at \in {"new", "refused"} \/ m \in admitted

ChatInv == ChatTyped /\ ScreenOK /\ RateOK /\ EndOK

\* A message that moves on, and is not the one on a screen, disturbs no receipt.
LEMMA MessageMoves ==
  ASSUME ChatTyped, ScreenOK, NEW m \in Messages, NEW row \in MsgRow, msg[m].at # "stored",
         msg' = [msg EXCEPT ![m] = row], UNCHANGED <<marker, read>>
  PROVE  msg' \in [Messages -> MsgRow] /\ ScreenOK'
<1>1. msg' \in [Messages -> MsgRow] /\ \A n \in Messages \ {m} : msg'[n] = msg[n]
  BY DEF ChatTyped
<1>2. marker.screen \subseteq Messages /\ m \notin marker.screen
  BY DEF ChatTyped, ScreenOK
<1>3. ASSUME NEW n \in marker.screen
      PROVE  msg'[n] = msg[n]
  BY <1>1, <1>2
<1> QED BY <1>1, <1>3 DEF ScreenOK, Received

LEMMA RefusedRow == Refused \in MsgRow /\ Refused.at = "refused"
BY ChatAssumption DEF Refused, NoMsg, MsgRow, Places

(***************************************************************************)
(* Every step of the chat keeps the invariant.                             *)
(***************************************************************************)
LEMMA ChatStep ==
  ASSUME ChatInv, [ChatNext]_chatVars
  PROVE  ChatInv'
<1> ChatTyped /\ ScreenOK /\ RateOK /\ EndOK
  BY DEF ChatInv
<1>1. ASSUME NEW m \in Messages, NEW u \in Members, Admit(m, u)
      PROVE  ChatInv'
  <2> DEFINE row == IF open THEN [NoMsg EXCEPT !.at = "member", !.sender = u] ELSE Refused
  <2>1. row \in MsgRow /\ (~open => row.at = "refused")
    <3>1. CASE open
      <4>1. row = [at |-> "member", sender |-> u, stamp |-> 0]
        BY <3>1 DEF NoMsg
      <4> HIDE DEF row
      <4> QED BY <3>1, <4>1 DEF MsgRow, Places
    <3> QED BY <3>1, RefusedRow
  <2>2. /\ msg[m].at # "stored" /\ msg' = [msg EXCEPT ![m] = row]
        /\ UNCHANGED <<clock, open, rate, early, read, marker, admitted>>
    BY <1>1 DEF Admit, GetActiveParticipants
  <2> HIDE DEF row
  <2>3. ChatTyped' /\ ScreenOK'
    BY <2>1, <2>2, MessageMoves DEF ChatTyped
  <2>4. EndOK'
    BY <2>1, <2>2 DEF EndOK, ChatTyped
  <2> QED BY <2>2, <2>3, <2>4 DEF ChatInv, RateOK
<1>2. ASSUME NEW m \in Messages, Allow(m)
      PROVE  ChatInv'
  <2> DEFINE u       == msg[m].sender
             count   == rate[u].count + 1
             expires == IF rate[u].count > 0 THEN rate[u].expires ELSE clock + 3 * RateWindow
             ttl     == (2 * (expires - clock) + 3) \div 6
             row     == IF UnderLimit(count, ttl) THEN [msg[m] EXCEPT !.at = "allowed"] ELSE Refused
             window  == [count |-> count, expires |-> expires]
  <2>1. u \in Members /\ rate[u] \in Window
    BY DEF ChatTyped, MsgRow
  <2>2. count \in Nat /\ expires \in Int /\ count = rate[u].count + 1
    BY <2>1, ChatAssumption DEF Window, ChatTyped
  <2>3. ttl \in Int
    BY <2>2 DEF ChatTyped
  <2>4. row \in MsgRow
    BY RefusedRow DEF ChatTyped, MsgRow, Places
  <2>5. window \in Window /\ window.count = count
    BY <2>2 DEF Window
  <2>6. /\ msg[m].at = "member" /\ msg' = [msg EXCEPT ![m] = row]
        /\ rate' = [rate EXCEPT ![u] = window]
        /\ early' = IF UnderLimit(count, ttl) /\ ttl > 0 THEN [early EXCEPT ![u] = @ + 1] ELSE early
        /\ UNCHANGED <<clock, open, read, marker, admitted>>
    BY <1>2 DEF Allow
  <2> HIDE DEF u, count, expires, ttl, row, window
  <2>7. msg' \in [Messages -> MsgRow] /\ ScreenOK'
    BY <2>4, <2>6, MessageMoves
  <2>8. early' \in [Members -> Nat] /\ rate' \in [Members -> Window]
    BY <2>1, <2>5, <2>6 DEF ChatTyped
  <2>9. ASSUME NEW w \in Members
        PROVE  early'[w] <= RateLimit /\ early'[w] <= rate'[w].count
    <3>1. CASE w # u
      BY <2>1, <2>6, <3>1 DEF ChatTyped, RateOK
    <3>2. CASE w = u
      <4>1. rate'[u].count = rate[u].count + 1 /\ rate[u].count \in Nat /\ early[u] \in Nat
        BY <2>1, <2>2, <2>5, <2>6 DEF ChatTyped, Window
      <4>2. early[u] <= RateLimit /\ early[u] <= rate[u].count
        BY <2>1 DEF RateOK
      <4>3. CASE UnderLimit(count, ttl) /\ ttl > 0
        <5>1. count <= RateLimit
          BY <2>3, <4>3 DEF UnderLimit
        <5>2. early'[u] = early[u] + 1
          BY <2>1, <2>6, <4>3 DEF ChatTyped
        <5> QED BY <2>2, <3>2, <4>1, <4>2, <5>1, <5>2, ChatAssumption
      <4>4. CASE ~(UnderLimit(count, ttl) /\ ttl > 0)
        BY <2>6, <3>2, <4>1, <4>2, <4>4, ChatAssumption
      <4> QED BY <4>3, <4>4
    <3> QED BY <3>1, <3>2
  <2>10. EndOK'
    BY <2>6 DEF EndOK, ChatTyped
  <2> QED BY <2>6, <2>7, <2>8, <2>9, <2>10 DEF ChatInv, ChatTyped, RateOK
<1>3. ASSUME NEW m \in Messages, NEW row \in MsgRow, msg[m].at \in {"member", "allowed", "stamped"},
             msg' = [msg EXCEPT ![m] = row], UNCHANGED <<clock, open, rate, early, read, marker, admitted>>
      PROVE  ChatInv'
  <2>1. ChatTyped' /\ ScreenOK'
    BY <1>3, MessageMoves DEF ChatTyped
  <2>2. EndOK'
    BY <1>3 DEF EndOK, ChatTyped
  <2> QED BY <1>3, <2>1, <2>2 DEF ChatInv, RateOK
<1>4. ASSUME NEW m \in Messages, InsertStarts(m)
      PROVE  ChatInv'
  <2> DEFINE row == [msg[m] EXCEPT !.at = "stamped", !.stamp = clock]
  <2>1. row \in MsgRow
    BY DEF ChatTyped, MsgRow, Places
  <2>2. msg' = [msg EXCEPT ![m] = row]
    BY <1>4 DEF InsertStarts, ChatTyped
  <2> QED BY <1>3, <1>4, <2>1, <2>2 DEF InsertStarts
<1>5. ASSUME NEW m \in Messages, InsertCommits(m)
      PROVE  ChatInv'
  <2> DEFINE row == [msg[m] EXCEPT !.at = "stored"]
  <2>1. row \in MsgRow
    BY DEF ChatTyped, MsgRow, Places
  <2>2. msg' = [msg EXCEPT ![m] = row]
    BY <1>5 DEF InsertCommits, ChatTyped
  <2> QED BY <1>3, <1>5, <2>1, <2>2 DEF InsertCommits
<1>6. ASSUME NEW m \in Messages, SendFails(m)
      PROVE  ChatInv'
  BY <1>3, <1>6, RefusedRow DEF SendFails
<1>7. CASE UNCHANGED <<clock, open, send, read, marker, admitted>>
  BY <1>7 DEF send, ChatInv, ChatTyped, ScreenOK, RateOK, EndOK, Received
<1>8. CASE HistoryAuthorizes \/ HistoryAnswers \/ HistoryFails
  BY <1>7, <1>8 DEF HistoryAuthorizes, HistoryAnswers, HistoryFails
<1>9. ASSUME NEW at \in {"rest", "update", "done"}, NEW time \in Int, NEW screen \in SUBSET Messages,
             marker' = [at |-> at, time |-> time, screen |-> screen],
             UNCHANGED <<clock, open, send, admitted>>, read \subseteq read', ScreenOK'
      PROVE  ChatInv'
  BY <1>9 DEF send, ChatInv, ChatTyped, RateOK, EndOK
<1>10. CASE MarkFails
  <2>1. marker' = [at |-> "rest", time |-> -1, screen |-> {}]
    BY <1>10 DEF MarkFails, NoMarker, NoMark
  <2>2. ScreenOK'
    BY <2>1 DEF ScreenOK
  <2> QED BY <1>9, <1>10, <2>1, <2>2 DEF MarkFails
<1>11. CASE MarkAuthorizes
  <2>1. PICK skew \in Skews : MarkAuthorizes!2!(skew)
    BY <1>11 DEF MarkAuthorizes
  <2>2. CASE ~open
    <3>1. marker' = [at |-> "rest", time |-> -1, screen |-> {}]
      BY <2>1, <2>2 DEF GetActiveParticipants, NoMarker, NoMark
    <3>2. ScreenOK'
      BY <3>1 DEF ScreenOK
    <3>3. UNCHANGED <<clock, open, send, read, admitted>>
      BY <1>11 DEF MarkAuthorizes
    <3> QED BY <1>9, <3>1, <3>2, <3>3
  <2>3. CASE open
    <3> DEFINE screen == {m \in Stored : /\ Key(m) \in Range(pager.shown)
                                         /\ msg[m].sender # Reader
                                         /\ msg[m].stamp <= clock - MaxLag}
               time == clock + skew
    <3>1. marker' = [at |-> "update", time |-> time, screen |-> screen]
      BY <2>1, <2>3 DEF GetActiveParticipants
    <3>2. time \in Int /\ clock - MaxLag <= time /\ MaxLag \in Nat /\ clock \in Int
      BY ChatAssumption DEF ChatTyped
    <3>3. ASSUME NEW m \in screen
          PROVE  /\ m \in Messages /\ msg[m].at = "stored" /\ msg[m].sender # Reader
                 /\ msg[m].stamp <= clock - MaxLag /\ msg[m].stamp \in Int
      BY DEF Stored, ChatTyped, MsgRow
    <3> HIDE DEF screen, time
    <3>4. ASSUME NEW m \in screen
          PROVE  msg[m].stamp <= time
      BY <3>2, <3>3
    <3>5. UNCHANGED <<clock, open, send, read, admitted>>
      BY <1>11 DEF MarkAuthorizes
    <3>6. ScreenOK'
      BY <3>1, <3>3, <3>4, <3>5 DEF ScreenOK, Received, send
    <3>7. screen \in SUBSET Messages
      BY <3>3
    <3> QED BY <1>9, <3>1, <3>2, <3>5, <3>6, <3>7
  <2> QED BY <2>2, <2>3
<1>12. CASE MarkMessagesRead
  <2>1. /\ marker.at = "update" /\ marker' = [at |-> "done", time |-> -1, screen |-> marker.screen]
        /\ read' = read \union {m \in Stored : Received(m, marker.time)}
        /\ UNCHANGED <<clock, open, send, admitted>> /\ marker.screen \in SUBSET Messages
    BY <1>12 DEF MarkMessagesRead, ChatTyped, NoMark
  <2>2. ASSUME NEW m \in marker.screen
        PROVE  m \in read' /\ msg'[m].at = "stored"
    BY <2>1 DEF ScreenOK, Stored, send
  <2>3. ScreenOK'
    BY <2>1, <2>2 DEF ScreenOK
  <2> QED BY <1>9, <2>1, <2>3
<1>13. CASE MatchEnds
  BY <1>13 DEF MatchEnds, send, ChatInv, ChatTyped, ScreenOK, RateOK, EndOK, Received
<1>14. CASE Tick
  <2> DEFINE over(u) == rate[u].count > 0 /\ rate[u].expires <= clock + 1
  <2>1. /\ clock' = clock + 1
        /\ rate' = [u \in Members |-> IF over(u) THEN NoWindow ELSE rate[u]]
        /\ early' = [u \in Members |-> IF over(u) THEN 0 ELSE early[u]]
        /\ UNCHANGED <<open, msg, read, marker, admitted>>
    BY <1>14 DEF Tick
  <2>2. NoWindow \in Window /\ NoWindow.count = 0
    BY DEF NoWindow, Window
  <2> HIDE DEF over
  <2>3. ChatTyped'
    BY <2>1, <2>2 DEF ChatTyped
  <2>4. RateOK'
    BY <2>1, <2>2, ChatAssumption DEF RateOK, ChatTyped
  <2> QED BY <2>1, <2>3, <2>4 DEF ChatInv, ScreenOK, EndOK, Received
<1> QED
  BY <1>1, <1>2, <1>4, <1>5, <1>6, <1>7, <1>8, <1>10, <1>11, <1>12, <1>13, <1>14
  DEF ChatNext, chatVars

LEMMA ChatStart == ChatInit => ChatInv
<1> SUFFICES ASSUME ChatInit PROVE ChatInv
  OBVIOUS
<1>1. NoMsg \in MsgRow /\ NoMsg.at = "new"
  BY ChatAssumption DEF NoMsg, MsgRow, Places
<1>2. PICK w \in {NoWindow, [count |-> 1, expires |-> 2]} : rate = [u \in Members |-> w]
  BY DEF ChatInit
<1>3. w \in Window /\ w.count \in {0, 1}
  BY <1>2 DEF NoWindow, Window
<1>4. /\ clock = 0 /\ msg = [m \in Messages |-> NoMsg] /\ open = TRUE
      /\ marker = [at |-> "rest", time |-> -1, screen |-> {}]
      /\ early = [u \in Members |-> rate[u].count]
  BY DEF ChatInit, NoMarker, NoMark
<1>5. \A u \in Members : early[u] = w.count /\ rate[u] = w
  BY <1>2, <1>4
<1>6. ChatTyped
  BY <1>1, <1>2, <1>3, <1>4 DEF ChatTyped
<1>7. RateOK
  BY <1>3, <1>5, ChatAssumption DEF RateOK
<1> QED BY <1>4, <1>6, <1>7 DEF ChatInv, ScreenOK, EndOK

LEMMA ChatAlways == ChatSpec => []ChatInv
BY ChatStart, ChatStep, PTL DEF ChatSpec

(***************************************************************************)
(* What was on the screen when the chat was marked as read is not unread   *)
(* afterwards, whichever replicas, as far behind as MaxLag, take part.     *)
(***************************************************************************)
THEOREM MarkIsEnough == ChatSpec => []MarkedIsRead
<1>1. ChatInv => MarkedIsRead
  BY DEF ChatInv, ScreenOK, MarkedIsRead, Unread
<1> QED BY <1>1, ChatAlways, PTL

(***************************************************************************)
(* After an unmatch or a block only messages are stored whose request was  *)
(* past the check of the match.                                            *)
(***************************************************************************)
THEOREM EndIsFinal == ChatSpec => []LateMessagesWereAdmitted
<1>1. ChatInv => LateMessagesWereAdmitted
  BY DEF ChatInv, EndOK, LateMessagesWereAdmitted, Stored
<1> QED BY <1>1, ChatAlways, PTL

(***************************************************************************)
(* Outside the last half second of a window no more than RateLimit         *)
(* messages of a user are let through.                                     *)
(***************************************************************************)
THEOREM LimitHolds == ChatSpec => []OverLimitOnlyAtTheEnd
<1>1. ChatInv => OverLimitOnlyAtTheEnd
  BY DEF ChatInv, RateOK, OverLimitOnlyAtTheEnd
<1> QED BY <1>1, ChatAlways, PTL

(***************************************************************************)
(* The history.  What is stored stays as it is, so a key does not change   *)
(* while the pages are read.                                               *)
(***************************************************************************)
LEMMA StoredStays ==
  ASSUME ChatTyped, [ChatNext]_chatVars
  PROVE  \A m \in Stored : m \in Stored' /\ msg'[m] = msg[m]
<1>1. ASSUME NEW m \in Messages, NEW row, msg[m].at # "stored", msg' = [msg EXCEPT ![m] = row]
      PROVE  \A n \in Stored : n \in Stored' /\ msg'[n] = msg[n]
  BY <1>1 DEF Stored, ChatTyped
<1>2. CASE msg' = msg
  BY <1>2 DEF Stored
<1>3. ASSUME NEW m \in Messages, NEW u \in Members, Admit(m, u)
      PROVE  \A n \in Stored : n \in Stored' /\ msg'[n] = msg[n]
  BY <1>1, <1>3 DEF Admit
<1>4. ASSUME NEW m \in Messages, Allow(m) \/ InsertStarts(m) \/ InsertCommits(m) \/ SendFails(m)
      PROVE  \A n \in Stored : n \in Stored' /\ msg'[n] = msg[n]
  <2>1. msg[m].at # "stored" /\ \A n \in Messages \ {m} : msg'[n] = msg[n]
    BY <1>4 DEF Allow, InsertStarts, InsertCommits, SendFails, ChatTyped
  <2> QED BY <2>1 DEF Stored
<1>5. CASE \/ HistoryAuthorizes \/ HistoryAnswers \/ HistoryFails
           \/ MarkAuthorizes \/ MarkMessagesRead \/ MarkFails \/ MatchEnds \/ Tick
  BY <1>2, <1>5 DEF HistoryAuthorizes, HistoryAnswers, HistoryFails, MarkAuthorizes,
                    MarkMessagesRead, MarkFails, MatchEnds, Tick, send
<1> QED BY <1>2, <1>3, <1>4, <1>5 DEF ChatNext, chatVars, send

\* Stamps are times of the clock, receipts are of stored messages.
StampOK ==
  /\ clock \in 0 .. MaxClock /\ open \in BOOLEAN
  /\ \A m \in Messages : msg[m].stamp \in 0 .. MaxClock
  /\ read \subseteq Stored /\ admitted \subseteq Messages

\* A window that counts anything has not expired, and is not longer than a window.
WindowOK ==
  \A u \in Members : rate[u].count > 0 => rate[u].expires \in clock + 1 .. clock + 3 * RateWindow

LEMMA ChatNumbers ==
  /\ MaxClock \in Nat /\ RateWindow \in Nat /\ RateWindow > 0 /\ 3 * RateWindow \in Nat
  /\ 3 * RateWindow >= 3
<1>1. MaxClock \in Nat /\ RateWindow \in Nat \ {0}
  BY ChatAssumption
<1> QED BY <1>1

LEMMA StampStep ==
  ASSUME ChatTyped, StampOK, [ChatNext]_chatVars
  PROVE  StampOK'
<1>1. \A m \in Stored : m \in Stored' /\ msg'[m] = msg[m]
  BY StoredStays
<1>2. read' \subseteq Stored'
  <2>1. CASE MarkMessagesRead
    BY <1>1, <2>1 DEF MarkMessagesRead, StampOK
  <2>2. CASE ~MarkMessagesRead
    <3>1. read' = read
      BY <2>2 DEF ChatNext, chatVars, send, Admit, Allow, InsertStarts, InsertCommits, SendFails,
                  HistoryAuthorizes, HistoryAnswers, HistoryFails, MarkAuthorizes, MarkFails,
                  MatchEnds, Tick
    <3> QED BY <1>1, <3>1 DEF StampOK
  <2> QED BY <2>1, <2>2
<1>3. ASSUME NEW m \in Messages, NEW row \in MsgRow, row.stamp \in 0 .. MaxClock,
             msg' = [msg EXCEPT ![m] = row], UNCHANGED <<clock, open, admitted>>
      PROVE  StampOK'
  <2>1. \A n \in Messages : msg'[n].stamp \in 0 .. MaxClock
    BY <1>3 DEF ChatTyped, StampOK
  <2> QED BY <1>2, <1>3, <2>1 DEF StampOK
<1>4. NoMsg.stamp = 0 /\ Refused.stamp = 0 /\ 0 \in 0 .. MaxClock
  BY ChatNumbers DEF NoMsg, Refused
<1>5. ASSUME NEW m \in Messages, NEW u \in Members, Admit(m, u)
      PROVE  StampOK'
  <2> DEFINE row == IF open THEN [NoMsg EXCEPT !.at = "member", !.sender = u] ELSE Refused
  <2>1. row \in MsgRow /\ row.stamp = 0
    <3>1. CASE open
      <4>1. row = [at |-> "member", sender |-> u, stamp |-> 0]
        BY <3>1 DEF NoMsg
      <4> HIDE DEF row
      <4> QED BY <4>1 DEF MsgRow, Places
    <3> QED BY <1>4, <3>1, RefusedRow
  <2>2. msg' = [msg EXCEPT ![m] = row] /\ UNCHANGED <<clock, open, admitted>>
    BY <1>5 DEF Admit, GetActiveParticipants
  <2> HIDE DEF row
  <2> QED BY <1>3, <1>4, <2>1, <2>2
<1>6. ASSUME NEW m \in Messages, NEW row, row \in {Refused, [msg[m] EXCEPT !.at = "allowed"],
                [msg[m] EXCEPT !.at = "stamped", !.stamp = clock], [msg[m] EXCEPT !.at = "stored"]},
             msg' = [msg EXCEPT ![m] = row], UNCHANGED <<clock, open, admitted>>
      PROVE  StampOK'
  <2>1. msg[m] \in MsgRow /\ msg[m].stamp \in 0 .. MaxClock /\ clock \in 0 .. MaxClock
    BY DEF ChatTyped, StampOK
  <2>2. row \in MsgRow /\ row.stamp \in 0 .. MaxClock
    <3>1. CASE row = Refused
      BY <1>4, <3>1, RefusedRow
    <3>2. CASE row = [msg[m] EXCEPT !.at = "allowed"]
      BY <2>1, <3>2 DEF MsgRow, Places
    <3>3. CASE row = [msg[m] EXCEPT !.at = "stamped", !.stamp = clock]
      <4>1. clock \in Int
        BY <2>1, ChatNumbers
      <4> QED BY <2>1, <3>3, <4>1 DEF MsgRow, Places
    <3>4. CASE row = [msg[m] EXCEPT !.at = "stored"]
      BY <2>1, <3>4 DEF MsgRow, Places
    <3> QED BY <1>6, <3>1, <3>2, <3>3, <3>4
  <2> QED BY <1>3, <1>6, <2>2
<1>7. ASSUME NEW m \in Messages, Allow(m)
      PROVE  StampOK'
  <2>1. PICK row \in {Refused, [msg[m] EXCEPT !.at = "allowed"]} : msg' = [msg EXCEPT ![m] = row]
    BY <1>7 DEF Allow, ChatTyped
  <2> QED BY <1>6, <1>7, <2>1 DEF Allow
<1>8. ASSUME NEW m \in Messages, InsertStarts(m) \/ InsertCommits(m) \/ SendFails(m)
      PROVE  StampOK'
  <2>1. PICK row \in {Refused, [msg[m] EXCEPT !.at = "stamped", !.stamp = clock],
                      [msg[m] EXCEPT !.at = "stored"]} : msg' = [msg EXCEPT ![m] = row]
    BY <1>8 DEF InsertStarts, InsertCommits, SendFails, ChatTyped
  <2>2. UNCHANGED <<clock, open, admitted>>
    BY <1>8 DEF InsertStarts, InsertCommits, SendFails
  <2> QED BY <1>6, <2>1, <2>2
<1>9. CASE /\ UNCHANGED msg /\ clock' \in 0 .. MaxClock /\ open' \in BOOLEAN
           /\ admitted' \subseteq Messages
  BY <1>2, <1>9 DEF StampOK
<1>10. CASE HistoryAuthorizes \/ HistoryAnswers \/ HistoryFails \/ MarkAuthorizes
            \/ MarkMessagesRead \/ MarkFails \/ UNCHANGED chatVars
  BY <1>9, <1>10 DEF HistoryAuthorizes, HistoryAnswers, HistoryFails, MarkAuthorizes,
                     MarkMessagesRead, MarkFails, chatVars, send, StampOK
<1>11. CASE MatchEnds
  BY <1>9, <1>11 DEF MatchEnds, send, StampOK
<1>12. CASE Tick
  BY <1>9, <1>12, ChatNumbers DEF Tick, StampOK
<1> QED BY <1>5, <1>7, <1>8, <1>10, <1>11, <1>12 DEF ChatNext

LEMMA WindowStep ==
  ASSUME ChatTyped, WindowOK, [ChatNext]_chatVars
  PROVE  WindowOK'
<1>1. ASSUME NEW m \in Messages, Allow(m)
      PROVE  WindowOK'
  <2> DEFINE u       == msg[m].sender
             expires == IF rate[u].count > 0 THEN rate[u].expires ELSE clock + 3 * RateWindow
             window  == [count |-> rate[u].count + 1, expires |-> expires]
  <2>1. u \in Members /\ rate[u] \in Window /\ clock \in Int
    BY DEF ChatTyped, MsgRow
  <2>2. rate' = [rate EXCEPT ![u] = window] /\ clock' = clock
    BY <1>1 DEF Allow
  <2>3. expires \in clock + 1 .. clock + 3 * RateWindow
    BY <2>1, ChatNumbers DEF WindowOK, Window
  <2>4. window.expires = expires
    OBVIOUS
  <2> HIDE DEF u, expires, window
  <2> QED BY <2>1, <2>2, <2>3, <2>4 DEF WindowOK, ChatTyped
<1>2. CASE Tick
  <2> DEFINE over(u) == rate[u].count > 0 /\ rate[u].expires <= clock + 1
  <2>1. clock' = clock + 1 /\ clock \in Int
        /\ \A u \in Members : rate'[u] = IF over(u) THEN NoWindow ELSE rate[u]
    BY <1>2 DEF Tick, ChatTyped
  <2>2. NoWindow.count = 0
    BY DEF NoWindow
  <2>3. ASSUME NEW u \in Members, rate'[u].count > 0
        PROVE  rate'[u].expires \in clock' + 1 .. clock' + 3 * RateWindow
    <3>1. ~over(u) /\ rate'[u] = rate[u]
      BY <2>1, <2>2, <2>3
    <3>2. /\ rate[u].expires \in clock + 1 .. clock + 3 * RateWindow
          /\ ~(rate[u].expires <= clock + 1)
      BY <2>3, <3>1 DEF WindowOK
    <3> QED BY <2>1, <3>1, <3>2, ChatNumbers
  <2> QED BY <2>3 DEF WindowOK
<1>3. CASE UNCHANGED <<rate, clock>>
  BY <1>3 DEF WindowOK
<1>4. ASSUME NEW m \in Messages, NEW u \in Members, Admit(m, u)
      PROVE  WindowOK'
  BY <1>3, <1>4 DEF Admit
<1>5. ASSUME NEW m \in Messages, InsertStarts(m) \/ InsertCommits(m) \/ SendFails(m)
      PROVE  WindowOK'
  BY <1>3, <1>5 DEF InsertStarts, InsertCommits, SendFails
<1>6. CASE \/ HistoryAuthorizes \/ HistoryAnswers \/ HistoryFails
           \/ MarkAuthorizes \/ MarkMessagesRead \/ MarkFails \/ MatchEnds \/ UNCHANGED chatVars
  BY <1>3, <1>6 DEF HistoryAuthorizes, HistoryAnswers, HistoryFails, MarkAuthorizes,
                    MarkMessagesRead, MarkFails, MatchEnds, chatVars, send
<1> QED BY <1>1, <1>2, <1>4, <1>5, <1>6 DEF ChatNext

(***************************************************************************)
(* The pages.  The cursor is the last message on the screen, as long as    *)
(* there are more, and the request of a first page begins with none.       *)
(***************************************************************************)
KeyRow == [stamp : Nat, id : Messages]
KeysInOrder == {p \in KeyRow \X KeyRow : Newer(p[1], p[2])}

PagerTyped ==
  pager \in [at : {"rest", "list"}, cursor : KeyRow \union {Start}, shown : Seq(KeyRow),
             there : SUBSET Messages, end : BOOLEAN]

CursorIsLast ==
  /\ pager.there \subseteq Stored
  /\ pager.cursor # Start =>
       /\ pager.shown # <<>> /\ pager.cursor = pager.shown[Len(pager.shown)] /\ ~pager.end
  /\ pager.at = "list" /\ pager.cursor = Start =>
       pager.shown = <<>> /\ pager.there = {} /\ ~pager.end

PagerInv == PagerTyped /\ CursorIsLast /\ OneHistory

\* The order of the messages tells any two of them apart.
LEMMA KeyOrder ==
  ASSUME NEW k \in KeyRow \union {Start}, NEW l \in KeyRow, NEW o \in KeyRow
  PROVE  /\ ~Newer(l, l)
         /\ Newer(k, l) /\ Newer(l, o) => Newer(k, o)
         /\ l # o => Newer(l, o) \/ Newer(o, l)
<1>1. Messages \subseteq Int
  BY ChatAssumption
<1>2. Start.stamp \in Int /\ Start.id \in Int
  BY DEF Start
<1>3. ASSUME NEW x \in KeyRow
      PROVE  x.stamp \in Int /\ x.id \in Int
  <2>1. x.stamp \in Nat /\ x.id \in Messages
    BY DEF KeyRow
  <2>2. x.id \in Int
    BY <1>1, <2>1
  <2>3. x.stamp \in Int
    BY <2>1
  <2> QED BY <2>2, <2>3
<1>4. k.stamp \in Int /\ k.id \in Int
  BY <1>2, <1>3
<1>5. l # o => l.stamp # o.stamp \/ l.id # o.id
  BY DEF KeyRow
<1> QED BY <1>3, <1>4, <1>5 DEF Newer

LEMMA KeysOrdered ==
  ASSUME NEW rows \in SUBSET KeyRow
  PROVE  IsStrictOrder(rows, Order(rows))
<1> SUFFICES ASSUME NEW k \in rows, NEW l \in rows, NEW o \in rows
             PROVE  /\ ~Newer(l, l)
                    /\ Newer(k, l) /\ Newer(l, o) => Newer(k, o)
                    /\ l # o => Newer(l, o) \/ Newer(o, l)
  BY DEF IsStrictOrder, Order
<1> QED BY KeyOrder

\* The rows of a page are keys of stored messages, and finitely many.
LEMMA RowsAreKeys ==
  ASSUME ChatTyped, StampOK, NEW cursor
  PROVE  /\ Rows(cursor) \subseteq KeyRow /\ IsFiniteSet(Rows(cursor))
         /\ \A row \in Rows(cursor) : Before(row, cursor)
         /\ \A m \in Stored : Key(m) \in KeyRow /\ (Before(Key(m), cursor) => Key(m) \in Rows(cursor))
<1> DEFINE E == {n \in Stored : Before(Key(n), cursor)}
           K == {Key(m) : m \in E}
           f == [m \in E |-> Key(m)]
<1>1. \A m \in Stored : Key(m) \in KeyRow
  <2>1. \A m \in Stored : m \in Messages /\ msg[m].stamp \in Nat
    BY ChatNumbers DEF Stored, StampOK
  <2> QED BY <2>1 DEF Key, KeyRow
<1>2. E \subseteq Messages /\ IsFiniteSet(E)
  BY ChatAssumption, FS_Subset DEF Stored
<1>3. f \in Surjection(E, K)
  BY DEF Surjection
<1>4. IsFiniteSet(K)
  BY <1>2, <1>3, FS_Surjection
<1>5. Rows(cursor) = K
  BY DEF Rows
<1> QED BY <1>1, <1>4, <1>5

LEMMA KeysPage ==
  ASSUME NEW S \in SUBSET KeyRow, IsFiniteSet(S),
         NEW rows, rows = Limit(InOrder(S, Order(S)), Page + 1), NEW page, page = Limit(rows, Page)
  PROVE  IsPage(S, KeysInOrder, Page, rows, page)
<1>1. IsStrictOrder(S, Order(S)) /\ Order(S) \subseteq KeysInOrder
  BY KeysOrdered DEF Order, KeysInOrder
<1>2. Page \in Nat \ {0}
  BY ChatAssumption
<1>3. IsPage(S, Order(S), Page, rows, page)
  BY <1>1, <1>2, PageHolds
<1> QED BY <1>1, <1>3 DEF IsPage, Ascends

LEMMA KeysContinue ==
  ASSUME PagerInv, pager.at = "list", NEW S \in SUBSET KeyRow, \A row \in S : Before(row, pager.cursor),
         NEW page \in Seq(S), Ascends(page, KeysInOrder)
  PROVE  /\ pager.shown \o page \in Seq(KeyRow) /\ Ascends(pager.shown \o page, KeysInOrder)
         /\ Joined(pager.shown, page, pager.shown \o page)
<1> DEFINE shown == pager.shown
<1>1. PagerTyped /\ CursorIsLast /\ OneHistory
  BY DEF PagerInv
<1>2. shown \in Seq(KeyRow) /\ page \in Seq(KeyRow) /\ pager.cursor \in KeyRow \union {Start}
  BY <1>1 DEF PagerTyped
<1>3. Ascends(shown, KeysInOrder)
  <2>1. DOMAIN shown = 1 .. Len(shown) /\ \A i \in 1 .. Len(shown) : shown[i] \in KeyRow
    BY <1>2
  <2> QED BY <1>1, <2>1 DEF Ascends, OneHistory, KeysInOrder
<1>4. Transitive(KeyRow, KeysInOrder)
  BY KeyOrder DEF Transitive, KeysInOrder
<1>5. ASSUME shown # <<>>, NEW i \in 1 .. Len(page)
      PROVE  <<shown[Len(shown)], page[i]>> \in KeysInOrder
  <2>1. pager.cursor # Start /\ pager.cursor = shown[Len(shown)]
    BY <1>1, <1>5 DEF CursorIsLast
  <2>2. pager.cursor \in KeyRow
    BY <1>2, <2>1
  <2>3. page[i] \in S
    BY <1>5
  <2>4. Newer(pager.cursor, page[i])
    BY <2>1, <2>3 DEF Before
  <2> QED BY <2>1, <2>2, <2>3, <2>4 DEF KeysInOrder
<1>6. Follows(shown, page, KeysInOrder)
  BY <1>5 DEF Follows
<1> HIDE DEF shown
<1>7. /\ shown \o page \in Seq(KeyRow) /\ Ascends(shown \o page, KeysInOrder)
      /\ Joined(shown, page, shown \o page)
  BY <1>2, <1>3, <1>4, <1>6, PagesAscend
<1> QED BY <1>7 DEF shown

(***************************************************************************)
(* A page of the history.  A message that was there when the first page was*)
(* read, and is not on the screen, is older than the cursor: it is among   *)
(* the rows, and is shown now or is older than the new cursor.             *)
(***************************************************************************)
LEMMA AnswerStep ==
  ASSUME ChatTyped, StampOK, PagerInv, HistoryAnswers
  PROVE  PagerInv'
<1> DEFINE S    == Rows(pager.cursor)
           rows == Limit(InOrder(S, Order(S)), Page + 1)
           page == Limit(rows, Page)
           more == Len(rows) > Page
           old  == pager.shown
           new  == old \o page
           last == IF more THEN page[Page] ELSE Start
           there == IF pager.cursor = Start THEN Stored ELSE pager.there
<1>1. PagerTyped /\ CursorIsLast /\ OneHistory /\ pager.at = "list"
  BY DEF PagerInv, HistoryAnswers
<1>2. pager' = [at |-> "rest", cursor |-> last, shown |-> new, there |-> there, end |-> ~more]
      /\ UNCHANGED <<msg, clock>>
  BY DEF HistoryAnswers, send
<1>3. /\ S \subseteq KeyRow /\ IsFiniteSet(S) /\ \A row \in S : Before(row, pager.cursor)
      /\ \A m \in Stored : Key(m) \in KeyRow /\ (Before(Key(m), pager.cursor) => Key(m) \in S)
  BY RowsAreKeys
<1> HIDE DEF S
<1>4. IsPage(S, KeysInOrder, Page, rows, page)
  BY <1>3, KeysPage
<1> HIDE DEF rows, page, more
<1>5. /\ rows \in Seq(S) /\ page \in Seq(S) /\ Ascends(page, KeysInOrder)
      /\ Len(rows) \in Nat /\ Len(page) \in Nat /\ Page \in Nat \ {0} /\ more \in BOOLEAN
  BY <1>4, LenProperties, ChatAssumption DEF IsPage, more
<1>6. new \in Seq(KeyRow) /\ Ascends(new, KeysInOrder) /\ Joined(old, page, new)
  BY <1>1, <1>3, <1>5, KeysContinue DEF PagerInv
<1>7. there \subseteq Stored /\ there \subseteq Messages
  BY <1>1 DEF CursorIsLast, Stored
<1>8. ASSUME NEW m \in there
      PROVE  Key(m) \in Range(old) \/ Key(m) \in S
  <2>1. m \in Stored
    BY <1>7
  <2>2. CASE pager.cursor = Start
    BY <1>3, <2>1, <2>2 DEF Before
  <2>3. CASE pager.cursor # Start
    BY <1>1, <1>3, <2>1, <2>3 DEF OneHistory, Before
  <2> QED BY <2>2, <2>3
<1> HIDE DEF new, there, last
<1>9. /\ DOMAIN old = 1 .. Len(old) /\ Len(old) \in Nat
      /\ DOMAIN new = 1 .. Len(new) /\ Len(new) \in Nat
  <2>1. old \in Seq(KeyRow)
    BY <1>1 DEF PagerTyped
  <2> QED BY <1>6, <2>1, LenProperties
<1>10. ASSUME NEW k, k \in Range(old) \/ \E i \in 1 .. Len(page) : page[i] = k
       PROVE  k \in Range(new)
  <2>1. CASE k \in Range(old)
    <3>1. PICK i \in 1 .. Len(old) : old[i] = k
      BY <1>9, <2>1 DEF Range
    <3>2. i \in DOMAIN new /\ new[i] = k
      BY <1>5, <1>6, <1>9, <3>1 DEF Joined
    <3> QED BY <3>2 DEF Range
  <2>2. CASE \E i \in 1 .. Len(page) : page[i] = k
    <3>1. PICK i \in 1 .. Len(page) : page[i] = k
      BY <2>2
    <3>2. Len(old) + i \in DOMAIN new /\ new[Len(old) + i] = k
      BY <1>5, <1>6, <1>9, <3>1 DEF Joined
    <3> QED BY <3>2 DEF Range
  <2> QED BY <1>10, <2>1, <2>2
<1>11. \A m : Key(m)' = Key(m)
  BY <1>2 DEF Key
<1>12. Stored' = Stored
  BY <1>2 DEF Stored
<1>13. /\ pager'.at = "rest" /\ pager'.cursor = last /\ pager'.shown = new
       /\ pager'.there = there /\ pager'.end = ~more
  BY <1>2
<1>14. \A i, j \in DOMAIN new : i < j => Newer(new[i], new[j])
  BY <1>6, <1>9 DEF Ascends, KeysInOrder
<1>15. CASE more
  <2>1. /\ last = page[Page] /\ last \in S /\ Len(page) = Page
        /\ \A x \in S : (\E i \in 1 .. Len(page) : page[i] = x) \/ <<last, x>> \in KeysInOrder
    BY <1>4, <1>15 DEF IsPage, more, last
  <2>2. last \in KeyRow
    BY <1>3, <2>1
  <2>3. Len(new) = Len(old) + Page /\ new[Len(new)] = last /\ new # <<>>
    BY <1>5, <1>6, <1>9, <2>1 DEF Joined
  <2>4. ASSUME NEW m \in there, Key(m) \notin Range(new)
        PROVE  Newer(last, Key(m))
    BY <1>8, <1>10, <2>1, <2>4 DEF KeysInOrder
  <2>5. pager'.end \in BOOLEAN /\ ~pager'.end
    BY <1>13, <1>15
  <2>6. PagerTyped'
    BY <1>2, <1>5, <1>6, <1>7, <2>2 DEF PagerTyped
  <2>7. CursorIsLast'
    BY <1>7, <1>12, <1>13, <2>3, <2>5 DEF CursorIsLast
  <2>8. OneHistory'
    BY <1>11, <1>13, <1>14, <2>4, <2>5 DEF OneHistory
  <2> QED BY <2>6, <2>7, <2>8 DEF PagerInv
<1>16. CASE ~more
  <2>1. last = Start /\ Len(rows) <= Page
    BY <1>5, <1>16 DEF last, more
  <2>2. \A x \in S : \E i \in 1 .. Len(page) : page[i] = x
    BY <1>4, <2>1 DEF IsPage
  <2>3. \A m \in there : Key(m) \in Range(new)
    BY <1>8, <1>10, <2>2
  <2>4. PagerTyped'
    BY <1>2, <1>5, <1>6, <1>7, <2>1 DEF PagerTyped
  <2>5. CursorIsLast'
    BY <1>7, <1>12, <1>13, <2>1 DEF CursorIsLast
  <2>6. OneHistory'
    BY <1>11, <1>13, <1>14, <2>3 DEF OneHistory
  <2> QED BY <2>4, <2>5, <2>6 DEF PagerInv
<1> QED BY <1>15, <1>16

LEMMA PagerStep ==
  ASSUME ChatTyped, StampOK, PagerInv, [ChatNext]_chatVars
  PROVE  PagerInv'
<1>1. PagerTyped /\ CursorIsLast /\ OneHistory
  BY DEF PagerInv
<1>2. \A m \in Stored : m \in Stored' /\ msg'[m] = msg[m]
  BY StoredStays
<1>3. \A m \in pager.there : m \in Stored' /\ Key(m)' = Key(m)
  BY <1>1, <1>2 DEF CursorIsLast, Key
<1>4. ASSUME pager' = [pager EXCEPT !.at = pager'.at], pager'.at \in {"rest", "list"},
             pager'.at = "list" => pager.at = "list" \/ pager.cursor # Start
      PROVE  PagerInv'
  <2>1. /\ pager'.cursor = pager.cursor /\ pager'.shown = pager.shown
        /\ pager'.there = pager.there /\ pager'.end = pager.end
    BY <1>1, <1>4 DEF PagerTyped
  <2>2. PagerTyped'
    BY <1>1, <1>4 DEF PagerTyped
  <2>3. CursorIsLast'
    BY <1>1, <1>3, <1>4, <2>1 DEF CursorIsLast
  <2>4. OneHistory'
    BY <1>1, <1>3, <2>1 DEF OneHistory
  <2> QED BY <2>2, <2>3, <2>4 DEF PagerInv
<1>5. CASE pager' = pager
  <2>1. pager' = [pager EXCEPT !.at = pager'.at]
    BY <1>1, <1>5 DEF PagerTyped
  <2> QED BY <1>1, <1>4, <1>5, <2>1 DEF PagerTyped
<1>6. CASE HistoryAuthorizes
  <2>1. CASE pager' = [NoPager EXCEPT !.at = "list"]
    <3>1. pager' = [at |-> "list", cursor |-> Start, shown |-> <<>>, there |-> {}, end |-> FALSE]
      BY <2>1 DEF NoPager
    <3>2. /\ pager'.at = "list" /\ pager'.cursor = Start /\ pager'.shown = <<>>
          /\ pager'.there = {} /\ ~pager'.end
      BY <3>1
    <3>3. PagerTyped'
      BY <3>1 DEF PagerTyped
    <3> QED BY <3>2, <3>3 DEF PagerInv, CursorIsLast, OneHistory
  <2>2. CASE pager.cursor # Start /\ pager' = [pager EXCEPT !.at = "list"]
    <3>1. pager'.at = "list"
      BY <1>1, <2>2 DEF PagerTyped
    <3> QED BY <1>4, <2>2, <3>1
  <2> QED BY <1>6, <2>1, <2>2 DEF HistoryAuthorizes
<1>7. CASE HistoryFails
  <2>1. pager' = [pager EXCEPT !.at = "rest"]
    BY <1>7 DEF HistoryFails
  <2>2. pager'.at = "rest"
    BY <1>1, <2>1 DEF PagerTyped
  <2> QED BY <1>4, <2>1, <2>2
<1>8. ASSUME NEW m \in Messages, NEW u \in Members, Admit(m, u)
      PROVE  PagerInv'
  BY <1>5, <1>8 DEF Admit
<1>9. ASSUME NEW m \in Messages, Allow(m) \/ InsertStarts(m) \/ InsertCommits(m) \/ SendFails(m)
      PROVE  PagerInv'
  BY <1>5, <1>9 DEF Allow, InsertStarts, InsertCommits, SendFails
<1>10. CASE MarkAuthorizes \/ MarkMessagesRead \/ MarkFails \/ MatchEnds \/ Tick \/ UNCHANGED chatVars
  BY <1>5, <1>10 DEF MarkAuthorizes, MarkMessagesRead, MarkFails, MatchEnds, Tick, chatVars
<1> QED BY <1>6, <1>7, <1>8, <1>9, <1>10, AnswerStep DEF ChatNext

HistoryInv == ChatInv /\ StampOK /\ WindowOK /\ PagerInv

LEMMA HistoryStart == ChatInit => HistoryInv
<1> SUFFICES ASSUME ChatInit PROVE HistoryInv
  OBVIOUS
<1>1. NoMsg.stamp = 0 /\ 0 \in 0 .. MaxClock
  BY ChatNumbers DEF NoMsg
<1>2. StampOK
  BY <1>1 DEF ChatInit, StampOK
<1>3. WindowOK
  <2>1. PICK w \in {NoWindow, [count |-> 1, expires |-> 2]} : rate = [u \in Members |-> w]
    BY DEF ChatInit
  <2>2. w.count > 0 => w.expires = 2
    BY <2>1 DEF NoWindow
  <2>3. clock = 0
    BY DEF ChatInit
  <2> QED BY <2>1, <2>2, <2>3, ChatNumbers DEF WindowOK
<1>4. PagerInv
  <2>1. pager = [at |-> "rest", cursor |-> Start, shown |-> <<>>, there |-> {}, end |-> FALSE]
    BY DEF ChatInit, NoPager
  <2>2. pager.at = "rest" /\ pager.cursor = Start /\ pager.shown = <<>> /\ pager.there = {}
    BY <2>1
  <2>3. PagerTyped
    BY <2>1 DEF PagerTyped
  <2> QED BY <2>2, <2>3 DEF PagerInv, CursorIsLast, OneHistory
<1> QED BY <1>2, <1>3, <1>4, ChatStart DEF HistoryInv

LEMMA HistoryStep ==
  ASSUME HistoryInv, [ChatNext]_chatVars
  PROVE  HistoryInv'
BY ChatStep, StampStep, WindowStep, PagerStep DEF HistoryInv, ChatInv

LEMMA HistoryAlways == ChatSpec => []HistoryInv
BY HistoryStart, HistoryStep, PTL DEF ChatSpec

(***************************************************************************)
(* The pages of the history are one strictly descending list without gaps: *)
(* what was stored when the first page was read is on the list as soon as  *)
(* the pages have passed its place (messages.sql.go:228-241), whatever is  *)
(* inserted, lost or marked in between.                                    *)
(***************************************************************************)
THEOREM HistoryIsOneList == ChatSpec => []OneHistory
<1>1. HistoryInv => OneHistory
  BY DEF HistoryInv, PagerInv
<1> QED BY <1>1, HistoryAlways, PTL

\* The type of a chat: counters are of their window, receipts of stored messages.
LEMMA ChatIsTyped == HistoryInv => ChatTypeOK
<1> SUFFICES ASSUME HistoryInv PROVE ChatTypeOK
  OBVIOUS
<1>1. ChatTyped /\ ScreenOK /\ RateOK /\ StampOK /\ WindowOK /\ PagerTyped /\ CursorIsLast
  BY DEF HistoryInv, ChatInv, PagerInv
<1>2. msg \in [Messages -> [at : {"new", "member", "allowed", "stamped", "stored", "refused"},
                            sender : Members, stamp : 0 .. MaxClock]]
  <2>1. ASSUME NEW m \in Messages
        PROVE  msg[m] \in [at : Places, sender : Members, stamp : 0 .. MaxClock]
    BY <1>1 DEF ChatTyped, MsgRow, StampOK
  <2>2. msg = [m \in Messages |-> msg[m]]
    BY <1>1 DEF ChatTyped
  <2> QED BY <2>1, <2>2 DEF Places
<1>3. read \union marker.screen \subseteq Stored
  BY <1>1 DEF StampOK, ScreenOK, Stored, ChatTyped
<1>4. pager.at \in {"rest", "list"} /\ marker.at \in {"rest", "update", "done"}
  BY <1>1 DEF PagerTyped, ChatTyped
<1>5. \A u \in Members : /\ early[u] <= rate[u].count
                         /\ rate[u].count > 0 => rate[u].expires \in clock + 1 .. clock + 3 * RateWindow
  BY <1>1 DEF RateOK, WindowOK
<1> QED BY <1>1, <1>2, <1>3, <1>4, <1>5 DEF ChatTypeOK, StampOK, CursorIsLast
-----------------------------------------------------------------------------
Steps == {"idle", "check", "verify", "validate", "create", "record", "reset"}
Mins  == {0} \union {Minutes(n) : n \in Nat}

\* The scopes of a request, one or two, and those it has still to do.
Lists == {<<a>> : a \in Scopes} \union {<<a, b>> : a, b \in Scopes}
All(c)  == {c.scopes[i] : i \in 1 .. Len(c.scopes)}
Left(c) == {c.todo[i] : i \in 1 .. Len(c.todo)}

TodoOK(c) ==
  \/ \E a \in Scopes : c.scopes = <<a>> /\ c.todo = <<a>>
  \/ \E a, b \in Scopes : a # b /\ c.scopes = <<a, b>> /\ c.todo \in {<<a, b>>, <<b>>}

CallRow == [at : Steps, scopes : Lists \union {<<>>}, todo : Lists \union {<<>>},
            email : Emails \union {""}, pw : Passwords \union {""},
            then : {"", "verify", "validate", "created"}]

\* A request under way has its inputs, and the check leads on to one of two steps.
RowOK(c) ==
  /\ c.at # "idle" => TodoOK(c) /\ c.email \in Emails /\ c.pw \in Passwords
  /\ c.at = "check" => c.then \in {"verify", "validate"}

GatesTyped ==
  /\ attempts \in [Scopes -> 0 .. MaxAttempts - 1]
  /\ recorded \in [Scopes -> Nat] /\ violations \in [Scopes -> Nat]
  /\ lockout \in [Scopes -> [on : {"no", "yes", "ending"}, minutes : Mins]]
  /\ password \in [Emails -> Passwords \union {NoAccount}]
  /\ call \in [Requests -> CallRow]
  /\ \A r \in Requests : RowOK(call[r])

\* Requests that were past the check of a scope and may still record a failure.
Risk(c, s) ==
  /\ s \in All(c)
  /\ \/ c.at = "check" /\ s \notin Left(c)
     \/ c.at \in {"verify", "validate", "create"}
     \/ c.at = "record" /\ s \in Left(c)

Past(s) == {r \in Requests : Risk(call[r], s)}

(***************************************************************************)
(* A scope that is not locked has no more failures than Redis counts.  One *)
(* that is locked has room for each request that is past the check.        *)
(***************************************************************************)
LockOK(s) ==
  /\ Allowed(s) => recorded[s] <= attempts[s]
  /\ ~Allowed(s) => recorded[s] + Cardinality(Past(s)) <= MaxAttempts + Cardinality(Requests) - 1

\* What a client was told, or is about to be, is stored.
KeptOK ==
  /\ \A r \in Requests : call[r].then = "created" =>
       call[r].pw \in Passwords /\ call[r].email \in Emails /\ password[call[r].email] = call[r].pw
  /\ \A account \in created :
       account[1] \in Emails /\ account[2] \in Passwords /\ password[account[1]] = account[2]

GatesInv == GatesTyped /\ KeptOK /\ \A s \in Scopes : LockOK(s)

LEMMA AttemptsFacts ==
  /\ MaxAttempts \in Nat /\ 0 \in 0 .. MaxAttempts - 1
  /\ \A n \in 0 .. MaxAttempts - 1 : n \in Nat
<1>1. MaxAttempts \in Nat \ {0}
  BY GatesAssumption
<1> QED BY <1>1

\* What is first in the list of scopes, and what is left behind it.
LEMMA ListFacts ==
  ASSUME NEW c \in CallRow, TodoOK(c)
  PROVE  /\ Left(c) \subseteq All(c) /\ All(c) \subseteq Scopes
         /\ Head(c.todo) \in Left(c)
         /\ Len(c.todo) > 1 =>
              \A d \in CallRow : d.scopes = c.scopes /\ d.todo = Tail(c.todo)
                => TodoOK(d) /\ All(d) = All(c) /\ Left(d) = Left(c) \ {Head(c.todo)}
         /\ ~(Len(c.todo) > 1) => Left(c) = {Head(c.todo)}
         /\ Tail(c.todo) \in Lists \union {<<>>}
         /\ \A d \in CallRow : d.scopes = c.scopes /\ d.todo = c.scopes
              => TodoOK(d) /\ All(d) = All(c) /\ Left(d) = All(c)
<1>1. ASSUME NEW a \in Scopes, c.scopes = <<a>>, c.todo = <<a>>
      PROVE  /\ All(c) = {a} /\ Left(c) = {a} /\ Head(c.todo) = a /\ ~(Len(c.todo) > 1)
             /\ Tail(c.todo) = <<>>
  BY <1>1 DEF All, Left
<1>2. ASSUME NEW a \in Scopes, NEW b \in Scopes, a # b, c.scopes = <<a, b>>, c.todo = <<a, b>>
      PROVE  /\ All(c) = {a, b} /\ Left(c) = {a, b} /\ Head(c.todo) = a /\ Len(c.todo) > 1
             /\ Tail(c.todo) = <<b>>
  BY <1>2 DEF All, Left
<1>3. ASSUME NEW a \in Scopes, NEW b \in Scopes, a # b, c.scopes = <<a, b>>, c.todo = <<b>>
      PROVE  /\ All(c) = {a, b} /\ Left(c) = {b} /\ Head(c.todo) = b /\ ~(Len(c.todo) > 1)
             /\ Tail(c.todo) = <<>>
  BY <1>3 DEF All, Left
<1>4. ASSUME NEW a \in Scopes, NEW d \in CallRow, d.todo = <<a>>
      PROVE  Left(d) = {a}
  BY <1>4 DEF Left
<1>5. ASSUME NEW d \in CallRow, d.scopes = c.scopes
      PROVE  All(d) = All(c)
  BY <1>5 DEF All
<1>6. ASSUME NEW d \in CallRow, d.scopes = c.scopes, d.todo = c.scopes
      PROVE  TodoOK(d) /\ Left(d) = All(c)
  BY <1>6 DEF TodoOK, Left, All
<1>7. \A a, b \in Scopes : <<a>> \in Lists /\ <<a, b>> \in Lists
  BY DEF Lists
<1>8. CASE \E a \in Scopes : c.scopes = <<a>> /\ c.todo = <<a>>
  BY <1>1, <1>5, <1>6, <1>8
<1>9. ASSUME NEW a \in Scopes, NEW b \in Scopes, a # b, c.scopes = <<a, b>>, c.todo = <<a, b>>
      PROVE  \A d \in CallRow : d.scopes = c.scopes /\ d.todo = Tail(c.todo)
               => TodoOK(d) /\ Left(d) = Left(c) \ {Head(c.todo)}
  BY <1>2, <1>4, <1>9 DEF TodoOK
<1>10. CASE \E a, b \in Scopes : a # b /\ c.scopes = <<a, b>> /\ c.todo = <<a, b>>
  <2>1. PICK a \in Scopes, b \in Scopes : a # b /\ c.scopes = <<a, b>> /\ c.todo = <<a, b>>
    BY <1>10
  <2>2. /\ All(c) = {a, b} /\ Left(c) = {a, b} /\ Head(c.todo) = a
        /\ Tail(c.todo) = <<b>> /\ <<b>> \in Lists /\ Len(c.todo) > 1
    BY <2>1, <1>2, <1>7
  <2>3. \A d \in CallRow : d.scopes = c.scopes /\ d.todo = Tail(c.todo)
          => TodoOK(d) /\ Left(d) = Left(c) \ {Head(c.todo)}
    BY <2>1, <1>9
  <2> QED BY <2>2, <2>3, <1>5, <1>6
<1>11. CASE \E a, b \in Scopes : a # b /\ c.scopes = <<a, b>> /\ c.todo = <<b>>
  BY <1>3, <1>5, <1>6, <1>11
<1> QED BY <1>8, <1>10, <1>11 DEF TodoOK

\* A step of one request: the others keep what they have.
LEMMA PastChanges ==
  ASSUME NEW r \in Requests, \A q \in Requests \ {r} : call'[q] = call[q], NEW s,
         Risk(call'[r], s) => Risk(call[r], s)
  PROVE  /\ Cardinality(Past(s)) \in Nat /\ Cardinality(Past(s)') \in Nat
         /\ Cardinality(Past(s)') <= Cardinality(Past(s))
         /\ ~Risk(call'[r], s) => Cardinality(Past(s)') <= Cardinality(Requests) - 1
         /\ ~Risk(call'[r], s) /\ Risk(call[r], s)
              => Cardinality(Past(s)') <= Cardinality(Past(s)) - 1
<1>1. Past(s)' = {q \in Requests : Risk(call'[q], s)}
  BY DEF Past, Risk, All, Left
<1>2. Past(s)' \subseteq Past(s) /\ Past(s) \subseteq Requests
  BY <1>1 DEF Past
<1>3. IsFiniteSet(Requests) /\ IsFiniteSet(Past(s)) /\ IsFiniteSet(Past(s)')
  BY <1>2, FS_Subset, GatesAssumption
<1>4. Cardinality(Past(s)') <= Cardinality(Past(s))
  BY <1>2, <1>3, FS_Subset
<1>5. ASSUME NEW S \in {Requests, Past(s)}, r \in S, ~Risk(call'[r], s)
      PROVE  Cardinality(Past(s)') <= Cardinality(S) - 1
  <2>1. IsFiniteSet(S) /\ IsFiniteSet(S \ {r}) /\ Past(s)' \subseteq S \ {r}
    BY <1>1, <1>2, <1>3, <1>5, FS_RemoveElement
  <2>2. Cardinality(S \ {r}) = Cardinality(S) - 1
    BY <1>5, <2>1, FS_RemoveElement
  <2>3. Cardinality(Past(s)') <= Cardinality(S \ {r})
    BY <2>1, FS_Subset
  <2> QED BY <2>2, <2>3
<1>6. Cardinality(Past(s)) \in Nat /\ Cardinality(Past(s)') \in Nat
  BY <1>3, FS_CardinalityType
<1> QED BY <1>4, <1>5, <1>6 DEF Past

\* A request moves on, and the others do not.
LEMMA Moved ==
  ASSUME GatesTyped, NEW r \in Requests, NEW row \in CallRow, RowOK(row), call' = [call EXCEPT ![r] = row]
  PROVE  /\ call' \in [Requests -> CallRow] /\ \A q \in Requests : RowOK(call'[q])
         /\ call'[r] = row /\ \A q \in Requests \ {r} : call'[q] = call[q]
<1>1. call' \in [Requests -> CallRow] /\ call'[r] = row /\ \A q \in Requests \ {r} : call'[q] = call[q]
  BY DEF GatesTyped
<1>2. ASSUME NEW q \in Requests
      PROVE  RowOK(call'[q])
  <2>1. CASE q = r
    BY <1>1, <2>1
  <2>2. CASE q # r
    BY <1>1, <2>2 DEF GatesTyped
  <2> QED BY <2>1, <2>2
<1> QED BY <1>1, <1>2

LEMMA IdleRow == Idle \in CallRow /\ RowOK(Idle) /\ Idle.then = "" /\ \A s : ~Risk(Idle, s)
BY DEF Idle, CallRow, RowOK, Risk, Steps

\* A request with all its scopes to do, and with one less.
Anew(c, at, then) == [c EXCEPT !.at = at, !.todo = c.scopes, !.then = then]

LEMMA ContinuedRow ==
  ASSUME NEW c \in CallRow, RowOK(c), c.at # "idle",
         NEW at \in {"verify", "validate", "create", "record", "reset"}, NEW then \in {c.then, "created"},
         NEW row, row = Anew(c, at, then)
  PROVE  /\ row \in CallRow /\ RowOK(row) /\ row.then = then /\ row.email = c.email /\ row.pw = c.pw
         /\ \A s : Risk(row, s) <=> s \in All(c) /\ at # "reset"
<1>1. /\ row \in CallRow /\ row.then = then /\ row.email = c.email /\ row.pw = c.pw
      /\ row.scopes = c.scopes /\ row.todo = c.scopes /\ row.at = at
  BY DEF Anew, CallRow, Steps
<1>2. TodoOK(row) /\ All(row) = All(c) /\ Left(row) = All(c)
  BY <1>1, ListFacts DEF RowOK
<1>3. RowOK(row) /\ \A s : Risk(row, s) <=> s \in All(c) /\ at # "reset"
  BY <1>1, <1>2 DEF RowOK, Risk
<1> QED BY <1>1, <1>3

LEMMA NextRow ==
  ASSUME NEW c \in CallRow, RowOK(c), c.at # "idle", Len(c.todo) > 1,
         NEW row, row = [c EXCEPT !.todo = Tail(c.todo)]
  PROVE  /\ row \in CallRow /\ RowOK(row) /\ row.then = c.then /\ row.email = c.email /\ row.pw = c.pw
         /\ row.at = c.at /\ All(row) = All(c) /\ Left(row) = Left(c) \ {Head(c.todo)}
<1>1. Tail(c.todo) \in Lists \union {<<>>}
  BY ListFacts DEF RowOK
<1>2. /\ row \in CallRow /\ row.then = c.then /\ row.email = c.email /\ row.pw = c.pw
      /\ row.scopes = c.scopes /\ row.todo = Tail(c.todo) /\ row.at = c.at
  BY <1>1 DEF CallRow
<1>3. TodoOK(row) /\ All(row) = All(c) /\ Left(row) = Left(c) \ {Head(c.todo)}
  BY <1>2, ListFacts DEF RowOK
<1> QED BY <1>2, <1>3 DEF RowOK

\* A step of one request that leaves the limiter alone.
LEMMA LockQuiet ==
  ASSUME NEW r \in Requests, \A q \in Requests \ {r} : call'[q] = call[q], NEW s \in Scopes, GatesTyped,
         LockOK(s), Risk(call'[r], s) => Risk(call[r], s) \/ Allowed(s),
         attempts'[s] = attempts[s], recorded'[s] = recorded[s], lockout'[s] = lockout[s]
  PROVE  LockOK(s)'
<1>1. CASE Allowed(s)
  BY <1>1 DEF LockOK, Allowed
<1>2. CASE ~Allowed(s)
  <2>1. /\ Cardinality(Past(s)) \in Nat /\ Cardinality(Past(s)') \in Nat
        /\ Cardinality(Past(s)') <= Cardinality(Past(s))
    BY <1>2, PastChanges
  <2>2. recorded[s] \in Nat /\ MaxAttempts \in Nat /\ Cardinality(Requests) \in Nat
    BY GatesAssumption, FS_CardinalityType DEF GatesTyped
  <2> HIDE DEF Past
  <2> QED BY <1>2, <2>1, <2>2 DEF LockOK, Allowed
<1> QED BY <1>1, <1>2

\* The accounts stay what they are, and a request claims none that it did not.
LEMMA KeptQuiet ==
  ASSUME GatesTyped, KeptOK, NEW r \in Requests, NEW row, \A q \in Requests \ {r} : call'[q] = call[q],
         call'[r] = row, UNCHANGED <<password, created>>,
         row.then = "created" =>
           call[r].then = "created" /\ row.email = call[r].email /\ row.pw = call[r].pw
  PROVE  KeptOK'
<1>1. ASSUME NEW q \in Requests, call'[q].then = "created"
      PROVE  /\ call'[q].pw \in Passwords /\ call'[q].email \in Emails
             /\ password[call'[q].email] = call'[q].pw
  <2>1. CASE q = r
    BY <1>1, <2>1 DEF KeptOK
  <2>2. CASE q # r
    BY <1>1, <2>2 DEF KeptOK
  <2> QED BY <2>1, <2>2
<1> QED BY <1>1 DEF KeptOK

\* A step of one request that changes nothing else.
LEMMA Quiet ==
  ASSUME GatesInv, NEW r \in Requests, NEW row \in CallRow, RowOK(row),
         call' = [call EXCEPT ![r] = row], UNCHANGED <<password, limits, recorded, created>>,
         \A s : Risk(row, s) => Risk(call[r], s) \/ (s \in Scopes => Allowed(s)),
         row.then = "created" =>
           call[r].then = "created" /\ row.email = call[r].email /\ row.pw = call[r].pw
  PROVE  GatesInv'
<1>1. GatesTyped /\ KeptOK /\ \A s \in Scopes : LockOK(s)
  BY DEF GatesInv
<1>2. /\ call' \in [Requests -> CallRow] /\ \A q \in Requests : RowOK(call'[q])
      /\ call'[r] = row /\ \A q \in Requests \ {r} : call'[q] = call[q]
  BY <1>1, Moved
<1>3. GatesTyped'
  BY <1>1, <1>2 DEF GatesTyped, limits, RowOK, TodoOK
<1>4. KeptOK'
  BY <1>1, <1>2, KeptQuiet
<1>5. ASSUME NEW s \in Scopes
      PROVE  LockOK(s)'
  BY <1>1, <1>2, <1>5, LockQuiet DEF limits
<1> QED BY <1>3, <1>4, <1>5 DEF GatesInv

(***************************************************************************)
(* The steps before the limiter is told.                                   *)
(***************************************************************************)
LEMMA ArrivesOK ==
  ASSUME GatesInv, NEW r \in Requests, NEW email \in Emails, NEW pw \in Passwords,
         NEW then \in {"verify", "validate"}, NEW scopes \in Lists,
         (\E a \in Scopes : scopes = <<a>>) \/ (\E a, b \in Scopes : a # b /\ scopes = <<a, b>>),
         Arrives(r, scopes, email, pw, then)
  PROVE  GatesInv'
<1> DEFINE row == [at |-> "check", scopes |-> scopes, todo |-> scopes,
                   email |-> email, pw |-> pw, then |-> then]
<1>1. /\ row \in CallRow /\ row.then = then /\ row.at = "check" /\ row.email = email /\ row.pw = pw
      /\ row.scopes = scopes /\ row.todo = scopes
  BY DEF CallRow, Steps
<1> HIDE DEF row
<1>2. TodoOK(row)
  BY <1>1 DEF TodoOK
<1>3. RowOK(row) /\ All(row) = Left(row)
  BY <1>1, <1>2 DEF RowOK, All, Left
<1>4. \A s : ~Risk(row, s)
  BY <1>1, <1>3 DEF Risk
<1>5. call' = [call EXCEPT ![r] = row] /\ UNCHANGED <<password, limits, recorded, created>>
  BY DEF Arrives, row
<1> QED BY <1>1, <1>3, <1>4, <1>5, Quiet

LEMMA AnswersOK ==
  ASSUME GatesInv, NEW r \in Requests, call' = Answer(r),
         UNCHANGED <<password, limits, recorded, created>>
  PROVE  GatesInv'
BY IdleRow, Quiet DEF Answer

LEMMA ContinuesOK ==
  ASSUME GatesInv, NEW r \in Requests, call[r].at # "idle",
         NEW at \in {"verify", "validate", "create", "record", "reset"}, call' = Continue(r, at),
         \A s \in All(call[r]) : at # "reset" => Risk(call[r], s) \/ Allowed(s),
         UNCHANGED <<password, limits, recorded, created>>
  PROVE  GatesInv'
<1> DEFINE row == Anew(call[r], at, call[r].then)
<1>1. call[r] \in CallRow /\ RowOK(call[r]) /\ call \in [Requests -> CallRow]
  BY DEF GatesInv, GatesTyped
<1>2. /\ row \in CallRow /\ RowOK(row) /\ row.then = call[r].then /\ row.email = call[r].email
      /\ row.pw = call[r].pw /\ \A s : Risk(row, s) <=> s \in All(call[r]) /\ at # "reset"
  <2> DEFINE c    == call[r]
             then == c.then
  <2>1. c \in CallRow /\ RowOK(c) /\ c.at # "idle" /\ row = Anew(c, at, then) /\ then \in {c.then, "created"}
    BY <1>1
  <2> HIDE DEF row, c, then
  <2>2. /\ row \in CallRow /\ RowOK(row) /\ row.then = then /\ row.email = c.email /\ row.pw = c.pw
        /\ \A s : Risk(row, s) <=> s \in All(c) /\ at # "reset"
    BY <2>1, ContinuedRow
  <2> QED BY <2>2 DEF c, then
<1>3. row = [call[r] EXCEPT !.at = at, !.todo = call[r].scopes]
  BY <1>1 DEF CallRow, Anew
<1>4. call' = [call EXCEPT ![r] = row]
  BY <1>1, <1>3 DEF Continue
<1> HIDE DEF row
<1> QED BY <1>2, <1>4, Quiet

LEMMA ChecksOK ==
  ASSUME GatesInv, NEW r \in Requests, CheckRateLimit(r)
  PROVE  GatesInv'
<1> DEFINE c == call[r]
<1>1. c \in CallRow /\ RowOK(c) /\ call \in [Requests -> CallRow] /\ c.at = "check" /\ TodoOK(c)
  BY DEF GatesInv, GatesTyped, CheckRateLimit, RowOK
<1>2. UNCHANGED <<password, limits, recorded, created>>
  BY DEF CheckRateLimit
<1>3. CASE ~Allowed(Head(c.todo))
  BY <1>2, <1>3, AnswersOK DEF CheckRateLimit
<1>4. CASE Allowed(Head(c.todo)) /\ Len(c.todo) > 1
  <2> DEFINE row == [c EXCEPT !.todo = Tail(c.todo)]
  <2>1. /\ row \in CallRow /\ RowOK(row) /\ row.then = c.then /\ row.email = c.email /\ row.pw = c.pw
        /\ row.at = c.at /\ All(row) = All(c) /\ Left(row) = Left(c) \ {Head(c.todo)}
    BY <1>1, <1>4, NextRow
  <2>2. call' = [call EXCEPT ![r] = row]
    BY <1>1, <1>4 DEF CheckRateLimit, NextScope
  <2> HIDE DEF row
  <2>3. \A s : Risk(row, s) => Risk(c, s) \/ Allowed(s)
    BY <1>1, <1>4, <2>1 DEF Risk
  <2> QED BY <1>2, <2>1, <2>2, <2>3, Quiet
<1>5. CASE Allowed(Head(c.todo)) /\ ~(Len(c.todo) > 1)
  <2>1. Left(c) = {Head(c.todo)}
    BY <1>1, <1>5, ListFacts
  <2>2. \A s \in All(c) : Risk(c, s) \/ Allowed(s)
    BY <1>1, <1>5, <2>1 DEF Risk
  <2>3. call' = Continue(r, c.then) /\ c.then \in {"verify", "validate"}
    BY <1>1, <1>5 DEF CheckRateLimit, NextScope, RowOK
  <2> QED BY <1>1, <1>2, <2>2, <2>3, ContinuesOK
<1> QED BY <1>3, <1>4, <1>5

LEMMA DecidesOK ==
  ASSUME GatesInv, NEW r \in Requests, Verify(r) \/ Validate(r)
  PROVE  GatesInv'
<1>1. call[r].at \in {"verify", "validate"} /\ UNCHANGED <<password, limits, recorded, created>>
  BY DEF Verify, Validate
<1>2. \A s \in All(call[r]) : Risk(call[r], s)
  BY <1>1 DEF Risk
<1>3. PICK at \in {"reset", "record", "create"} : call' = Continue(r, at)
  BY DEF Verify, Validate
<1> QED BY <1>1, <1>2, <1>3, ContinuesOK

LEMMA CreatesOK ==
  ASSUME GatesInv, NEW r \in Requests, Create(r)
  PROVE  GatesInv'
<1> DEFINE c == call[r]
           row == Anew(c, "reset", "created")
<1>1. /\ c \in CallRow /\ RowOK(c) /\ call \in [Requests -> CallRow] /\ c.at = "create"
      /\ c.email \in Emails /\ c.pw \in Passwords /\ GatesTyped /\ KeptOK /\ \A s \in Scopes : LockOK(s)
  BY DEF GatesInv, GatesTyped, Create, RowOK
<1>2. CASE EmailTaken(c.email)
  <2>1. \A s \in All(c) : Risk(c, s)
    BY <1>1 DEF Risk
  <2>2. call' = Continue(r, "record") /\ UNCHANGED <<password, limits, recorded, created>>
    BY <1>2 DEF Create
  <2> QED BY <1>1, <2>1, <2>2, ContinuesOK
<1>3. CASE ~EmailTaken(c.email)
  <2>1. /\ password' = [password EXCEPT ![c.email] = c.pw] /\ password[c.email] = NoAccount
        /\ UNCHANGED <<limits, recorded, created>>
    BY <1>3 DEF Create, EmailTaken
  <2>2. call' \in {[call EXCEPT ![r].at = "reset", ![r].todo = c.scopes, ![r].then = "created"], Answer(r)}
    BY <1>3 DEF Create
  <2>3. [call EXCEPT ![r].at = "reset", ![r].todo = c.scopes, ![r].then = "created"]
          = [call EXCEPT ![r] = row]
    BY <1>1 DEF Anew
  <2>4. /\ row \in CallRow /\ RowOK(row) /\ row.then = "created" /\ row.email = c.email
        /\ row.pw = c.pw /\ \A s : ~Risk(row, s)
    BY <1>1, ContinuedRow
  <2>5. PICK new \in {row, Idle} : call' = [call EXCEPT ![r] = new]
    BY <2>2, <2>3 DEF Answer
  <2> HIDE DEF row, c
  <2>6. /\ new \in CallRow /\ RowOK(new) /\ \A s : ~Risk(new, s)
        /\ new.then = "created" => new.email = c.email /\ new.pw = c.pw
    BY <2>4, <2>5, IdleRow
  <2>7. /\ call' \in [Requests -> CallRow] /\ \A q \in Requests : RowOK(call'[q])
        /\ call'[r] = new /\ \A q \in Requests \ {r} : call'[q] = call[q]
    BY <1>1, <2>5, <2>6, Moved
  <2>8. GatesTyped'
    BY <1>1, <2>1, <2>7 DEF GatesTyped, limits, RowOK, TodoOK
  <2>9. ASSUME NEW e \in Emails, NEW w \in Passwords, password[e] = w
        PROVE  password'[e] = w
    BY <1>1, <2>1, <2>9, GatesAssumption DEF GatesTyped, NoAccount
  <2>10. ASSUME NEW q \in Requests, call'[q].then = "created"
         PROVE  /\ call'[q].pw \in Passwords /\ call'[q].email \in Emails
                /\ password'[call'[q].email] = call'[q].pw
    <3>1. CASE q = r
      BY <1>1, <2>1, <2>6, <2>7, <2>10, <3>1 DEF GatesTyped
    <3>2. CASE q # r
      BY <1>1, <2>7, <2>9, <2>10, <3>2 DEF KeptOK
    <3> QED BY <3>1, <3>2
  <2>11. KeptOK'
    BY <1>1, <2>1, <2>9, <2>10 DEF KeptOK
  <2>12. ASSUME NEW s \in Scopes
         PROVE  LockOK(s)'
    BY <1>1, <2>1, <2>6, <2>7, LockQuiet DEF limits
  <2> QED BY <2>8, <2>11, <2>12 DEF GatesInv
<1> QED BY <1>2, <1>3

(***************************************************************************)
(* The limiter is told of a failure, or of a success, for one scope.       *)
(***************************************************************************)
LEMMA ShiftedRow ==
  ASSUME GatesTyped, NEW r \in Requests, call[r].at # "idle", call' = NextScope(r, Answer(r))
  PROVE  \E row \in CallRow :
           /\ RowOK(row) /\ call' = [call EXCEPT ![r] = row]
           /\ row.then = "created" =>
                call[r].then = "created" /\ row.email = call[r].email /\ row.pw = call[r].pw
           /\ row.at # "idle" => row.at = call[r].at
           /\ call[r].at \in {"reset", "record"} =>
                \A s : Risk(row, s) => Risk(call[r], s) /\ s # Head(call[r].todo)
<1> DEFINE c == call[r]
<1>1. c \in CallRow /\ RowOK(c) /\ call \in [Requests -> CallRow]
  BY DEF GatesTyped
<1>2. CASE Len(c.todo) > 1
  <2> DEFINE row == [c EXCEPT !.todo = Tail(c.todo)]
  <2>1. /\ row \in CallRow /\ RowOK(row) /\ row.then = c.then /\ row.email = c.email /\ row.pw = c.pw
        /\ row.at = c.at /\ All(row) = All(c) /\ Left(row) = Left(c) \ {Head(c.todo)}
    BY <1>1, <1>2, NextRow
  <2>2. call' = [call EXCEPT ![r] = row]
    BY <1>1, <1>2 DEF NextScope
  <2> HIDE DEF row
  <2>3. c.at \in {"reset", "record"} => \A s : Risk(row, s) => Risk(c, s) /\ s # Head(c.todo)
    BY <2>1 DEF Risk
  <2> QED BY <2>1, <2>2, <2>3
<1>3. CASE ~(Len(c.todo) > 1)
  <2>1. call' = [call EXCEPT ![r] = Idle] /\ Idle.at = "idle"
    BY <1>3 DEF NextScope, Answer, Idle
  <2> QED BY <2>1, IdleRow
<1> QED BY <1>2, <1>3

LEMMA FirstScope ==
  ASSUME GatesTyped, NEW r \in Requests, call[r].at # "idle"
  PROVE  /\ Head(call[r].todo) \in Scopes
         /\ call[r].at = "record" => Risk(call[r], Head(call[r].todo))
<1>1. call[r] \in CallRow /\ TodoOK(call[r])
  BY DEF GatesTyped, RowOK
<1> QED BY <1>1, ListFacts DEF Risk

LEMMA RecordsOK ==
  ASSUME GatesInv, NEW r \in Requests, RecordFailure(r)
  PROVE  GatesInv'
<1>1. GatesTyped /\ KeptOK /\ (\A s \in Scopes : LockOK(s)) /\ call[r].at = "record"
  BY DEF GatesInv, RecordFailure
<1>2. PICK h \in Scopes : h = Head(call[r].todo) /\ Risk(call[r], h)
  BY <1>1, FirstScope
<1>3. call' = NextScope(r, Answer(r)) /\ UNCHANGED <<password, created>>
      /\ recorded' = [recorded EXCEPT ![h] = @ + 1]
  BY <1>2 DEF RecordFailure
<1>4. PICK row \in CallRow :
        /\ RowOK(row) /\ call' = [call EXCEPT ![r] = row]
        /\ row.then = "created" =>
             call[r].then = "created" /\ row.email = call[r].email /\ row.pw = call[r].pw
        /\ \A s : Risk(row, s) => Risk(call[r], s) /\ s # h
  BY <1>1, <1>2, <1>3, ShiftedRow
<1>5. /\ call' \in [Requests -> CallRow] /\ \A q \in Requests : RowOK(call'[q])
      /\ call'[r] = row /\ \A q \in Requests \ {r} : call'[q] = call[q]
  BY <1>1, <1>4, Moved
<1>6. \/ /\ attempts[h] + 1 >= MaxAttempts /\ attempts' = [attempts EXCEPT ![h] = 0]
         /\ violations' = [violations EXCEPT ![h] = @ + 1]
         /\ lockout' = [lockout EXCEPT ![h] = [on |-> "yes", minutes |-> Minutes(violations[h] + 1)]]
      \/ /\ ~(attempts[h] + 1 >= MaxAttempts) /\ attempts' = [attempts EXCEPT ![h] = @ + 1]
         /\ UNCHANGED <<violations, lockout>>
  BY <1>2 DEF RecordFailure, Locks
<1>7. /\ attempts[h] \in 0 .. MaxAttempts - 1 /\ recorded[h] \in Nat /\ MaxAttempts \in Nat \ {0}
      /\ violations[h] + 1 \in Nat /\ Minutes(violations[h] + 1) \in Mins
  <2>1. attempts[h] \in 0 .. MaxAttempts - 1 /\ recorded[h] \in Nat /\ violations[h] \in Nat
    BY <1>1, <1>2 DEF GatesTyped
  <2>2. Minutes(violations[h] + 1) \in Mins
    BY <2>1 DEF Mins
  <2>3. MaxAttempts \in Nat \ {0}
    BY GatesAssumption
  <2>4. violations[h] + 1 \in Nat
    BY <2>1
  <2> QED BY <2>1, <2>2, <2>3, <2>4
<1>8. GatesTyped'
  <2>1. attempts' \in [Scopes -> 0 .. MaxAttempts - 1]
    BY <1>1, <1>2, <1>6, <1>7 DEF GatesTyped
  <2>2. recorded' \in [Scopes -> Nat] /\ violations' \in [Scopes -> Nat]
    BY <1>1, <1>2, <1>3, <1>6, <1>7 DEF GatesTyped
  <2>3. lockout' \in [Scopes -> [on : {"no", "yes", "ending"}, minutes : Mins]]
    BY <1>1, <1>2, <1>6, <1>7 DEF GatesTyped
  <2> QED BY <1>1, <1>3, <1>5, <2>1, <2>2, <2>3 DEF GatesTyped, RowOK, TodoOK
<1>9. KeptOK'
  BY <1>1, <1>3, <1>4, <1>5, KeptQuiet
<1>10. ASSUME NEW s \in Scopes, s # h
       PROVE  LockOK(s)'
  <2>1. attempts'[s] = attempts[s] /\ recorded'[s] = recorded[s] /\ lockout'[s] = lockout[s]
    BY <1>1, <1>3, <1>6, <1>10 DEF GatesTyped
  <2> QED BY <1>1, <1>4, <1>5, <2>1, LockQuiet
<1>11. LockOK(h)'
  <2>1. ~Risk(call'[r], h)
    BY <1>4, <1>5
  <2>2. /\ Cardinality(Past(h)) \in Nat /\ Cardinality(Past(h)') \in Nat
        /\ Cardinality(Past(h)') <= Cardinality(Requests) - 1
        /\ Cardinality(Past(h)') <= Cardinality(Past(h)) - 1
    BY <1>2, <1>5, <2>1, PastChanges
  <2>3. Cardinality(Requests) \in Nat
    BY GatesAssumption, FS_CardinalityType
  <2>4. recorded'[h] = recorded[h] + 1
    BY <1>1, <1>2, <1>3 DEF GatesTyped
  <2>5. LockOK(h)
    BY <1>1, <1>2
  <2> HIDE DEF Past
  <2>6. CASE attempts[h] + 1 >= MaxAttempts
    <3>1. ~Allowed(h)'
      BY <1>1, <1>2, <1>6, <2>6 DEF Allowed, GatesTyped
    <3>2. recorded'[h] <= MaxAttempts \/ ~Allowed(h)
      BY <1>7, <2>4, <2>5 DEF LockOK
    <3> QED BY <1>7, <2>2, <2>3, <2>4, <2>5, <3>1, <3>2 DEF LockOK
  <2>7. CASE ~(attempts[h] + 1 >= MaxAttempts)
    <3>1. (Allowed(h)' <=> Allowed(h)) /\ attempts'[h] = attempts[h] + 1
      BY <1>1, <1>2, <1>6, <2>7 DEF Allowed, GatesTyped
    <3> QED BY <1>7, <2>2, <2>3, <2>4, <2>5, <3>1 DEF LockOK
  <2> QED BY <2>6, <2>7
<1> QED BY <1>8, <1>9, <1>10, <1>11 DEF GatesInv

LEMMA ResetsOK ==
  ASSUME GatesInv, NEW r \in Requests, Reset(r)
  PROVE  GatesInv'
<1>1. GatesTyped /\ KeptOK /\ (\A s \in Scopes : LockOK(s)) /\ call[r].at = "reset"
  BY DEF GatesInv, Reset
<1>2. PICK h \in Scopes : h = Head(call[r].todo)
  BY <1>1, FirstScope
<1>3. /\ call' = NextScope(r, Answer(r)) /\ UNCHANGED <<password, violations>>
      /\ recorded' = [recorded EXCEPT ![h] = 0] /\ attempts' = [attempts EXCEPT ![h] = 0]
      /\ lockout' = [lockout EXCEPT ![h] = Unlocked]
      /\ created' = IF call[r].then = "created" THEN created \union {<<call[r].email, call[r].pw>>}
                                               ELSE created
  BY <1>2 DEF Reset
<1>4. PICK row \in CallRow :
        /\ RowOK(row) /\ call' = [call EXCEPT ![r] = row]
        /\ row.then = "created" =>
             call[r].then = "created" /\ row.email = call[r].email /\ row.pw = call[r].pw
        /\ \A s : Risk(row, s) => Risk(call[r], s)
  BY <1>1, <1>3, ShiftedRow
<1>5. /\ call' \in [Requests -> CallRow] /\ \A q \in Requests : RowOK(call'[q])
      /\ call'[r] = row /\ \A q \in Requests \ {r} : call'[q] = call[q]
  BY <1>1, <1>4, Moved
<1>6. Unlocked \in [on : {"no", "yes", "ending"}, minutes : Mins] /\ Unlocked.on = "no"
  BY DEF Unlocked, Mins
<1>7. GatesTyped'
  <2>1. 0 \in 0 .. MaxAttempts - 1
    BY AttemptsFacts
  <2> QED BY <1>1, <1>3, <1>5, <1>6, <2>1 DEF GatesTyped, RowOK, TodoOK
<1>8. KeptOK'
  <2>1. ASSUME NEW q \in Requests, call'[q].then = "created"
        PROVE  /\ call'[q].pw \in Passwords /\ call'[q].email \in Emails
               /\ password[call'[q].email] = call'[q].pw
    <3>1. CASE q = r
      BY <1>1, <1>4, <1>5, <2>1, <3>1 DEF KeptOK
    <3>2. CASE q # r
      BY <1>1, <1>5, <2>1, <3>2 DEF KeptOK
    <3> QED BY <3>1, <3>2
  <2>2. ASSUME NEW account \in created'
        PROVE  account[1] \in Emails /\ account[2] \in Passwords /\ password[account[1]] = account[2]
    <3>1. CASE account \in created
      BY <1>1, <3>1 DEF KeptOK
    <3>2. CASE account \notin created
      <4>1. call[r].then = "created" /\ account = <<call[r].email, call[r].pw>>
        BY <1>3, <2>2, <3>2
      <4> QED BY <1>1, <4>1 DEF KeptOK
    <3> QED BY <3>1, <3>2
  <2> QED BY <1>3, <2>1, <2>2 DEF KeptOK
<1>9. ASSUME NEW s \in Scopes, s # h
      PROVE  LockOK(s)'
  <2>1. attempts'[s] = attempts[s] /\ recorded'[s] = recorded[s] /\ lockout'[s] = lockout[s]
    BY <1>1, <1>3, <1>9 DEF GatesTyped
  <2> QED BY <1>1, <1>4, <1>5, <2>1, LockQuiet
<1>10. LockOK(h)'
  BY <1>1, <1>3, <1>6 DEF LockOK, Allowed, GatesTyped
<1> QED BY <1>7, <1>8, <1>9, <1>10 DEF GatesInv

(***************************************************************************)
(* Keys of Redis expire.                                                   *)
(***************************************************************************)
LEMMA ExpiresOK ==
  ASSUME GatesInv, NEW s \in Scopes, AttemptsExpire(s) \/ LockoutEnds(s) \/ ViolationsExpire(s)
  PROVE  GatesInv'
<1>1. GatesTyped /\ KeptOK /\ (\A q \in Scopes : LockOK(q)) /\ UNCHANGED <<password, call, created>>
  BY DEF GatesInv, AttemptsExpire, LockoutEnds, ViolationsExpire
<1>2. 0 \in 0 .. MaxAttempts - 1
  BY AttemptsFacts
<1>3. /\ attempts' \in [Scopes -> 0 .. MaxAttempts - 1] /\ recorded' \in [Scopes -> Nat]
      /\ violations' \in [Scopes -> Nat]
      /\ lockout' \in [Scopes -> [on : {"no", "yes", "ending"}, minutes : Mins]]
      /\ \A q \in Scopes \ {s} :
           attempts'[q] = attempts[q] /\ recorded'[q] = recorded[q] /\ lockout'[q] = lockout[q]
  <2>1. CASE AttemptsExpire(s)
    BY <1>1, <1>2, <2>1 DEF AttemptsExpire, GatesTyped
  <2>2. CASE LockoutEnds(s)
    <3>1. Unlocked \in [on : {"no", "yes", "ending"}, minutes : Mins]
      BY DEF Unlocked, Mins
    <3>2. [lockout[s] EXCEPT !.on = "ending"] \in [on : {"no", "yes", "ending"}, minutes : Mins]
      BY <1>1 DEF GatesTyped
    <3>3. PICK row \in [on : {"no", "yes", "ending"}, minutes : Mins] : lockout' = [lockout EXCEPT ![s] = row]
      BY <1>1, <2>2, <3>1, <3>2 DEF LockoutEnds, GatesTyped
    <3>4. UNCHANGED <<attempts, violations>> /\ recorded' \in {recorded, [recorded EXCEPT ![s] = 0]}
      BY <2>2 DEF LockoutEnds
    <3> QED BY <1>1, <3>3, <3>4 DEF GatesTyped
  <2>3. CASE ViolationsExpire(s)
    BY <1>1, <2>3 DEF ViolationsExpire, GatesTyped
  <2> QED BY <2>1, <2>2, <2>3
<1>4. GatesTyped'
  BY <1>1, <1>3 DEF GatesTyped, RowOK, TodoOK
<1>5. KeptOK'
  BY <1>1 DEF KeptOK
<1>6. \A q \in Scopes : Past(q)' = Past(q)
  BY <1>1 DEF Past, Risk, All, Left
<1>7. ASSUME NEW q \in Scopes, q # s
      PROVE  LockOK(q)'
  BY <1>1, <1>3, <1>6, <1>7 DEF LockOK, Allowed
<1>8. LockOK(s)'
  <2>1. LockOK(s) /\ attempts[s] \in Nat /\ recorded[s] \in Nat
    BY <1>1, AttemptsFacts DEF GatesTyped
  <2>2. CASE AttemptsExpire(s)
    BY <1>1, <1>6, <2>1, <2>2 DEF AttemptsExpire, LockOK, Allowed, GatesTyped
  <2>3. CASE LockoutEnds(s)
    <3>1. lockout[s].on \in {"yes", "ending"} /\ attempts' = attempts
          /\ lockout'[s].on # "yes"
          /\ recorded'[s] = IF lockout[s].on = "yes" THEN 0 ELSE recorded[s]
      BY <1>1, <2>3 DEF LockoutEnds, GatesTyped, Unlocked
    <3> QED BY <2>1, <3>1 DEF LockOK, Allowed
  <2>4. CASE ViolationsExpire(s)
    BY <1>6, <2>1, <2>4 DEF ViolationsExpire, LockOK, Allowed
  <2> QED BY <2>2, <2>3, <2>4
<1> QED BY <1>4, <1>5, <1>7, <1>8 DEF GatesInv

LEMMA GatesStep ==
  ASSUME GatesInv, [GatesNext]_gateVars
  PROVE  GatesInv'
<1>1. ASSUME NEW r \in Requests, NEW ip \in Addresses, NEW email \in Emails, NEW pw \in Passwords,
             Login(r, ip, email, pw)
      PROVE  GatesInv'
  <2> DEFINE a == <<"login:ip", ip>>
             b == <<"login:email", email>>
  <2>1. a \in Scopes /\ b \in Scopes /\ a # b
    BY DEF Scopes
  <2>2. Arrives(r, <<a, b>>, email, pw, "verify")
    BY <1>1 DEF Login
  <2> HIDE DEF a, b
  <2>3. <<a, b>> \in Lists
    BY <2>1 DEF Lists
  <2> QED BY <2>1, <2>2, <2>3, ArrivesOK
<1>2. ASSUME NEW r \in Requests, NEW ip \in Addresses, NEW email \in Emails, NEW pw \in Passwords,
             Register(r, ip, email, pw)
      PROVE  GatesInv'
  <2> DEFINE a == <<"register:ip", ip>>
  <2>1. a \in Scopes
    BY DEF Scopes
  <2>2. Arrives(r, <<a>>, email, pw, "validate")
    BY <1>2 DEF Register
  <2> HIDE DEF a
  <2>3. <<a>> \in Lists
    BY <2>1 DEF Lists
  <2> QED BY <2>1, <2>2, <2>3, ArrivesOK
<1>3. ASSUME NEW r \in Requests, CallFails(r)
      PROVE  GatesInv'
  BY <1>3, AnswersOK DEF CallFails
<1>4. CASE UNCHANGED gateVars
  <2>1. UNCHANGED <<password, attempts, lockout, violations, call, recorded, created>>
    BY <1>4 DEF gateVars, limits
  <2>2. \A s \in Scopes : Past(s)' = Past(s)
    BY <2>1 DEF Past, Risk, All, Left
  <2>3. \A s \in Scopes : LockOK(s)'
    BY <2>1, <2>2 DEF GatesInv, LockOK, Allowed
  <2>4. GatesTyped' /\ KeptOK'
    BY <2>1 DEF GatesInv, GatesTyped, RowOK, TodoOK, KeptOK
  <2> QED BY <2>3, <2>4 DEF GatesInv
<1> QED
  BY <1>1, <1>2, <1>3, <1>4, ChecksOK, DecidesOK, CreatesOK, RecordsOK, ResetsOK, ExpiresOK DEF GatesNext

LEMMA GatesStart == GatesInit => GatesInv
<1> SUFFICES ASSUME GatesInit PROVE GatesInv
  OBVIOUS
<1>1. /\ password = [e \in Emails |-> NoAccount] /\ attempts = [s \in Scopes |-> 0]
      /\ lockout = [s \in Scopes |-> Unlocked] /\ violations = [s \in Scopes |-> 0]
      /\ call = [r \in Requests |-> Idle] /\ recorded = [s \in Scopes |-> 0] /\ created = {}
  BY DEF GatesInit
<1>2. Unlocked \in [on : {"no", "yes", "ending"}, minutes : Mins] /\ Unlocked.on = "no"
  BY DEF Unlocked, Mins
<1>3. 0 \in 0 .. MaxAttempts - 1
  BY AttemptsFacts
<1>4. GatesTyped
  BY <1>1, <1>2, <1>3, IdleRow DEF GatesTyped
<1>5. KeptOK
  BY <1>1, IdleRow DEF KeptOK
<1>6. \A s \in Scopes : LockOK(s)
  BY <1>1, <1>2 DEF LockOK, Allowed
<1> QED BY <1>4, <1>5, <1>6 DEF GatesInv

LEMMA GatesAlways == GatesSpec => []GatesInv
BY GatesStart, GatesStep, PTL DEF GatesSpec

(***************************************************************************)
(* Between two moments at which a scope is let go, no more failures are    *)
(* recorded against it than lock it, and one for each other request that   *)
(* was past the check (rate_limiter.go, service.go), for any number of     *)
(* requests served at once, of addresses and of emails.                    *)
(***************************************************************************)
THEOREM GuessesAreBounded == GatesSpec => []LockoutBoundsGuesses
<1>1. ASSUME GatesInv, NEW s \in Scopes
      PROVE  recorded[s] <= MaxAttempts + Cardinality(Requests) - 1
  <2>1. /\ attempts[s] \in 0 .. MaxAttempts - 1 /\ recorded[s] \in Nat /\ MaxAttempts \in Nat
        /\ LockOK(s) /\ Cardinality(Requests) \in Nat
    BY <1>1, GatesAssumption, FS_CardinalityType DEF GatesInv, GatesTyped
  <2>2. Past(s) \subseteq Requests /\ IsFiniteSet(Past(s))
    BY GatesAssumption, FS_Subset DEF Past
  <2>3. Cardinality(Past(s)) \in Nat
    BY <2>2, FS_CardinalityType
  <2> HIDE DEF Past
  <2> QED BY <2>1, <2>3 DEF LockOK
<1>2. GatesInv => LockoutBoundsGuesses
  BY <1>1 DEF LockoutBoundsGuesses
<1> QED BY <1>2, GatesAlways, PTL

(***************************************************************************)
(* No registration, repeated, concurrent or unanswered, changes the        *)
(* password of an account that a client was told it has (user_repository.go*)
(* and the unique index behind it).                                        *)
(***************************************************************************)
THEOREM AccountsAreKept == GatesSpec => []CreatedIsKept
<1>1. GatesInv => CreatedIsKept
  BY DEF GatesInv, KeptOK, CreatedIsKept
<1> QED BY <1>1, GatesAlways, PTL
-----------------------------------------------------------------------------
(***************************************************************************)
(* The type of the limiter needs to know how often a scope can be violated:*)
(* a request records one failure for each of its scopes at most, so what it*)
(* violated and what the requests under way owe it never exceed the        *)
(* requests there were.                                                    *)
(***************************************************************************)
Owes(c, s) ==
  /\ s \in All(c)
  /\ c.at \in {"check", "verify", "validate", "create"} \/ (c.at = "record" /\ s \in Left(c))

Owing(s) == {r \in Requests : Owes(call[r], s)}

TriesOK ==
  /\ tries \in 0 .. MaxTries
  /\ \A s \in Scopes : violations[s] + Cardinality(Owing(s)) <= tries

\* A password that a registration refuses never reaches an account.
WeakOK ==
  /\ \A r \in Requests : call[r].at = "create" => call[r].pw \notin Weak
  /\ \A e \in Emails : password[e] \notin Weak

\* A lockout lasts as long as its violations say.
LockedOK ==
  \A s \in Scopes :
    lockout[s].on # "no" => violations[s] > 0 /\ lockout[s].minutes = Minutes(violations[s])

LimiterInv == GatesInv /\ TriesOK /\ WeakOK /\ LockedOK

\* A step of one request changes what is owed by that request alone.
LEMMA OwingChanges ==
  ASSUME NEW r \in Requests, \A q \in Requests \ {r} : call'[q] = call[q], NEW s
  PROVE  /\ Cardinality(Owing(s)) \in Nat /\ Cardinality(Owing(s)') \in Nat
         /\ Cardinality(Owing(s)') <= Cardinality(Owing(s)) + 1
         /\ (Owes(call'[r], s) => Owes(call[r], s)) =>
              Cardinality(Owing(s)') <= Cardinality(Owing(s))
         /\ Owes(call[r], s) /\ ~Owes(call'[r], s) =>
              Cardinality(Owing(s)') <= Cardinality(Owing(s)) - 1
<1> DEFINE Old == Owing(s)
           New == Owing(s)'
<1>1. New = {q \in Requests : Owes(call'[q], s)} /\ Old = {q \in Requests : Owes(call[q], s)}
  BY DEF Owing, Owes, All, Left
<1>2. /\ IsFiniteSet(Old) /\ IsFiniteSet(New)
      /\ Cardinality(Old) \in Nat /\ Cardinality(New) \in Nat
  BY <1>1, FS_Subset, FS_CardinalityType, GatesAssumption
<1>3. Cardinality(New) <= Cardinality(Old) + 1
  <2>1. New \subseteq Old \union {r}
    BY <1>1
  <2> HIDE DEF Old, New
  <2>2. /\ IsFiniteSet(Old \union {r})
        /\ Cardinality(Old \union {r}) \in {Cardinality(Old), Cardinality(Old) + 1}
    BY <1>2, FS_AddElement
  <2>3. Cardinality(New) <= Cardinality(Old \union {r})
    BY <2>1, <2>2, FS_Subset
  <2> QED BY <1>2, <2>2, <2>3
<1>4. ASSUME Owes(call'[r], s) => Owes(call[r], s)
      PROVE  Cardinality(New) <= Cardinality(Old)
  <2>1. New \subseteq Old
    BY <1>1, <1>4
  <2> QED BY <1>2, <2>1, FS_Subset
<1>5. ASSUME Owes(call[r], s), ~Owes(call'[r], s)
      PROVE  Cardinality(New) <= Cardinality(Old) - 1
  <2>1. New \subseteq Old \ {r} /\ r \in Old
    BY <1>1, <1>5
  <2>2. IsFiniteSet(Old \ {r}) /\ Cardinality(Old \ {r}) = Cardinality(Old) - 1
    BY <1>2, <2>1, FS_RemoveElement
  <2>3. Cardinality(New) <= Cardinality(Old \ {r})
    BY <2>1, <2>2, FS_Subset
  <2> QED BY <2>2, <2>3
<1> QED BY <1>2, <1>3, <1>4, <1>5

\* The steps of a request after it arrived.
RequestSteps(r) ==
  \/ CheckRateLimit(r) \/ Verify(r) \/ Validate(r) \/ Create(r)
  \/ RecordFailure(r) \/ Reset(r) \/ CallFails(r)

\* None makes a request owe more; one that records owes less.
LEMMA OwedRow ==
  ASSUME GatesTyped, NEW r \in Requests, RequestSteps(r)
  PROVE  \E row \in CallRow :
           /\ call' = [call EXCEPT ![r] = row]
           /\ row.at = "create" => row.pw \notin Weak
           /\ \A s : Owes(row, s) => Owes(call[r], s)
           /\ RecordFailure(r) =>
                Owes(call[r], Head(call[r].todo)) /\ ~Owes(row, Head(call[r].todo))
<1> DEFINE c == call[r]
           h == Head(c.todo)
<1>1. c \in CallRow /\ RowOK(c) /\ call \in [Requests -> CallRow] /\ c.at # "idle" /\ TodoOK(c)
  BY DEF GatesTyped, RowOK, RequestSteps, CheckRateLimit, Verify, Validate, Create, RecordFailure,
         Reset, CallFails
<1>2. RecordFailure(r) => c.at = "record" /\ Owes(c, h)
  BY <1>1, ListFacts DEF RecordFailure, Owes
<1>3. CASE call' = Answer(r)
  <2>1. Idle.at = "idle"
    BY DEF Idle
  <2>2. \A s : ~Owes(Idle, s)
    BY <2>1 DEF Owes
  <2>3. call' = [call EXCEPT ![r] = Idle]
    BY <1>3 DEF Answer
  <2> QED BY <1>2, <2>1, <2>2, <2>3, IdleRow
<1>4. CASE c.at \in {"check", "record", "reset"} /\ Len(c.todo) > 1 /\ call' = [call EXCEPT ![r].todo = Tail(@)]
  <2> DEFINE row == [c EXCEPT !.todo = Tail(c.todo)]
  <2>1. /\ row \in CallRow /\ row.at = c.at /\ All(row) = All(c) /\ Left(row) = Left(c) \ {h}
    BY <1>1, <1>4, NextRow
  <2>2. call' = [call EXCEPT ![r] = row]
    BY <1>1, <1>4
  <2> HIDE DEF row
  <2>3. \A s : Owes(row, s) => Owes(c, s)
    BY <2>1 DEF Owes
  <2>4. c.at = "record" => ~Owes(row, h)
    BY <2>1 DEF Owes
  <2> QED BY <1>2, <1>4, <2>1, <2>2, <2>3, <2>4
<1>5. ASSUME NEW at \in {"verify", "validate", "create", "record", "reset"},
             NEW then \in {c.then, "created"},
             c.at \in {"check", "verify", "validate", "create"}, at = "create" => c.pw \notin Weak,
             call' = [call EXCEPT ![r] = Anew(c, at, then)]
      PROVE  \E row \in CallRow :
               /\ call' = [call EXCEPT ![r] = row]
               /\ row.at = "create" => row.pw \notin Weak
               /\ \A s : Owes(row, s) => Owes(c, s)
  <2> DEFINE row == Anew(c, at, then)
  <2>1. row \in CallRow /\ row.pw = c.pw
    BY <1>1, <1>5, ContinuedRow
  <2>2. row.at = at /\ row.scopes = c.scopes
    BY <1>1 DEF Anew, CallRow
  <2>3. All(row) = All(c)
    BY <2>2 DEF All
  <2>4. \A s : Owes(row, s) => Owes(c, s)
    BY <1>5, <2>3 DEF Owes
  <2> QED BY <1>5, <2>1, <2>2, <2>4
<1>6. ASSUME NEW at, call' = Continue(r, at)
      PROVE  call' = [call EXCEPT ![r] = Anew(c, at, c.then)]
  BY <1>1, <1>6 DEF Continue, Anew, CallRow
<1>7. CASE CheckRateLimit(r)
  <2>1. c.at = "check" /\ c.then \in {"verify", "validate"} /\ ~RecordFailure(r)
    BY <1>1, <1>2, <1>7 DEF CheckRateLimit, RowOK
  <2>2. \/ call' = Answer(r) \/ call' = Continue(r, c.then)
        \/ Len(c.todo) > 1 /\ call' = [call EXCEPT ![r].todo = Tail(@)]
    BY <1>7 DEF CheckRateLimit, NextScope
  <2> QED BY <1>3, <1>4, <1>5, <1>6, <2>1, <2>2
<1>8. CASE Verify(r)
  <2>1. c.at = "verify" /\ ~RecordFailure(r) /\ \E at \in {"reset", "record"} : call' = Continue(r, at)
    BY <1>2, <1>8 DEF Verify
  <2> QED BY <1>5, <1>6, <2>1
<1>9. CASE Validate(r)
  <2>1. /\ c.at = "validate" /\ ~RecordFailure(r)
        /\ call' = Continue(r, IF c.pw \in Weak THEN "record" ELSE "create")
    BY <1>2, <1>9 DEF Validate
  <2>2. CASE c.pw \in Weak
    BY <1>5, <1>6, <2>1, <2>2
  <2>3. CASE c.pw \notin Weak
    BY <1>5, <1>6, <2>1, <2>3
  <2> QED BY <2>2, <2>3
<1>10. CASE Create(r)
  <2>1. c.at = "create" /\ ~RecordFailure(r)
    BY <1>2, <1>10 DEF Create
  <2>2. \/ call' = Continue(r, "record") \/ call' = Answer(r)
        \/ call' = [call EXCEPT ![r].at = "reset", ![r].todo = c.scopes, ![r].then = "created"]
    BY <1>10 DEF Create
  <2>3. [call EXCEPT ![r].at = "reset", ![r].todo = c.scopes, ![r].then = "created"]
          = [call EXCEPT ![r] = Anew(c, "reset", "created")]
    BY <1>1 DEF Anew
  <2> QED BY <1>3, <1>5, <1>6, <2>1, <2>2, <2>3
<1>11. CASE RecordFailure(r) \/ Reset(r)
  <2>1. c.at \in {"record", "reset"} /\ call' = NextScope(r, Answer(r))
    BY <1>11 DEF RecordFailure, Reset
  <2>2. \/ call' = Answer(r)
        \/ Len(c.todo) > 1 /\ call' = [call EXCEPT ![r].todo = Tail(@)]
    BY <2>1 DEF NextScope
  <2> QED BY <1>3, <1>4, <2>1, <2>2
<1> QED BY <1>3, <1>7, <1>8, <1>9, <1>10, <1>11 DEF RequestSteps, CallFails

LEMMA RequestKeepsTypes ==
  ASSUME LimiterInv, NEW r \in Requests, RequestSteps(r)
  PROVE  TriesOK' /\ WeakOK' /\ LockedOK'
<1> DEFINE h == Head(call[r].todo)
<1>1. GatesTyped /\ TriesOK /\ WeakOK /\ LockedOK
  BY DEF LimiterInv, GatesInv
<1>2. PICK row \in CallRow :
        /\ call' = [call EXCEPT ![r] = row]
        /\ row.at = "create" => row.pw \notin Weak
        /\ \A s : Owes(row, s) => Owes(call[r], s)
        /\ RecordFailure(r) => Owes(call[r], h) /\ ~Owes(row, h)
  BY <1>1, OwedRow
<1>3. call'[r] = row /\ \A q \in Requests \ {r} : call'[q] = call[q]
  BY <1>1, <1>2 DEF GatesTyped
<1>4. /\ tries' = tries /\ tries \in Nat
      /\ \A s \in Scopes : violations[s] \in Nat /\ violations[s] + Cardinality(Owing(s)) <= tries
  BY <1>1 DEF TriesOK, GatesTyped, RequestSteps, CheckRateLimit, Verify, Validate, Create,
              RecordFailure, Reset, CallFails
<1>5. ASSUME NEW s \in Scopes
      PROVE  /\ Cardinality(Owing(s)) \in Nat /\ Cardinality(Owing(s)') \in Nat
             /\ Cardinality(Owing(s)') <= Cardinality(Owing(s))
             /\ RecordFailure(r) /\ s = h => Cardinality(Owing(s)') <= Cardinality(Owing(s)) - 1
  BY <1>2, <1>3, OwingChanges
<1>6. ASSUME RecordFailure(r)
      PROVE  /\ h \in Scopes /\ UNCHANGED password
             /\ \A s \in Scopes \ {h} : violations'[s] = violations[s] /\ lockout'[s] = lockout[s]
             /\ \/ /\ violations'[h] = violations[h] + 1
                   /\ lockout'[h] = [on |-> "yes", minutes |-> Minutes(violations[h] + 1)]
                \/ violations'[h] = violations[h] /\ lockout'[h] = lockout[h]
  <2>1. h \in Scopes
    BY <1>1, <1>6, FirstScope DEF RecordFailure
  <2> HIDE DEF h
  <2>2. /\ UNCHANGED password
        /\ \/ /\ violations' = [violations EXCEPT ![h] = @ + 1]
              /\ lockout' = [lockout EXCEPT ![h] = [on |-> "yes", minutes |-> Minutes(violations[h] + 1)]]
           \/ UNCHANGED <<violations, lockout>>
    BY <1>6 DEF RecordFailure, h
  <2> QED BY <1>1, <2>1, <2>2 DEF GatesTyped
<1>7. ASSUME ~RecordFailure(r)
      PROVE  /\ UNCHANGED violations
             /\ \A s \in Scopes : lockout'[s] = lockout[s] \/ lockout'[s].on = "no"
  <2>1. UNCHANGED violations /\ (UNCHANGED lockout \/ lockout' = [lockout EXCEPT ![h] = Unlocked])
    BY <1>7 DEF RequestSteps, CheckRateLimit, Verify, Validate, Create, Reset, CallFails, limits
  <2>2. Unlocked.on = "no"
    BY DEF Unlocked
  <2> QED BY <1>1, <2>1, <2>2 DEF GatesTyped
<1> HIDE DEF h
<1>8. TriesOK'
  <2>1. ASSUME NEW s \in Scopes
        PROVE  violations'[s] + Cardinality(Owing(s)') <= tries
    <3>1. CASE RecordFailure(r) /\ s = h
      BY <1>4, <1>5, <1>6, <3>1
    <3>2. CASE ~(RecordFailure(r) /\ s = h)
      <4>1. violations'[s] = violations[s]
        BY <1>6, <1>7, <3>2
      <4> QED BY <1>4, <1>5, <4>1
    <3> QED BY <3>1, <3>2
  <2> QED BY <1>1, <1>4, <2>1 DEF TriesOK
<1>9. WeakOK'
  <2>1. \A q \in Requests : call'[q].at = "create" => call'[q].pw \notin Weak
    BY <1>1, <1>2, <1>3 DEF WeakOK
  <2>2. \/ password' = password
        \/ call[r].at = "create" /\ password' = [password EXCEPT ![call[r].email] = call[r].pw]
    <3>1. CASE Create(r)
      BY <3>1 DEF Create
    <3>2. CASE ~Create(r)
      BY <3>2 DEF RequestSteps, CheckRateLimit, Verify, Validate, RecordFailure, Reset, CallFails
    <3> QED BY <3>1, <3>2
  <2>3. \A e \in Emails : password'[e] \notin Weak
    BY <1>1, <2>2 DEF WeakOK, GatesTyped
  <2> QED BY <2>1, <2>3 DEF WeakOK
<1>10. LockedOK'
  <2>1. ASSUME NEW s \in Scopes, lockout'[s].on # "no"
        PROVE  violations'[s] > 0 /\ lockout'[s].minutes = Minutes(violations'[s])
    <3>1. CASE RecordFailure(r) /\ s = h /\ violations'[h] = violations[h] + 1
      BY <1>4, <1>6, <2>1, <3>1
    <3>2. CASE ~(RecordFailure(r) /\ s = h /\ violations'[h] = violations[h] + 1)
      <4>1. violations'[s] = violations[s] /\ lockout'[s] = lockout[s]
        BY <1>4, <1>6, <1>7, <2>1, <3>2
      <4> QED BY <1>1, <2>1, <4>1 DEF LockedOK
    <3> QED BY <3>1, <3>2
  <2> QED BY <2>1 DEF LockedOK
<1> QED BY <1>8, <1>9, <1>10

LEMMA ArrivalKeepsTypes ==
  ASSUME LimiterInv, NEW r \in Requests, NEW scopes, NEW email, NEW pw, NEW then,
         Arrives(r, scopes, email, pw, then)
  PROVE  TriesOK' /\ WeakOK' /\ LockedOK'
<1>1. GatesTyped /\ TriesOK /\ WeakOK /\ LockedOK /\ MaxTries \in Nat
  BY GatesAssumption DEF LimiterInv, GatesInv
<1>2. /\ tries < MaxTries /\ tries' = tries + 1 /\ UNCHANGED <<password, lockout, violations>>
      /\ call'[r].at = "check" /\ \A q \in Requests \ {r} : call'[q] = call[q]
  BY <1>1 DEF Arrives, limits, GatesTyped
<1>3. TriesOK'
  <2>1. ASSUME NEW s \in Scopes
        PROVE  violations'[s] + Cardinality(Owing(s)') <= tries'
    <3>1. /\ Cardinality(Owing(s)) \in Nat /\ Cardinality(Owing(s)') \in Nat
          /\ Cardinality(Owing(s)') <= Cardinality(Owing(s)) + 1
      BY <1>2, OwingChanges
    <3>2. /\ violations[s] + Cardinality(Owing(s)) <= tries /\ tries \in Nat /\ violations[s] \in Nat
      BY <1>1 DEF TriesOK, GatesTyped
    <3> QED BY <1>2, <3>1, <3>2
  <2> QED BY <1>1, <1>2, <2>1 DEF TriesOK
<1> QED BY <1>1, <1>2, <1>3 DEF WeakOK, LockedOK

LEMMA ExpiryKeepsTypes ==
  ASSUME LimiterInv, NEW s \in Scopes, AttemptsExpire(s) \/ LockoutEnds(s) \/ ViolationsExpire(s)
  PROVE  TriesOK' /\ WeakOK' /\ LockedOK'
<1>1. /\ GatesTyped /\ TriesOK /\ WeakOK /\ LockedOK /\ UNCHANGED <<password, call, tries>>
  BY DEF LimiterInv, GatesInv, AttemptsExpire, LockoutEnds, ViolationsExpire
<1>2. \A q \in Scopes : Owing(q)' = Owing(q)
  BY <1>1 DEF Owing, Owes, All, Left
<1>3. \/ violations' = violations
      \/ lockout' = lockout /\ lockout[s].on = "no" /\ violations' = [violations EXCEPT ![s] = 0]
  BY DEF AttemptsExpire, LockoutEnds, ViolationsExpire
<1>4. \A q \in Scopes : violations[q] \in Nat /\ violations'[q] \in {0, violations[q]}
  BY <1>1, <1>3 DEF GatesTyped
<1>5. TriesOK'
  <2>1. ASSUME NEW q \in Scopes
        PROVE  violations'[q] + Cardinality(Owing(q)') <= tries
    <3>1. IsFiniteSet(Owing(q))
      BY GatesAssumption, FS_Subset DEF Owing
    <3>2. Cardinality(Owing(q)) \in Nat
      BY <3>1, FS_CardinalityType
    <3>3. violations[q] + Cardinality(Owing(q)) <= tries /\ tries \in Nat
      BY <1>1 DEF TriesOK
    <3> QED BY <1>2, <1>4, <3>2, <3>3
  <2> QED BY <1>1, <2>1 DEF TriesOK
<1>6. WeakOK'
  BY <1>1 DEF WeakOK
<1>7. ASSUME NEW q \in Scopes, lockout'[q].on # "no"
      PROVE  violations'[q] > 0 /\ lockout'[q].minutes = Minutes(violations'[q])
  <2>1. CASE violations' = violations
    <3>1. \/ lockout' = lockout \/ lockout' = [lockout EXCEPT ![s] = Unlocked]
          \/ lockout[s].on = "yes" /\ lockout' = [lockout EXCEPT ![s].on = "ending"]
      BY DEF AttemptsExpire, LockoutEnds, ViolationsExpire
    <3>2. Unlocked.on = "no"
      BY DEF Unlocked
    <3>3. lockout[q].on # "no" /\ lockout'[q].minutes = lockout[q].minutes
      BY <1>1, <1>7, <3>1, <3>2 DEF GatesTyped
    <3> QED BY <1>1, <2>1, <3>3 DEF LockedOK
  <2>2. CASE lockout' = lockout /\ lockout[s].on = "no" /\ violations' = [violations EXCEPT ![s] = 0]
    BY <1>1, <1>7, <2>2 DEF LockedOK, GatesTyped
  <2> QED BY <1>3, <2>1, <2>2
<1> QED BY <1>5, <1>6, <1>7 DEF LockedOK

LEMMA LimiterStep ==
  ASSUME LimiterInv, [GatesNext]_gateVars
  PROVE  LimiterInv'
<1>1. GatesInv'
  BY GatesStep DEF LimiterInv
<1>2. CASE UNCHANGED gateVars
  <2>1. UNCHANGED <<password, lockout, violations, call, tries>>
    BY <1>2 DEF gateVars, limits
  <2>2. \A q \in Scopes : Owing(q)' = Owing(q)
    BY <2>1 DEF Owing, Owes, All, Left
  <2> QED BY <1>1, <2>1, <2>2 DEF LimiterInv, TriesOK, WeakOK, LockedOK
<1>3. ASSUME NEW r \in Requests, NEW ip \in Addresses, NEW email \in Emails, NEW pw \in Passwords,
             Login(r, ip, email, pw) \/ Register(r, ip, email, pw)
      PROVE  TriesOK' /\ WeakOK' /\ LockedOK'
  BY <1>3, ArrivalKeepsTypes DEF Login, Register
<1> QED
  BY <1>1, <1>2, <1>3, RequestKeepsTypes, ExpiryKeepsTypes DEF GatesNext, RequestSteps, LimiterInv

LEMMA LimiterStart == GatesInit => LimiterInv
<1> SUFFICES ASSUME GatesInit PROVE LimiterInv
  OBVIOUS
<1>1. /\ password = [e \in Emails |-> NoAccount] /\ lockout = [s \in Scopes |-> Unlocked]
      /\ violations = [s \in Scopes |-> 0] /\ call = [r \in Requests |-> Idle] /\ tries = 0
  BY DEF GatesInit
<1>2. Idle.at = "idle" /\ Unlocked.on = "no"
  BY DEF Idle, Unlocked
<1>3. \A s \in Scopes : Owing(s) = {}
  BY <1>1, <1>2 DEF Owing, Owes
<1>4. TriesOK
  <2>1. \A s \in Scopes : Cardinality(Owing(s)) = 0 /\ violations[s] = 0
    BY <1>1, <1>3, FS_EmptySet
  <2>2. tries = 0 /\ MaxTries \in Nat
    BY <1>1, GatesAssumption
  <2> QED BY <2>1, <2>2 DEF TriesOK
<1>5. WeakOK /\ LockedOK
  BY <1>1, <1>2, GatesAssumption DEF WeakOK, LockedOK, NoAccount
<1> QED BY <1>4, <1>5, GatesStart DEF LimiterInv

LEMMA GatesAreTyped == LimiterInv => GatesTypeOK
<1> SUFFICES ASSUME LimiterInv PROVE GatesTypeOK
  OBVIOUS
<1>1. GatesTyped /\ TriesOK /\ WeakOK /\ LockedOK
  BY DEF LimiterInv, GatesInv
<1>2. \A e \in Emails : password[e] \in (Passwords \ Weak) \union {NoAccount}
  BY <1>1 DEF GatesTyped, WeakOK
<1>3. ASSUME NEW s \in Scopes
      PROVE  attempts[s] \in 0 .. MaxAttempts - 1 /\ violations[s] \in 0 .. MaxTries /\ recorded[s] \in Nat
  <2>1. IsFiniteSet(Owing(s))
    BY GatesAssumption, FS_Subset DEF Owing
  <2>2. Cardinality(Owing(s)) \in Nat /\ MaxTries \in Nat
    BY <2>1, FS_CardinalityType, GatesAssumption
  <2>3. violations[s] + Cardinality(Owing(s)) <= tries /\ tries \in 0 .. MaxTries
    BY <1>1 DEF TriesOK
  <2>4. attempts[s] \in 0 .. MaxAttempts - 1 /\ violations[s] \in Nat /\ recorded[s] \in Nat
    BY <1>1 DEF GatesTyped
  <2> QED BY <2>2, <2>3, <2>4
<1>4. ASSUME NEW r \in Requests
      PROVE  /\ call[r].at \in {"idle", "check", "verify", "validate", "create", "record", "reset"}
             /\ call[r].at # "idle" => Len(call[r].todo) \in 1 .. Len(call[r].scopes)
  <2>1. call[r] \in CallRow /\ RowOK(call[r])
    BY <1>1 DEF GatesTyped
  <2>2. call[r].at # "idle" => TodoOK(call[r])
    BY <2>1 DEF RowOK
  <2>3. ASSUME NEW a, call[r].scopes = <<a>>, call[r].todo = <<a>>
        PROVE  Len(call[r].todo) \in 1 .. Len(call[r].scopes)
    BY <2>3
  <2>4. ASSUME NEW a, NEW b, call[r].scopes = <<a, b>>, call[r].todo \in {<<a, b>>, <<b>>}
        PROVE  Len(call[r].todo) \in 1 .. Len(call[r].scopes)
    <3>1. Len(call[r].todo) \in {1, 2} /\ Len(call[r].scopes) = 2
      BY <2>4
    <3> QED BY <3>1
  <2>5. TodoOK(call[r]) => Len(call[r].todo) \in 1 .. Len(call[r].scopes)
    BY <2>3, <2>4 DEF TodoOK
  <2> QED BY <2>1, <2>2, <2>5 DEF CallRow, Steps
<1> QED BY <1>1, <1>2, <1>3, <1>4 DEF GatesTypeOK, LockedOK

(***************************************************************************)
(* The types of both modules, as their run checks them: the stamps of      *)
(* messages and their receipts, what each member sent in the window, the   *)
(* page on the screen, and for the limiter the counters that Redis keeps,  *)
(* how long each lockout lasts and that no weak password has an account.   *)
(***************************************************************************)
THEOREM ServicesTyped == MCSpec => []TypeOK
<1>1. MCInit => HistoryInv /\ LimiterInv
  BY HistoryStart, LimiterStart DEF MCInit
<1>2. HistoryInv /\ LimiterInv /\ [MCNext]_<<chatVars, gateVars, half>> => (HistoryInv /\ LimiterInv)'
  <2>1. [MCNext]_<<chatVars, gateVars, half>> => [ChatNext]_chatVars /\ [GatesNext]_gateVars
    BY DEF MCNext
  <2> QED BY <2>1, HistoryStep, LimiterStep
<1>3. HistoryInv /\ LimiterInv => TypeOK
  BY ChatIsTyped, GatesAreTyped DEF TypeOK
<1> QED BY <1>1, <1>2, <1>3, PTL DEF MCSpec
=============================================================================
