-------------------------- MODULE Messaging_proofs --------------------------
(***************************************************************************)
(* What the windows of a match show, for any number of texts and attempts, *)
(* and whatever fails between the insert of a message and its event.       *)
(***************************************************************************)
EXTENDS Messaging, Naturals, FiniteSetTheorems, TLAPS

(***************************************************************************)
(* Lists of attempts: what they hold, and that they hold nothing twice.    *)
(***************************************************************************)
Line(s) == s \in Seq(Attempts) /\ IsInjective(s)

LEMMA Appended ==
  ASSUME NEW s, Line(s), NEW a \in Attempts
  PROVE  /\ Append(s, a) \in Seq(Attempts) /\ ToSet(Append(s, a)) = ToSet(s) \union {a}
         /\ a \notin ToSet(s) => Line(Append(s, a))
<1>1. /\ s \in Seq(Attempts) /\ Append(s, a) \in Seq(Attempts)
      /\ DOMAIN s = 1 .. Len(s) /\ DOMAIN Append(s, a) = 1 .. Len(s) + 1 /\ Len(s) \in Nat
      /\ Append(s, a)[Len(s) + 1] = a /\ \A i \in 1 .. Len(s) : Append(s, a)[i] = s[i]
  BY DEF Line
<1> DEFINE w == Append(s, a)
<1> HIDE DEF w
<1>2. ToSet(w) = ToSet(s) \union {a}
  <2>1. ASSUME NEW i \in DOMAIN w
        PROVE  w[i] \in ToSet(s) \union {a}
    <3>1. i \in 1 .. Len(s) \/ i = Len(s) + 1
      BY <1>1, <2>1 DEF w
    <3> QED BY <1>1, <3>1 DEF w, ToSet
  <2>2. ASSUME NEW i \in DOMAIN s
        PROVE  s[i] \in ToSet(w)
    <3>1. i \in DOMAIN w /\ w[i] = s[i]
      BY <1>1, <2>2 DEF w
    <3> QED BY <3>1 DEF ToSet
  <2>3. a \in ToSet(w)
    <3>1. Len(s) + 1 \in DOMAIN w /\ w[Len(s) + 1] = a
      BY <1>1 DEF w
    <3> QED BY <3>1 DEF ToSet
  <2> QED BY <2>1, <2>2, <2>3 DEF ToSet
<1>3. ASSUME a \notin ToSet(s)
      PROVE  IsInjective(w)
  <2>1. ASSUME NEW i \in DOMAIN w, NEW j \in DOMAIN w, w[i] = w[j]
        PROVE  i = j
    <3>1. i \in 1 .. Len(s) \/ i = Len(s) + 1
      BY <1>1 DEF w
    <3>2. j \in 1 .. Len(s) \/ j = Len(s) + 1
      BY <1>1 DEF w
    <3>3. \A k \in 1 .. Len(s) : s[k] # a
      BY <1>1, <1>3 DEF ToSet
    <3> QED BY <1>1, <2>1, <3>1, <3>2, <3>3 DEF w, Line, IsInjective
  <2> QED BY <2>1 DEF IsInjective
<1> QED BY <1>1, <1>2, <1>3 DEF w, Line

LEMMA Fronted ==
  ASSUME NEW s, Line(s), NEW a \in Attempts, a \notin ToSet(s)
  PROVE  Line(<<a>> \o s) /\ ToSet(<<a>> \o s) = ToSet(s) \union {a}
<1>1. /\ s \in Seq(Attempts) /\ <<a>> \o s \in Seq(Attempts)
      /\ DOMAIN s = 1 .. Len(s) /\ DOMAIN (<<a>> \o s) = 1 .. Len(s) + 1 /\ Len(s) \in Nat
      /\ (<<a>> \o s)[1] = a /\ \A i \in 1 .. Len(s) : (<<a>> \o s)[i + 1] = s[i]
  BY DEF Line
<1> DEFINE w == <<a>> \o s
<1> HIDE DEF w
<1>2. ToSet(w) = ToSet(s) \union {a}
  <2>1. ASSUME NEW i \in DOMAIN w
        PROVE  w[i] \in ToSet(s) \union {a}
    <3>1. i = 1 \/ (i - 1 \in 1 .. Len(s) /\ (i - 1) + 1 = i)
      BY <1>1, <2>1 DEF w
    <3> QED BY <1>1, <3>1 DEF w, ToSet
  <2>2. ASSUME NEW i \in DOMAIN s
        PROVE  s[i] \in ToSet(w)
    <3>1. i + 1 \in DOMAIN w /\ w[i + 1] = s[i]
      BY <1>1, <2>2 DEF w
    <3> QED BY <3>1 DEF ToSet
  <2>3. a \in ToSet(w)
    <3>1. 1 \in DOMAIN w /\ w[1] = a
      BY <1>1 DEF w
    <3> QED BY <3>1 DEF ToSet
  <2> QED BY <2>1, <2>2, <2>3 DEF ToSet
<1>3. IsInjective(w)
  <2>1. ASSUME NEW i \in DOMAIN w, NEW j \in DOMAIN w, w[i] = w[j]
        PROVE  i = j
    <3>1. i = 1 \/ (i - 1 \in 1 .. Len(s) /\ w[i] = s[i - 1])
      BY <1>1 DEF w
    <3>2. j = 1 \/ (j - 1 \in 1 .. Len(s) /\ w[j] = s[j - 1])
      BY <1>1 DEF w
    <3>3. \A k \in 1 .. Len(s) : s[k] # a
      BY <1>1 DEF ToSet
    <3>4. w[1] = a /\ i \in Nat /\ j \in Nat
      BY <1>1 DEF w
    <3> QED BY <1>1, <2>1, <3>1, <3>2, <3>3, <3>4 DEF Line, IsInjective
  <2> QED BY <2>1 DEF IsInjective
<1> QED BY <1>1, <1>2, <1>3 DEF w, Line

LEMMA Shortened ==
  ASSUME NEW s, Line(s), s # <<>>
  PROVE  /\ Line(Tail(s)) /\ Head(s) \in Attempts /\ ToSet(s) = ToSet(Tail(s)) \union {Head(s)}
<1>1. /\ s \in Seq(Attempts) /\ Tail(s) \in Seq(Attempts) /\ Head(s) = s[1] /\ Head(s) \in Attempts
      /\ DOMAIN s = 1 .. Len(s) /\ DOMAIN Tail(s) = 1 .. Len(s) - 1 /\ Len(s) \in Nat \ {0}
      /\ \A i \in 1 .. Len(s) - 1 : Tail(s)[i] = s[i + 1]
  BY DEF Line
<1> DEFINE w == Tail(s)
<1> HIDE DEF w
<1>2. ToSet(s) = ToSet(w) \union {Head(s)}
  <2>1. ASSUME NEW i \in DOMAIN s
        PROVE  s[i] \in ToSet(w) \union {Head(s)}
    <3>1. i = 1 \/ (i - 1 \in DOMAIN w /\ w[i - 1] = s[i])
      BY <1>1, <2>1 DEF w
    <3> QED BY <1>1, <3>1 DEF ToSet
  <2>2. ASSUME NEW i \in DOMAIN w
        PROVE  w[i] \in ToSet(s)
    <3>1. i + 1 \in DOMAIN s /\ w[i] = s[i + 1]
      BY <1>1, <2>2 DEF w
    <3> QED BY <3>1 DEF ToSet
  <2>3. Head(s) \in ToSet(s)
    BY <1>1 DEF ToSet
  <2> QED BY <2>1, <2>2, <2>3 DEF ToSet
<1>3. IsInjective(w)
  <2>1. ASSUME NEW i \in DOMAIN w, NEW j \in DOMAIN w, w[i] = w[j]
        PROVE  i = j
    <3>1. i + 1 \in DOMAIN s /\ j + 1 \in DOMAIN s /\ s[i + 1] = s[j + 1] /\ i \in Nat /\ j \in Nat
      BY <1>1, <2>1 DEF w
    <3>2. i + 1 = j + 1
      BY <3>1 DEF Line, IsInjective
    <3> QED BY <3>1, <3>2
  <2> QED BY <2>1 DEF IsInjective
<1> QED BY <1>1, <1>2, <1>3 DEF w, Line

LEMMA Reversed ==
  ASSUME NEW s, Line(s)
  PROVE  Line(Reverse(s)) /\ ToSet(Reverse(s)) = ToSet(s)
<1>1. /\ s \in Seq(Attempts) /\ DOMAIN s = 1 .. Len(s) /\ Len(s) \in Nat
      /\ \A i \in 1 .. Len(s) : s[i] \in Attempts
  BY DEF Line
<1> DEFINE w == Reverse(s)
<1>2. /\ w = [i \in 1 .. Len(s) |-> s[(Len(s) - i) + 1]]
      /\ \A i \in 1 .. Len(s) : (Len(s) - i) + 1 \in 1 .. Len(s)
  BY <1>1 DEF Reverse
<1> HIDE DEF w
<1>3. w \in Seq(Attempts) /\ DOMAIN w = 1 .. Len(s)
  <2>1. w \in [1 .. Len(s) -> Attempts]
    BY <1>1, <1>2
  <2> QED BY <1>1, <2>1
<1>4. \A i \in 1 .. Len(s) : w[i] = s[(Len(s) - i) + 1]
  BY <1>2
<1>5. ToSet(w) = ToSet(s)
  <2>1. ASSUME NEW i \in DOMAIN w
        PROVE  w[i] \in ToSet(s)
    BY <1>1, <1>2, <1>3, <1>4, <2>1 DEF ToSet
  <2>2. ASSUME NEW i \in DOMAIN s
        PROVE  s[i] \in ToSet(w)
    <3>1. (Len(s) - i) + 1 \in DOMAIN w /\ (Len(s) - ((Len(s) - i) + 1)) + 1 = i
      BY <1>1, <1>2, <1>3, <2>2
    <3>2. w[(Len(s) - i) + 1] = s[i]
      BY <1>3, <1>4, <3>1
    <3> QED BY <3>1, <3>2 DEF ToSet
  <2> QED BY <2>1, <2>2 DEF ToSet
<1>6. IsInjective(w)
  <2>1. ASSUME NEW i \in DOMAIN w, NEW j \in DOMAIN w, w[i] = w[j]
        PROVE  i = j
    <3>1. (Len(s) - i) + 1 = (Len(s) - j) + 1
      BY <1>1, <1>2, <1>3, <1>4, <2>1 DEF Line, IsInjective
    <3> QED BY <1>1, <1>3, <3>1
  <2> QED BY <2>1 DEF IsInjective
<1> QED BY <1>3, <1>5, <1>6 DEF w, Line

-----------------------------------------------------------------------------
HistoryRow == [loaded : BOOLEAN, list : Seq(Attempts), intact : BOOLEAN]
FetchRow   == [at : {"none", "sent", "served"}, list : Seq(Attempts), clean : BOOLEAN]
Entries    == {"none", "sending", "failed", "discarded", "sent"}

Typed ==
  /\ pc \in [Attempts -> States] /\ text \in [Attempts -> Texts \union {NoText}]
  /\ pending \in [Texts -> Entries] /\ connected \subseteq Users /\ active \in BOOLEAN
  /\ wire \in [Users -> Seq(Attempts)]
  /\ view \in [Users -> HistoryRow] /\ fetch \in [Users -> FetchRow]

Stored == ToSet(rows)

\* A row is one that an attempt inserted, and nobody else has its text.
RowsOK ==
  /\ Line(rows)
  /\ \A a \in Stored : pc[a] \notin {"new", "posted", "admitted"}
  /\ \A a, b \in Stored : text[a] = text[b] => a = b

\* What an attempt has got to on the server, and what the browser was told.
AttemptOK(a) ==
  /\ pc[a] = "new" <=> text[a] = NoText
  /\ pc[a] = "stored" => a \in Stored
  /\ pc[a] = "ok" => HasRow(text[a])

SentOK == \A t \in Texts : pending[t] = "sent" => HasRow(t)

\* A list lacks no message but those on their way to u.
Covers(u, list) ==
  \A a \in Stored : a \in ToSet(list) \union ToSet(wire[u]) \/ pc[a] = "stored"

WindowOK(u) ==
  /\ Line(wire[u]) /\ Line(view[u].list) /\ Line(fetch[u].list)
  /\ ToSet(wire[u]) \union ToSet(view[u].list) \union ToSet(fetch[u].list) \subseteq Stored
  /\ \A a \in ToSet(wire[u]) : pc[a] \in {"ok", "done"}
  /\ view[u].intact => u \in connected /\ view[u].loaded /\ Covers(u, view[u].list)
  /\ fetch[u].clean => u \in connected /\ Covers(u, fetch[u].list)

MInv ==
  /\ Typed /\ RowsOK /\ SentOK
  /\ \A a \in Attempts : AttemptOK(a)
  /\ \A u \in Users : WindowOK(u)

LEMMA StoredIn ==
  ASSUME RowsOK
  PROVE  Stored \subseteq Attempts
BY DEF RowsOK, Line, Stored, ToSet

\* A row keeps its text as long as it is a row.
LEMMA RowsStay ==
  ASSUME NEW t, HasRow(t), Stored \subseteq Stored', \A a \in Stored : text'[a] = text[a]
  PROVE  HasRow(t)'
BY DEF HasRow, Stored

(***************************************************************************)
(* An attempt moves on without a row or an event.                          *)
(***************************************************************************)
LEMMA AttemptMoves ==
  ASSUME MInv, NEW a \in Attempts, NEW to \in States \ {"new", "stored"},
         pc[a] \notin {"new", "stored"}, pc' = [pc EXCEPT ![a] = to],
         pc[a] \in {"ok", "done"} => to \in {"ok", "done"},
         to \in {"posted", "admitted"} => pc[a] \in {"posted", "admitted"},
         to = "ok" => HasRow(text[a]),
         pending' \in [Texts -> Entries], \A t \in Texts : pending'[t] = "sent" => HasRow(t),
         UNCHANGED <<server, text, socket, view, fetch>>
  PROVE  MInv'
<1> Typed /\ RowsOK /\ \A b \in Attempts : AttemptOK(b)
  BY DEF MInv
<1>1. UNCHANGED <<active, rows, text, connected, wire, view, fetch>> /\ Stored' = Stored
  BY DEF server, socket, Stored
<1>2. pc' \in [Attempts -> States] /\ pc'[a] = to /\ \A b \in Attempts \ {a} : pc'[b] = pc[b]
  BY DEF Typed
<1>3. Typed'
  BY <1>1, <1>2 DEF Typed
<1>4. Stored \subseteq Attempts /\ \A t : HasRow(t)' <=> HasRow(t)
  BY <1>1, StoredIn DEF HasRow
<1>5. RowsOK'
  BY <1>1, <1>2, <1>4 DEF RowsOK
<1>6. SentOK'
  BY <1>4 DEF SentOK
<1>7. ASSUME NEW b \in Attempts
      PROVE  AttemptOK(b)'
  BY <1>1, <1>2, <1>4 DEF AttemptOK
<1>8. ASSUME NEW u \in Users
      PROVE  WindowOK(u)'
  <2>1. WindowOK(u)
    BY DEF MInv
  <2>2. \A b \in Stored : /\ pc[b] = "stored" => pc'[b] = "stored"
                          /\ pc[b] \in {"ok", "done"} => pc'[b] \in {"ok", "done"}
    BY <1>2, <1>4
  <2>3. \A list : Covers(u, list) => Covers(u, list)'
    BY <1>1, <2>2 DEF Covers
  <2> QED BY <1>1, <2>1, <2>2, <2>3 DEF WindowOK
<1> QED BY <1>3, <1>5, <1>6, <1>7, <1>8 DEF MInv

LEMMA ServeMoves ==
  ASSUME MInv, NEW a \in Attempts,
         Admit(a) \/ Refuse(a) \/ Replay(a) \/ InsertFails(a) \/ AnswerError(a)
         \/ (Die(a) /\ pc[a] = "admitted") \/ (Answer(a) /\ a \notin waiting)
  PROVE  MInv'
<1>1. PICK to \in {"admitted", "error", "ok", "done"} :
        /\ pc' = [pc EXCEPT ![a] = to] /\ pc[a] \notin {"new", "stored"}
        /\ pc[a] \in {"ok", "done"} => to \in {"ok", "done"}
        /\ to \in {"posted", "admitted"} => pc[a] \in {"posted", "admitted"}
        /\ to = "ok" => HasRow(text[a])
  BY DEF Admit, Refuse, Replay, Replayed, InsertFails, AfterError, AnswerError, Die, Answer, Goto
<1>2. UNCHANGED <<server, text, socket, view, fetch>>
  BY DEF Admit, Refuse, Replay, InsertFails, AnswerError, Die, Answer, server, socket
<1>3. pending' = pending \/ pending' = [pending EXCEPT ![text[a]] = "failed"]
  BY DEF Admit, Refuse, Replay, InsertFails, AnswerError, Die, Answer
<1>4. pending' \in [Texts -> Entries] /\ \A t \in Texts : pending'[t] = "sent" => HasRow(t)
  BY <1>3 DEF MInv, Typed, SentOK, Entries
<1> QED BY <1>1, <1>2, <1>4, AttemptMoves DEF States

\* The browser begins, gives up or discards: no attempt moves but a new one.
LEMMA EntryMoves ==
  ASSUME MInv, UNCHANGED <<server, pc, text, socket, view, fetch>>,
         pending' \in [Texts -> Entries], \A t \in Texts : pending'[t] = "sent" => pending[t] = "sent"
  PROVE  MInv'
<1>1. UNCHANGED <<active, rows, pc, text, connected, wire, view, fetch>> /\ Stored' = Stored
  BY DEF server, socket, Stored
<1>2. Typed'
  BY <1>1 DEF MInv, Typed
<1>3. RowsOK' /\ (\A t : HasRow(t)' <=> HasRow(t))
  BY <1>1 DEF MInv, RowsOK, HasRow
<1>4. SentOK'
  BY <1>3 DEF MInv, SentOK
<1>5. \A a \in Attempts : AttemptOK(a)'
  BY <1>1, <1>3 DEF MInv, AttemptOK
<1>6. \A u \in Users : WindowOK(u)'
  BY <1>1 DEF MInv, WindowOK, Covers
<1> QED BY <1>2, <1>3, <1>4, <1>5, <1>6 DEF MInv

LEMMA Posts ==
  ASSUME MInv, NEW a \in Attempts, NEW t \in Texts, Post(a, t)
  PROVE  MInv'
<1> Typed /\ RowsOK /\ \A b \in Attempts : AttemptOK(b)
  BY DEF MInv
<1>1. /\ pc[a] = "new" /\ pc' = [pc EXCEPT ![a] = "posted"] /\ text' = [text EXCEPT ![a] = t]
      /\ pending' = [pending EXCEPT ![t] = "sending"]
      /\ UNCHANGED <<active, rows, connected, wire, view, fetch>> /\ Stored' = Stored
  BY DEF Post, Goto, server, socket, Stored
<1>2. /\ pc'[a] = "posted" /\ text'[a] = t
      /\ \A b \in Attempts \ {a} : pc'[b] = pc[b] /\ text'[b] = text[b]
  BY <1>1 DEF Typed
<1>3. Typed'
  <2>1. pc' \in [Attempts -> States] /\ text' \in [Attempts -> Texts \union {NoText}]
    BY <1>1 DEF Typed, States
  <2>2. pending' \in [Texts -> Entries]
    BY <1>1 DEF Typed, Entries
  <2> QED BY <1>1, <2>1, <2>2 DEF Typed
<1>4. a \notin Stored /\ Stored \subseteq Attempts
  BY <1>1, StoredIn DEF RowsOK
<1>5. /\ \A b \in Stored : pc'[b] = pc[b] /\ text'[b] = text[b]
      /\ \A w : HasRow(w)' <=> HasRow(w)
  BY <1>1, <1>2, <1>4 DEF HasRow, Stored
<1>6. RowsOK'
  BY <1>1, <1>5 DEF RowsOK
<1>7. SentOK'
  BY <1>1, <1>5 DEF MInv, SentOK, Typed
<1>8. ASSUME NEW b \in Attempts
      PROVE  AttemptOK(b)'
  BY <1>1, <1>2, <1>5, MessagingAssumption DEF AttemptOK
<1>9. ASSUME NEW u \in Users
      PROVE  WindowOK(u)'
  <2>1. WindowOK(u)
    BY DEF MInv
  <2>2. \A list : Covers(u, list) => Covers(u, list)'
    BY <1>1, <1>5 DEF Covers
  <2> QED BY <1>1, <1>5, <2>1, <2>2 DEF WindowOK
<1> QED BY <1>3, <1>6, <1>7, <1>8, <1>9 DEF MInv

-----------------------------------------------------------------------------
\* What a window keeps when the event of a message is lost.
LEMMA Gaps ==
  ASSUME Typed, NEW a \in Attempts, Missed(a)
  PROVE  /\ view' \in [Users -> HistoryRow] /\ fetch' \in [Users -> FetchRow]
         /\ \A u \in Users :
              /\ view'[u].list = view[u].list /\ view'[u].loaded = view[u].loaded
              /\ view'[u].intact => view[u].intact /\ a \in ToSet(view[u].list)
              /\ fetch'[u].list = fetch[u].list
              /\ fetch'[u].clean => fetch[u].clean /\ a \in ToSet(fetch[u].list)
<1> DEFINE whole(u) == view[u].intact /\ a \in ToSet(view[u].list)
           pure(u)  == fetch[u].clean /\ a \in ToSet(fetch[u].list)
<1>1. /\ view'  = [u \in Users |-> [view[u] EXCEPT !.intact = whole(u)]]
      /\ fetch' = [u \in Users |-> [fetch[u] EXCEPT !.clean = pure(u)]]
  BY DEF Missed
<1>2. \A u \in Users : whole(u) \in BOOLEAN /\ pure(u) \in BOOLEAN
  BY DEF whole, pure
<1>3. \A u \in Users : view[u] \in HistoryRow /\ fetch[u] \in FetchRow
  BY DEF Typed
<1>4. \A u \in Users : /\ whole(u) => view[u].intact /\ a \in ToSet(view[u].list)
                       /\ pure(u) => fetch[u].clean /\ a \in ToSet(fetch[u].list)
  BY DEF whole, pure
<1> HIDE DEF whole, pure
<1>5. ASSUME NEW u \in Users
      PROVE  /\ view'[u] \in HistoryRow /\ fetch'[u] \in FetchRow
             /\ view'[u].list = view[u].list /\ view'[u].loaded = view[u].loaded
             /\ view'[u].intact = whole(u)
             /\ fetch'[u].list = fetch[u].list /\ fetch'[u].clean = pure(u)
  <2>1. view'[u] = [view[u] EXCEPT !.intact = whole(u)] /\ fetch'[u] = [fetch[u] EXCEPT !.clean = pure(u)]
    BY <1>1
  <2>2. /\ [view[u] EXCEPT !.intact = whole(u)] \in HistoryRow
        /\ [fetch[u] EXCEPT !.clean = pure(u)] \in FetchRow
    BY <1>2, <1>3 DEF HistoryRow, FetchRow
  <2>3. /\ view'[u].list = view[u].list /\ view'[u].loaded = view[u].loaded
        /\ view'[u].intact = whole(u)
    BY <1>2, <1>3, <2>1 DEF HistoryRow
  <2>4. fetch'[u].list = fetch[u].list /\ fetch'[u].clean = pure(u)
    BY <1>2, <1>3, <2>1 DEF FetchRow
  <2> QED BY <2>1, <2>2, <2>3, <2>4
<1>6. view' \in [Users -> HistoryRow] /\ fetch' \in [Users -> FetchRow]
  BY <1>1, <1>5
<1> QED BY <1>4, <1>5, <1>6

(***************************************************************************)
(* A request between its insert and its publication: the row appears, or   *)
(* its event is lost.                                                      *)
(***************************************************************************)
LEMMA RowMoves ==
  ASSUME MInv, NEW a \in Attempts, NEW to \in {"stored", "ok", "error"}, pc' = [pc EXCEPT ![a] = to],
         \/ pc[a] = "stored" /\ rows' = rows
         \/ pc[a] = "admitted" /\ ~Replayed(a) /\ rows' = Append(rows, a) /\ to # "ok",
         Missed(a) \/ (to = "stored" /\ UNCHANGED <<view, fetch>>),
         UNCHANGED <<active, text, pending, socket>>
  PROVE  MInv'
<1> Typed /\ RowsOK /\ (\A b \in Attempts : AttemptOK(b))
  BY DEF MInv
<1>1. UNCHANGED <<active, text, pending, connected, wire>>
  BY DEF socket
<1>2. pc' \in [Attempts -> States] /\ pc'[a] = to /\ \A b \in Attempts \ {a} : pc'[b] = pc[b]
  BY DEF Typed, States
<1>3. /\ view' \in [Users -> HistoryRow] /\ fetch' \in [Users -> FetchRow]
      /\ \A u \in Users :
           /\ view'[u].list = view[u].list /\ view'[u].loaded = view[u].loaded
           /\ view'[u].intact => view[u].intact /\ (to = "stored" \/ a \in ToSet(view[u].list))
           /\ fetch'[u].list = fetch[u].list
           /\ fetch'[u].clean => fetch[u].clean /\ (to = "stored" \/ a \in ToSet(fetch[u].list))
  <2>1. CASE Missed(a)
    BY <2>1, Gaps
  <2>2. CASE to = "stored" /\ UNCHANGED <<view, fetch>>
    BY <2>2 DEF Typed
  <2> QED BY <2>1, <2>2
<1>4. Typed'
  BY <1>1, <1>2, <1>3 DEF Typed
<1>5. /\ Line(rows') /\ Stored' = Stored \union {a} /\ Stored \subseteq Attempts
      /\ a \in Stored \/ ~Replayed(a)
  <2>1. CASE pc[a] = "stored"
    <3>1. a \in Stored /\ rows' = rows /\ Stored' = Stored
      BY <2>1 DEF AttemptOK, Stored
    <3> QED BY <3>1, StoredIn DEF RowsOK
  <2>2. CASE pc[a] = "admitted"
    <3>1. a \notin Stored /\ rows' = Append(rows, a) /\ ~Replayed(a)
      BY <2>2 DEF RowsOK
    <3>2. Line(Append(rows, a)) /\ ToSet(Append(rows, a)) = Stored \union {a}
      BY <3>1, Appended DEF RowsOK, Stored
    <3>3. Stored' = Stored \union {a}
      BY <3>1, <3>2 DEF Stored
    <3> QED BY <3>1, <3>2, <3>3, StoredIn
  <2> QED BY <2>1, <2>2
<1>6. \A t : HasRow(t) => HasRow(t)'
  BY <1>1, <1>5, RowsStay
<1>7. RowsOK'
  <2>1. ASSUME NEW b \in Stored', NEW c \in Stored', text'[b] = text'[c]
        PROVE  b = c
    <3>1. a \in Stored \/ \A d \in Stored : text[d] # text[a]
      BY <1>5 DEF Replayed, HasRow, Stored
    <3>2. \A d, e \in Stored : text[d] = text[e] => d = e
      BY DEF RowsOK
    <3> QED BY <1>1, <1>5, <2>1, <3>1, <3>2
  <2>2. \A b \in Stored' : pc'[b] \notin {"new", "posted", "admitted"}
    BY <1>2, <1>5 DEF RowsOK
  <2> QED BY <1>5, <2>1, <2>2 DEF RowsOK
<1>8. SentOK'
  BY <1>1, <1>6 DEF MInv, SentOK
<1>9. ASSUME NEW b \in Attempts
      PROVE  AttemptOK(b)'
  <2>1. b # a => pc'[b] = pc[b]
    BY <1>2
  <2>2. to = "ok" => HasRow(text[a])
    BY DEF AttemptOK, HasRow, Stored
  <2> QED BY <1>1, <1>2, <1>5, <1>6, <2>1, <2>2 DEF AttemptOK
<1>10. ASSUME NEW u \in Users
       PROVE  WindowOK(u)'
  <2>1. WindowOK(u)
    BY DEF MInv
  <2>2. \A list : Covers(u, list) /\ (to = "stored" \/ a \in ToSet(list)) => Covers(u, list)'
    BY <1>1, <1>2, <1>5 DEF Covers
  <2>3. \A b \in ToSet(wire[u]) : pc'[b] \in {"ok", "done"}
    BY <1>2, <1>5, <2>1 DEF WindowOK
  <2> QED BY <1>1, <1>3, <1>5, <2>1, <2>2, <2>3 DEF WindowOK
<1> QED BY <1>4, <1>7, <1>8, <1>9, <1>10 DEF MInv

-----------------------------------------------------------------------------
(***************************************************************************)
(* What changes at windows only: each of them stays as it should be.       *)
(***************************************************************************)
LEMMA WindowMoves ==
  ASSUME MInv, UNCHANGED <<rows, pc, text>>, active' \in BOOLEAN, connected' \subseteq Users,
         pending' \in [Texts -> Entries], \A t \in Texts : pending'[t] = "sent" => HasRow(t),
         wire' \in [Users -> Seq(Attempts)], view' \in [Users -> HistoryRow],
         fetch' \in [Users -> FetchRow], \A u \in Users : WindowOK(u)'
  PROVE  MInv'
<1>1. UNCHANGED <<rows, pc, text>> /\ Stored' = Stored
  BY DEF Stored
<1>2. Typed'
  BY <1>1 DEF MInv, Typed
<1>3. RowsOK' /\ (\A t : HasRow(t)' <=> HasRow(t))
  BY <1>1 DEF MInv, RowsOK, HasRow
<1>4. SentOK'
  BY <1>3 DEF SentOK
<1>5. \A a \in Attempts : AttemptOK(a)'
  BY <1>1, <1>3 DEF MInv, AttemptOK
<1> QED BY <1>2, <1>3, <1>4, <1>5 DEF MInv

LEMMA Publishes ==
  ASSUME MInv, NEW a \in Attempts, Publish(a)
  PROVE  MInv'
<1> Typed /\ RowsOK /\ (\A b \in Attempts : AttemptOK(b))
  BY DEF MInv
<1>1. /\ pc[a] = "stored" /\ pc' = [pc EXCEPT ![a] = "ok"]
      /\ wire' = [u \in Users |-> IF u \in connected THEN Append(wire[u], a) ELSE wire[u]]
      /\ UNCHANGED <<active, rows, text, pending, connected, view, fetch>> /\ Stored' = Stored
  BY DEF Publish, Goto, Recipients, Typed, server, Stored
<1>2. pc' \in [Attempts -> States] /\ pc'[a] = "ok" /\ \A b \in Attempts \ {a} : pc'[b] = pc[b]
  BY <1>1 DEF Typed, States
<1>3. a \in Stored /\ Stored \subseteq Attempts
  BY <1>1, StoredIn DEF AttemptOK
<1>4. ASSUME NEW u \in Users
      PROVE  /\ Line(wire'[u])
             /\ ToSet(wire'[u]) = ToSet(wire[u]) \union (IF u \in connected THEN {a} ELSE {})
  <2>1. WindowOK(u)
    BY DEF MInv
  <2>2. Line(wire[u]) /\ a \notin ToSet(wire[u])
    BY <1>1, <2>1 DEF WindowOK
  <2>3. CASE u \in connected
    <3>1. wire'[u] = Append(wire[u], a)
      BY <1>1, <2>3
    <3> QED BY <2>2, <2>3, <3>1, Appended
  <2>4. CASE u \notin connected
    <3>1. wire'[u] = wire[u]
      BY <1>1, <2>4
    <3> QED BY <2>2, <2>4, <3>1
  <2> QED BY <2>3, <2>4
<1>5. wire' \in [Users -> Seq(Attempts)]
  BY <1>1, <1>4 DEF Line
<1>6. Typed'
  BY <1>1, <1>2, <1>5 DEF Typed
<1>7. \A t : HasRow(t)' <=> HasRow(t)
  BY <1>1 DEF HasRow
<1>8. RowsOK'
  BY <1>1, <1>2, <1>3 DEF RowsOK
<1>9. SentOK'
  BY <1>1, <1>7 DEF MInv, SentOK
<1>10. ASSUME NEW b \in Attempts
       PROVE  AttemptOK(b)'
  <2>1. HasRow(text[a])
    BY <1>3 DEF HasRow, Stored
  <2> QED BY <1>1, <1>2, <1>3, <1>7, <2>1 DEF AttemptOK
<1>11. ASSUME NEW u \in Users
       PROVE  WindowOK(u)'
  <2>1. WindowOK(u)
    BY DEF MInv
  <2>2. \A list : u \in connected /\ Covers(u, list) => Covers(u, list)'
    BY <1>1, <1>2, <1>3, <1>4 DEF Covers
  <2>3. \A b \in ToSet(wire'[u]) : b \in Stored /\ pc'[b] \in {"ok", "done"}
    BY <1>2, <1>3, <1>4, <2>1 DEF WindowOK
  <2> QED BY <1>1, <1>4, <2>1, <2>2, <2>3 DEF WindowOK
<1> QED BY <1>6, <1>8, <1>9, <1>10, <1>11 DEF MInv

\* A message that the cache takes is stored, and no window has it twice.
LEMMA Cached ==
  ASSUME NEW h \in HistoryRow, Line(h.list), NEW m \in Attempts
  PROVE  /\ InCache(h, m) \in HistoryRow /\ Line(InCache(h, m).list)
         /\ InCache(h, m).loaded = h.loaded /\ InCache(h, m).intact = h.intact
         /\ ToSet(InCache(h, m).list) \subseteq ToSet(h.list) \union {m}
         /\ ToSet(h.list) \subseteq ToSet(InCache(h, m).list)
         /\ h.loaded => m \in ToSet(InCache(h, m).list)
<1>1. CASE h.loaded /\ m \notin ToSet(h.list)
  <2>1. InCache(h, m) = [h EXCEPT !.list = <<m>> \o @]
    BY <1>1 DEF InCache
  <2>2. Line(<<m>> \o h.list) /\ ToSet(<<m>> \o h.list) = ToSet(h.list) \union {m}
    BY <1>1, Fronted
  <2>3. <<m>> \o h.list \in Seq(Attempts)
    BY <2>2 DEF Line
  <2>4. /\ InCache(h, m) \in HistoryRow /\ InCache(h, m).list = <<m>> \o h.list
        /\ InCache(h, m).loaded = h.loaded /\ InCache(h, m).intact = h.intact
    BY <2>1, <2>3 DEF HistoryRow
  <2> QED BY <2>2, <2>4
<1>2. CASE ~(h.loaded /\ m \notin ToSet(h.list))
  <2>1. InCache(h, m) = h
    BY <1>2 DEF InCache
  <2> QED BY <1>2, <2>1
<1> QED BY <1>1, <1>2

LEMMA Answers ==
  ASSUME MInv, NEW a \in Attempts, Answer(a), a \in waiting
  PROVE  MInv'
<1> Typed /\ RowsOK /\ (\A b \in Attempts : AttemptOK(b)) /\ (\A w \in Users : WindowOK(w))
  BY DEF MInv
<1> DEFINE s == Sender(text[a])
           m == RowOf(text[a])
<1>1. /\ pc[a] = "ok" /\ pc' = [pc EXCEPT ![a] = "done"]
      /\ pending' = [pending EXCEPT ![text[a]] = "sent"]
      /\ view' = [view EXCEPT ![s] = InCache(@, m)]
      /\ UNCHANGED <<active, rows, text, connected, wire, fetch>> /\ Stored' = Stored
  BY DEF Answer, Goto, server, socket, Stored
<1>2. pc' \in [Attempts -> States] /\ pc'[a] = "done" /\ \A b \in Attempts \ {a} : pc'[b] = pc[b]
  BY <1>1 DEF Typed, States
<1>3. HasRow(text[a]) /\ m \in Stored /\ Stored \subseteq Attempts
  BY <1>1, StoredIn DEF AttemptOK, HasRow, RowOf, Stored
<1>4. text[a] \in Texts /\ s \in Users
  <2>1. text[a] \in Texts
    BY <1>1 DEF AttemptOK, Typed
  <2> QED BY <2>1 DEF Texts, Sender
<1> HIDE DEF s, m
<1>5. ASSUME NEW u \in Users
      PROVE  /\ view'[u] \in HistoryRow /\ Line(view'[u].list)
             /\ view'[u].loaded = view[u].loaded /\ view'[u].intact = view[u].intact
             /\ ToSet(view'[u].list) \subseteq ToSet(view[u].list) \union {m}
             /\ ToSet(view[u].list) \subseteq ToSet(view'[u].list)
  <2>1. view[u] \in HistoryRow /\ Line(view[u].list) /\ m \in Attempts
    BY <1>3 DEF Typed, WindowOK
  <2>2. view'[u] = view[u] \/ view'[u] = InCache(view[u], m)
    BY <1>1, <1>4 DEF Typed
  <2>3. CASE view'[u] = view[u]
    BY <2>1, <2>3
  <2>4. CASE view'[u] = InCache(view[u], m)
    <3>1. /\ InCache(view[u], m) \in HistoryRow /\ Line(InCache(view[u], m).list)
          /\ InCache(view[u], m).loaded = view[u].loaded
          /\ InCache(view[u], m).intact = view[u].intact
          /\ ToSet(InCache(view[u], m).list) \subseteq ToSet(view[u].list) \union {m}
          /\ ToSet(view[u].list) \subseteq ToSet(InCache(view[u], m).list)
      BY <2>1, Cached
    <3> QED BY <2>4, <3>1
  <2> QED BY <2>2, <2>3, <2>4
<1>6. view' \in [Users -> HistoryRow]
  BY <1>1, <1>5 DEF Typed
<1>7. pending' \in [Texts -> Entries] /\ \A t \in Texts : pending'[t] = "sent" => HasRow(t)
  BY <1>1, <1>3 DEF MInv, Typed, SentOK, Entries
<1>8. Typed'
  BY <1>1, <1>2, <1>6, <1>7 DEF Typed
<1>9. \A t : HasRow(t)' <=> HasRow(t)
  BY <1>1 DEF HasRow
<1>10. RowsOK'
  BY <1>1, <1>2, <1>3 DEF RowsOK
<1>11. SentOK'
  BY <1>7, <1>9 DEF SentOK
<1>12. ASSUME NEW b \in Attempts
       PROVE  AttemptOK(b)'
  BY <1>1, <1>2, <1>9 DEF AttemptOK
<1>13. ASSUME NEW u \in Users
       PROVE  WindowOK(u)'
  <2>1. WindowOK(u)
    OBVIOUS
  <2>2. \A list : Covers(u, list) => Covers(u, list)'
    BY <1>1, <1>2, <1>3 DEF Covers
  <2>3. Covers(u, view[u].list) => Covers(u, view'[u].list)
    BY <1>5 DEF Covers
  <2>4. \A b \in ToSet(wire[u]) : pc'[b] \in {"ok", "done"}
    BY <1>2, <1>3, <2>1 DEF WindowOK
  <2>5. Covers(u, view'[u].list) => Covers(u, view[u].list)'
    BY <1>1, <1>2, <1>3 DEF Covers
  <2> QED BY <1>1, <1>3, <1>5, <2>1, <2>2, <2>3, <2>4, <2>5 DEF WindowOK
<1> QED BY <1>8, <1>10, <1>11, <1>12, <1>13 DEF MInv

(***************************************************************************)
(* The history request of a window.                                        *)
(***************************************************************************)
LEMMA Fetches ==
  ASSUME MInv, NEW u \in Users, Ask(u) \/ History(u) \/ HistoryFails(u) \/ Show(u)
  PROVE  MInv'
<1> Typed /\ RowsOK /\ SentOK /\ (\A w \in Users : WindowOK(w))
  BY DEF MInv
<1>1. UNCHANGED <<active, rows, pc, text, pending, connected, wire>> /\ Stored' = Stored
  BY DEF Ask, History, HistoryFails, Show, server, attempt, socket, Stored
<1>2. /\ view[u] \in HistoryRow /\ fetch[u] \in FetchRow
      /\ Line(<<>>) /\ ToSet(<<>>) = {} /\ <<>> \in Seq(Attempts)
  BY DEF Typed, Line, IsInjective, ToSet
<1>3. /\ view' = [view EXCEPT ![u] = view'[u]] /\ fetch' = [fetch EXCEPT ![u] = fetch'[u]]
      /\ view'[u] \in HistoryRow /\ fetch'[u] \in FetchRow
      /\ Line(view'[u].list) /\ Line(fetch'[u].list)
      /\ ToSet(view'[u].list) \union ToSet(fetch'[u].list) \subseteq Stored
      /\ view'[u].intact => u \in connected /\ view'[u].loaded /\ Covers(u, view'[u].list)
      /\ fetch'[u].clean => u \in connected /\ Covers(u, fetch'[u].list)
  <2>1. WindowOK(u)
    OBVIOUS
  <2>2. CASE Ask(u)
    <3>1. view' = view /\ fetch' = [fetch EXCEPT ![u].at = "sent"]
      BY <2>2 DEF Ask
    <3>2. fetch'[u] = [fetch[u] EXCEPT !.at = "sent"]
      BY <3>1 DEF Typed
    <3>3. fetch'[u] \in FetchRow /\ fetch'[u].list = fetch[u].list /\ fetch'[u].clean = fetch[u].clean
      BY <1>2, <3>2 DEF FetchRow
    <3>4. view' = [view EXCEPT ![u] = view'[u]] /\ fetch' = [fetch EXCEPT ![u] = fetch'[u]]
      BY <3>1, <3>2 DEF Typed
    <3> QED BY <1>2, <2>1, <3>1, <3>3, <3>4 DEF WindowOK
  <2>3. CASE History(u)
    <3>1. /\ view' = view
          /\ fetch' = [fetch EXCEPT ![u] = [at |-> "served", list |-> Reverse(rows),
                                            clean |-> u \in connected]]
      BY <2>3 DEF History
    <3>2. Line(Reverse(rows)) /\ ToSet(Reverse(rows)) = Stored
      BY Reversed DEF RowsOK, Stored
    <3> DEFINE list == Reverse(rows)
               clean == u \in connected
    <3>3. clean \in BOOLEAN /\ list \in Seq(Attempts)
      BY <3>2 DEF clean, Line
    <3>4. clean => u \in connected
      BY DEF clean
    <3>5. fetch'[u] = [at |-> "served", list |-> list, clean |-> clean]
      BY <3>1 DEF Typed
    <3> HIDE DEF list, clean
    <3>6. fetch'[u] \in FetchRow /\ fetch'[u].list = list /\ fetch'[u].clean = clean
      BY <3>3, <3>5 DEF FetchRow
    <3>7. view' = [view EXCEPT ![u] = view'[u]] /\ fetch' = [fetch EXCEPT ![u] = fetch'[u]]
      BY <3>1, <3>5 DEF Typed
    <3>8. Line(list) /\ ToSet(list) = Stored /\ Covers(u, list)
      BY <3>2 DEF list, Covers
    <3> QED BY <1>2, <2>1, <3>1, <3>4, <3>6, <3>7, <3>8 DEF WindowOK
  <2>4. CASE HistoryFails(u)
    <3>1. view' = view /\ fetch' = [fetch EXCEPT ![u] = NoFetch]
      BY <2>4 DEF HistoryFails
    <3>2. fetch'[u] = NoFetch /\ NoFetch \in FetchRow /\ NoFetch.list = <<>> /\ ~NoFetch.clean
      BY <1>2, <3>1 DEF Typed, NoFetch, FetchRow
    <3>3. view' = [view EXCEPT ![u] = view'[u]] /\ fetch' = [fetch EXCEPT ![u] = fetch'[u]]
      BY <3>1, <3>2 DEF Typed
    <3> QED BY <1>2, <2>1, <3>1, <3>2, <3>3 DEF WindowOK
  <2>5. CASE Show(u)
    <3>1. /\ view' = [view EXCEPT ![u] = [loaded |-> TRUE, list |-> fetch[u].list,
                                         intact |-> fetch[u].clean]]
          /\ fetch' = [fetch EXCEPT ![u] = NoFetch]
      BY <2>5 DEF Show
    <3>2. fetch'[u] = NoFetch /\ NoFetch \in FetchRow /\ NoFetch.list = <<>> /\ ~NoFetch.clean
      BY <1>2, <3>1 DEF Typed, NoFetch, FetchRow
    <3>3. fetch[u].list \in Seq(Attempts) /\ fetch[u].clean \in BOOLEAN
      BY <1>2 DEF FetchRow
    <3>4. view'[u] = [loaded |-> TRUE, list |-> fetch[u].list, intact |-> fetch[u].clean]
      BY <3>1 DEF Typed
    <3>5. /\ view'[u] \in HistoryRow /\ view'[u].list = fetch[u].list
          /\ view'[u].loaded /\ view'[u].intact = fetch[u].clean
      BY <3>3, <3>4 DEF HistoryRow
    <3>6. view' = [view EXCEPT ![u] = view'[u]] /\ fetch' = [fetch EXCEPT ![u] = fetch'[u]]
      BY <3>1, <3>2, <3>4 DEF Typed
    <3> QED BY <1>2, <2>1, <3>2, <3>5, <3>6 DEF WindowOK
  <2> QED BY <2>2, <2>3, <2>4, <2>5
<1>4. view' \in [Users -> HistoryRow] /\ fetch' \in [Users -> FetchRow]
  BY <1>3 DEF Typed
<1>5. ASSUME NEW w \in Users
      PROVE  WindowOK(w)'
  <2>1. WindowOK(w)
    OBVIOUS
  <2>2. \A list : Covers(w, list)' <=> Covers(w, list)
    BY <1>1 DEF Covers
  <2>3. w # u => view'[w] = view[w] /\ fetch'[w] = fetch[w]
    BY <1>3 DEF Typed
  <2>4. /\ (Covers(w, view'[w].list) => Covers(w, view[w].list)')
        /\ (Covers(w, fetch'[w].list) => Covers(w, fetch[w].list)')
    BY <1>1 DEF Covers
  <2>5. CASE w = u
    BY <1>1, <1>3, <2>1, <2>4, <2>5 DEF WindowOK
  <2>6. CASE w # u
    BY <1>1, <2>1, <2>3, <2>4, <2>6 DEF WindowOK
  <2> QED BY <2>5, <2>6
<1> QED BY <1>1, <1>4, <1>5, WindowMoves DEF Typed, SentOK

(***************************************************************************)
(* The socket of a window, and the end of the match.                       *)
(***************************************************************************)
LEMMA Receives ==
  ASSUME MInv, NEW u \in Users, Receive(u)
  PROVE  MInv'
<1> Typed /\ RowsOK /\ SentOK /\ (\A w \in Users : WindowOK(w))
  BY DEF MInv
<1> DEFINE m == Head(wire[u])
           pure == fetch[u].clean /\ m \in ToSet(fetch[u].list)
<1>1. /\ wire[u] # <<>>
      /\ view'  = [view EXCEPT ![u] = InCache(@, m)]
      /\ wire'  = [wire EXCEPT ![u] = Tail(@)]
      /\ fetch' = [fetch EXCEPT ![u].clean = pure]
      /\ UNCHANGED <<active, rows, pc, text, pending, connected>> /\ Stored' = Stored
  BY DEF Receive, server, attempt, Stored
<1>2. /\ Line(Tail(wire[u])) /\ m \in Attempts /\ ToSet(wire[u]) = ToSet(Tail(wire[u])) \union {m}
      /\ Tail(wire[u]) \in Seq(Attempts)
  BY <1>1, Shortened DEF WindowOK, Line
<1>3. pure \in BOOLEAN /\ (pure => fetch[u].clean /\ m \in ToSet(fetch[u].list))
  OBVIOUS
<1> HIDE DEF m, pure
<1>4. view[u] \in HistoryRow /\ fetch[u] \in FetchRow /\ Line(view[u].list) /\ WindowOK(u)
  BY DEF Typed, WindowOK
<1>5. /\ view'[u] = InCache(view[u], m) /\ wire'[u] = Tail(wire[u])
      /\ fetch'[u] = [fetch[u] EXCEPT !.clean = pure]
  BY <1>1 DEF Typed
<1>6. fetch'[u] \in FetchRow /\ fetch'[u].list = fetch[u].list /\ fetch'[u].clean = pure
  BY <1>3, <1>4, <1>5 DEF FetchRow
<1>7. /\ InCache(view[u], m) \in HistoryRow /\ Line(InCache(view[u], m).list)
      /\ InCache(view[u], m).loaded = view[u].loaded
      /\ InCache(view[u], m).intact = view[u].intact
      /\ ToSet(InCache(view[u], m).list) \subseteq ToSet(view[u].list) \union {m}
      /\ ToSet(view[u].list) \subseteq ToSet(InCache(view[u], m).list)
      /\ view[u].loaded => m \in ToSet(InCache(view[u], m).list)
  BY <1>2, <1>4, Cached
<1>8. \A w \in Users \ {u} : view'[w] = view[w] /\ wire'[w] = wire[w] /\ fetch'[w] = fetch[w]
  BY <1>1 DEF Typed
<1>9. /\ view' \in [Users -> HistoryRow] /\ wire' \in [Users -> Seq(Attempts)]
      /\ fetch' \in [Users -> FetchRow]
  <2>1. view' = [view EXCEPT ![u] = view'[u]] /\ fetch' = [fetch EXCEPT ![u] = fetch'[u]]
    BY <1>1, <1>5 DEF Typed
  <2> QED BY <1>1, <1>2, <1>5, <1>6, <1>7, <2>1 DEF Typed
<1>10. ASSUME NEW w \in Users
       PROVE  WindowOK(w)'
  <2>1. CASE w = u
    <3>1. ToSet(wire'[u]) \subseteq ToSet(wire[u]) /\ m \in ToSet(wire[u])
      BY <1>2, <1>5
    <3>2. view[u].loaded /\ Covers(u, view[u].list) => Covers(u, view[u].list)'
      BY <1>1, <1>2, <1>5, <1>7 DEF Covers
    <3>3. m \in ToSet(fetch[u].list) /\ Covers(u, fetch[u].list) => Covers(u, fetch[u].list)'
      BY <1>1, <1>2, <1>5, <1>6 DEF Covers
    <3>4. ToSet(view'[u].list) \subseteq Stored
      BY <1>4, <1>5, <1>7, <3>1 DEF WindowOK
    <3>5. view'[u].intact => u \in connected' /\ view'[u].loaded /\ Covers(u, view[u].list)'
      BY <1>1, <1>4, <1>5, <1>7, <3>2 DEF WindowOK
    <3>6. fetch'[u].clean => u \in connected' /\ Covers(u, fetch[u].list)'
      BY <1>1, <1>3, <1>4, <1>6, <3>3 DEF WindowOK
    <3>7. Line(wire'[u]) /\ Line(view'[u].list) /\ Line(fetch'[u].list)
      BY <1>2, <1>4, <1>5, <1>6, <1>7 DEF WindowOK
    <3>8. ToSet(wire'[u]) \union ToSet(view'[u].list) \union ToSet(fetch'[u].list) \subseteq Stored'
      BY <1>1, <1>4, <1>6, <3>1, <3>4 DEF WindowOK
    <3>9. \A b \in ToSet(wire'[u]) : pc'[b] \in {"ok", "done"}
      BY <1>1, <1>4, <3>1 DEF WindowOK
    <3> QED BY <2>1, <3>5, <3>6, <3>7, <3>8, <3>9 DEF WindowOK
  <2>2. CASE w # u
    <3>1. WindowOK(w)
      OBVIOUS
    <3>2. /\ (Covers(w, view[w].list) => Covers(w, view[w].list)')
          /\ (Covers(w, fetch[w].list) => Covers(w, fetch[w].list)')
      BY <1>1, <1>8, <2>2 DEF Covers
    <3> QED BY <1>1, <1>8, <2>2, <3>1, <3>2 DEF WindowOK
  <2> QED BY <2>1, <2>2
<1> QED BY <1>1, <1>9, <1>10, WindowMoves DEF Typed, SentOK

LEMMA Drops ==
  ASSUME MInv, NEW u \in Users, Drop(u)
  PROVE  MInv'
<1> Typed /\ RowsOK /\ SentOK /\ (\A w \in Users : WindowOK(w))
  BY DEF MInv
<1>1. /\ connected' = connected \ {u} /\ wire' = [wire EXCEPT ![u] = <<>>]
      /\ view' = [view EXCEPT ![u].intact = FALSE] /\ fetch' = [fetch EXCEPT ![u].clean = FALSE]
      /\ UNCHANGED <<active, rows, pc, text, pending>> /\ Stored' = Stored
  BY DEF Drop, server, attempt, Stored
<1>2. /\ view[u] \in HistoryRow /\ fetch[u] \in FetchRow /\ WindowOK(u)
      /\ Line(<<>>) /\ ToSet(<<>>) = {} /\ <<>> \in Seq(Attempts)
  BY DEF Typed, Line, IsInjective, ToSet
<1>3. /\ wire'[u] = <<>> /\ view'[u] = [view[u] EXCEPT !.intact = FALSE]
      /\ fetch'[u] = [fetch[u] EXCEPT !.clean = FALSE]
  BY <1>1 DEF Typed
<1>4. /\ view'[u] \in HistoryRow /\ fetch'[u] \in FetchRow
      /\ view'[u].list = view[u].list /\ ~view'[u].intact
      /\ fetch'[u].list = fetch[u].list /\ ~fetch'[u].clean
  BY <1>2, <1>3 DEF HistoryRow, FetchRow
<1>5. /\ view' \in [Users -> HistoryRow] /\ wire' \in [Users -> Seq(Attempts)]
      /\ fetch' \in [Users -> FetchRow]
  <2>1. view' = [view EXCEPT ![u] = view'[u]] /\ fetch' = [fetch EXCEPT ![u] = fetch'[u]]
    BY <1>1, <1>3 DEF Typed
  <2> QED BY <1>1, <1>2, <1>3, <1>4, <2>1 DEF Typed
<1>6. ASSUME NEW w \in Users
      PROVE  WindowOK(w)'
  <2>1. CASE w = u
    BY <1>1, <1>2, <1>3, <1>4, <2>1 DEF WindowOK
  <2>2. CASE w # u
    <3>1. view'[w] = view[w] /\ wire'[w] = wire[w] /\ fetch'[w] = fetch[w] /\ WindowOK(w)
      BY <1>1, <2>2 DEF Typed
    <3>2. /\ (Covers(w, view[w].list) => Covers(w, view[w].list)')
          /\ (Covers(w, fetch[w].list) => Covers(w, fetch[w].list)')
      BY <1>1, <3>1 DEF Covers
    <3> QED BY <1>1, <2>2, <3>1, <3>2 DEF WindowOK
  <2> QED BY <2>1, <2>2
<1>7. connected' \subseteq Users
  BY <1>1 DEF Typed
<1> QED BY <1>1, <1>5, <1>6, <1>7, WindowMoves DEF Typed, SentOK

LEMMA ConnectsOrCloses ==
  ASSUME MInv, (\E u \in Users : Connect(u)) \/ Close
  PROVE  MInv'
<1> Typed /\ RowsOK /\ SentOK /\ (\A w \in Users : WindowOK(w))
  BY DEF MInv
<1>1. /\ connected \subseteq connected' /\ connected' \subseteq Users /\ active' \in BOOLEAN
      /\ UNCHANGED <<rows, pc, text, pending, wire, view, fetch>> /\ Stored' = Stored
  BY DEF Connect, Close, Typed, server, attempt, socket, Stored
<1>2. ASSUME NEW w \in Users
      PROVE  WindowOK(w)'
  <2>1. WindowOK(w)
    OBVIOUS
  <2>2. /\ (Covers(w, view[w].list) => Covers(w, view[w].list)')
        /\ (Covers(w, fetch[w].list) => Covers(w, fetch[w].list)')
    BY <1>1 DEF Covers
  <2> QED BY <1>1, <2>1, <2>2 DEF WindowOK
<1> QED BY <1>1, <1>2, WindowMoves DEF Typed, SentOK
-----------------------------------------------------------------------------
LEMMA MStart == Init => MInv
<1> SUFFICES ASSUME Init PROVE MInv
  OBVIOUS
<1>1. Line(<<>>) /\ ToSet(<<>>) = {} /\ <<>> \in Seq(Attempts)
  BY DEF Line, IsInjective, ToSet
<1>2. /\ NoHistory \in HistoryRow /\ NoHistory.list = <<>> /\ ~NoHistory.intact
      /\ NoFetch \in FetchRow /\ NoFetch.list = <<>> /\ ~NoFetch.clean
  BY <1>1 DEF NoHistory, NoFetch, HistoryRow, FetchRow
<1>3. Stored = {}
  BY <1>1 DEF Init, Stored
<1>4. Typed
  BY <1>1, <1>2 DEF Init, Typed, States, Entries
<1>5. RowsOK /\ SentOK
  BY <1>1, <1>3 DEF Init, RowsOK, SentOK
<1>6. \A a \in Attempts : AttemptOK(a)
  BY DEF Init, AttemptOK
<1>7. ASSUME NEW u \in Users
      PROVE  WindowOK(u)
  <2>1. wire[u] = <<>> /\ view[u] = NoHistory /\ fetch[u] = NoFetch
    BY DEF Init
  <2> QED BY <1>1, <1>2, <2>1 DEF WindowOK
<1> QED BY <1>4, <1>5, <1>6, <1>7 DEF MInv

LEMMA MStep == MInv /\ [FailNext]_vars => MInv'
<1> SUFFICES ASSUME MInv, [FailNext]_vars PROVE MInv'
  OBVIOUS
<1>1. ASSUME NEW a \in Attempts, Serve(a) \/ InsertFails(a)
      PROVE  MInv'
  <2>1. CASE Admit(a) \/ Refuse(a) \/ Replay(a) \/ InsertFails(a) \/ AnswerError(a)
    BY <2>1, ServeMoves
  <2>2. CASE Insert(a)
    <3>1. /\ pc' = [pc EXCEPT ![a] = "stored"] /\ pc[a] = "admitted" /\ ~Replayed(a)
          /\ rows' = Append(rows, a) /\ UNCHANGED <<active, text, pending, socket, view, fetch>>
      BY <2>2 DEF Insert, Goto
    <3> QED BY <3>1, RowMoves
  <2>3. CASE Publish(a)
    BY <2>3, Publishes
  <2>4. CASE Answer(a)
    BY <2>4, Answers, ServeMoves
  <2> QED BY <1>1, <2>1, <2>2, <2>3, <2>4 DEF Serve
<1>2. ASSUME NEW a \in Attempts, InsertAnswerLost(a) \/ PublishFails(a) \/ Die(a)
      PROVE  MInv'
  <2>1. CASE InsertAnswerLost(a)
    <3>1. /\ pc' = [pc EXCEPT ![a] = "error"] /\ pc[a] = "admitted" /\ ~Replayed(a)
          /\ rows' = Append(rows, a) /\ Missed(a) /\ UNCHANGED <<active, text, pending, socket>>
      BY <2>1 DEF InsertAnswerLost, Goto, AfterError
    <3> QED BY <3>1, RowMoves
  <2>2. CASE PublishFails(a)
    <3>1. /\ pc' = [pc EXCEPT ![a] = "ok"] /\ pc[a] = "stored" /\ rows' = rows
          /\ Missed(a) /\ UNCHANGED <<active, text, pending, socket>>
      BY <2>2 DEF PublishFails, Goto, server
    <3> QED BY <3>1, RowMoves
  <2>3. CASE Die(a) /\ pc[a] = "stored"
    <3>1. /\ pc' = [pc EXCEPT ![a] = "error"] /\ rows' = rows
          /\ Missed(a) /\ UNCHANGED <<active, text, pending, socket>>
      BY <2>3 DEF Die, Goto, server
    <3> QED BY <2>3, <3>1, RowMoves
  <2>4. CASE Die(a) /\ pc[a] = "admitted"
    BY <2>4, ServeMoves
  <2> QED BY <1>2, <2>1, <2>2, <2>3, <2>4 DEF Die
<1>3. ASSUME NEW a \in Attempts, NEW t \in Texts, Send(a, t) \/ Retry(a, t)
      PROVE  MInv'
  BY <1>3, Posts DEF Send, Retry
<1>4. ASSUME (\E t \in Texts : Discard(t)) \/ (\E a \in Attempts : GiveUp(a))
      PROVE  MInv'
  <2>1. UNCHANGED <<server, pc, text, socket, view, fetch>>
    BY <1>4 DEF Discard, GiveUp
  <2>2. \E t : \/ pending' = [pending EXCEPT ![t] = "failed"]
               \/ pending' = [pending EXCEPT ![t] = "discarded"]
    BY <1>4 DEF Discard, GiveUp
  <2>3. /\ pending' \in [Texts -> Entries]
        /\ \A w \in Texts : pending'[w] = "sent" => pending[w] = "sent"
    BY <2>2 DEF MInv, Typed, Entries
  <2> QED BY <2>1, <2>3, EntryMoves
<1>5. ASSUME NEW u \in Users, Browse(u) \/ Ask(u) \/ History(u) \/ HistoryFails(u) \/ Drop(u)
      PROVE  MInv'
  BY <1>5, Fetches, Receives, Drops, ConnectsOrCloses DEF Browse
<1>6. CASE UNCHANGED vars
  <2>1. UNCHANGED <<active, rows, pc, text, pending, connected, wire, view, fetch>>
    BY <1>6 DEF vars, server, attempt, socket
  <2>2. \A u \in Users : WindowOK(u)'
    BY <2>1 DEF MInv, WindowOK, Covers, Stored
  <2> QED BY <2>1, <2>2, WindowMoves DEF MInv, Typed, SentOK
<1> QED BY <1>1, <1>2, <1>3, <1>4, <1>5, <1>6, ConnectsOrCloses DEF FailNext, Next

LEMMA MAlways == FailSpec => []MInv
BY MStart, MStep, PTL DEF FailSpec
-----------------------------------------------------------------------------
(***************************************************************************)
(* "A client can never see a message that does not exist": nothing is on a *)
(* wire, in an answer or in a window before its insert has taken effect.   *)
(***************************************************************************)
THEOREM NothingIsInvented == FailSpec => []ShownIsStored
<1>1. MInv => ShownIsStored
  BY DEF MInv, WindowOK, ShownIsStored, Stored
<1> QED BY <1>1, MAlways, PTL

(***************************************************************************)
(* A text is stored at most once over all its retries, and is stored if its*)
(* sender was told so.                                                     *)
(***************************************************************************)
THEOREM NonceSendsOnce == FailSpec => []SentOnce
<1>1. ASSUME MInv, NEW i \in DOMAIN rows, NEW j \in DOMAIN rows, text[rows[i]] = text[rows[j]]
      PROVE  i = j
  <2>1. rows[i] \in Stored /\ rows[j] \in Stored
    BY DEF Stored, ToSet
  <2>2. rows[i] = rows[j]
    BY <1>1, <2>1 DEF MInv, RowsOK
  <2> QED BY <1>1, <2>2 DEF MInv, RowsOK, Line, IsInjective
<1>2. MInv => SentOnce
  BY <1>1 DEF SentOnce, MInv, SentOK
<1> QED BY <1>2, MAlways, PTL

\* No window shows a message twice, and no wire carries one twice.
THEOREM ShownOnce == FailSpec => []NoDoubles
<1>1. MInv => NoDoubles
  BY DEF MInv, WindowOK, Line, NoDoubles
<1> QED BY <1>1, MAlways, PTL

(***************************************************************************)
(* A window that has lost nothing lacks no message but those on their way. *)
(***************************************************************************)
THEOREM LiveDeliveryIsComplete == FailSpec => []LiveViewComplete
<1>1. MInv => LiveViewComplete
  BY DEF MInv, WindowOK, Covers, Stored, LiveViewComplete
<1> QED BY <1>1, MAlways, PTL
-----------------------------------------------------------------------------
(***************************************************************************)
(* The types, and what a window waits for: an attempt it waits for is one  *)
(* that is under way, the only one of its text, and the text shows as      *)
(* being sent.  This is kept apart from MInv, which does not need it.      *)
(***************************************************************************)
Waits(t) == {a \in waiting : text[a] = t}

WaitOK ==
  /\ waiting \subseteq Attempts
  /\ \A a \in waiting : pc[a] \notin {"new", "done"}
  /\ \A a, b \in waiting : text[a] = text[b] => a = b
  /\ \A t \in Texts : pending[t] = "sending" <=> Waits(t) # {}

\* An attempt that leaves the browser, or is not one of it, changes no other.
LEMMA WaitLess ==
  ASSUME MInv, WaitOK, NEW a \in Attempts, text' = text, waiting' = waiting \ {a},
         \A b \in Attempts \ {a} : pc'[b] = pc[b],
         \/ a \notin waiting /\ pending' = pending
         \/ /\ a \in waiting
            /\ \E e \in {"failed", "sent"} : pending' = [pending EXCEPT ![text[a]] = e]
  PROVE  WaitOK'
<1>1. /\ waiting' \subseteq Attempts /\ \A b \in waiting' : pc'[b] \notin {"new", "done"}
      /\ \A b, c \in waiting' : text'[b] = text'[c] => b = c
  BY DEF WaitOK
<1>2. ASSUME NEW t \in Texts
      PROVE  pending'[t] = "sending" <=> Waits(t)' # {}
  <2>1. Waits(t)' = Waits(t) \ {a} /\ (pending[t] = "sending" <=> Waits(t) # {})
    BY DEF Waits, WaitOK
  <2>2. CASE a \notin waiting
    BY <2>1, <2>2 DEF Waits
  <2>3. CASE a \in waiting /\ text[a] = t
    <3>1. Waits(t) = {a}
      BY <2>3 DEF Waits, WaitOK
    <3>2. pending'[t] \in {"failed", "sent"}
      BY <2>3 DEF MInv, Typed
    <3> QED BY <2>1, <3>1, <3>2
  <2>4. CASE a \in waiting /\ text[a] # t
    <3>1. a \notin Waits(t) /\ pending'[t] = pending[t]
      BY <2>4 DEF Waits, MInv, Typed
    <3> QED BY <2>1, <3>1
  <2> QED BY <2>2, <2>3, <2>4
<1> QED BY <1>1, <1>2 DEF WaitOK

\* An attempt that stays under way, and everything that touches no attempt.
LEMMA WaitSame ==
  ASSUME WaitOK, UNCHANGED <<text, waiting>>,
         \A a \in waiting : pc'[a] \notin {"new", "done"},
         \A t \in Texts : pending'[t] = "sending" <=> pending[t] = "sending"
  PROVE  WaitOK'
<1>1. \A t : Waits(t)' = Waits(t)
  BY DEF Waits
<1> QED BY <1>1 DEF WaitOK

LEMMA WaitMore ==
  ASSUME MInv, WaitOK, NEW a \in Attempts, NEW t \in Texts, Send(a, t) \/ Retry(a, t)
  PROVE  WaitOK'
<1>1. /\ pc[a] = "new" /\ pc' = [pc EXCEPT ![a] = "posted"] /\ text' = [text EXCEPT ![a] = t]
      /\ waiting' = waiting \union {a} /\ pending' = [pending EXCEPT ![t] = "sending"]
  BY DEF Send, Retry, Post, Goto
<1>2. /\ pc'[a] = "posted" /\ text'[a] = t /\ a \notin waiting
      /\ \A b \in waiting : pc'[b] = pc[b] /\ text'[b] = text[b]
      /\ pending'[t] = "sending" /\ \A w \in Texts \ {t} : pending'[w] = pending[w]
  BY <1>1 DEF MInv, Typed, WaitOK
<1>3. \A b \in waiting : text[b] # t
  <2>1. CASE Send(a, t)
    BY <2>1 DEF Send, Started, WaitOK
  <2>2. CASE Retry(a, t)
    BY <2>2 DEF Retry, WaitOK, Waits
  <2> QED BY <2>1, <2>2
<1>4. /\ waiting' \subseteq Attempts /\ \A b \in waiting' : pc'[b] \notin {"new", "done"}
  BY <1>1, <1>2 DEF WaitOK
<1>5. \A b, c \in waiting' : text'[b] = text'[c] => b = c
  BY <1>1, <1>2, <1>3 DEF WaitOK
<1>6. ASSUME NEW w \in Texts
      PROVE  pending'[w] = "sending" <=> Waits(w)' # {}
  <2>1. Waits(w)' = IF w = t THEN {a} ELSE Waits(w)
    BY <1>1, <1>2, <1>3 DEF Waits
  <2> QED BY <1>2, <2>1 DEF WaitOK
<1> QED BY <1>4, <1>5, <1>6 DEF WaitOK

LEMMA WStep == MInv /\ WaitOK /\ [FailNext]_vars => WaitOK'
<1> SUFFICES ASSUME MInv, WaitOK, [FailNext]_vars PROVE WaitOK'
  OBVIOUS
<1> Typed /\ waiting \subseteq Attempts
  BY DEF MInv, WaitOK
<1>1. ASSUME NEW a \in Attempts,
             \/ Admit(a) \/ Refuse(a) \/ Insert(a) \/ Replay(a) \/ Publish(a)
             \/ InsertFails(a) \/ InsertAnswerLost(a) \/ PublishFails(a) \/ Die(a)
      PROVE  WaitOK'
  <2>1. /\ pc' = [pc EXCEPT ![a] = pc'[a]] /\ pc'[a] \notin {"new", "done"}
        /\ UNCHANGED <<text, waiting, pending>>
    BY <1>1 DEF Typed, Goto, Admit, Refuse, Insert, Replay, Publish, InsertFails, AfterError,
                InsertAnswerLost, PublishFails, Die
  <2>2. \A b \in waiting : pc'[b] \notin {"new", "done"}
    BY <2>1 DEF Typed, WaitOK
  <2> QED BY <2>1, <2>2, WaitSame
<1>2. ASSUME NEW a \in Attempts, Answer(a) \/ AnswerError(a) \/ GiveUp(a)
      PROVE  WaitOK'
  <2>1. text' = text /\ waiting' = waiting \ {a}
    BY <1>2 DEF Answer, AnswerError, GiveUp
  <2>2. \A b \in Attempts \ {a} : pc'[b] = pc[b]
    BY <1>2 DEF Answer, AnswerError, GiveUp, Goto, Typed
  <2>3. \/ a \notin waiting /\ pending' = pending
        \/ /\ a \in waiting
           /\ \E e \in {"failed", "sent"} : pending' = [pending EXCEPT ![text[a]] = e]
    BY <1>2 DEF Answer, AnswerError, GiveUp
  <2> QED BY <2>1, <2>2, <2>3, WaitLess
<1>3. ASSUME NEW a \in Attempts, NEW t \in Texts, Send(a, t) \/ Retry(a, t)
      PROVE  WaitOK'
  BY <1>3, WaitMore
<1>4. ASSUME NEW t \in Texts, Discard(t)
      PROVE  WaitOK'
  <2>1. UNCHANGED <<pc, text, waiting>>
    BY <1>4 DEF Discard
  <2>2. \A w \in Texts : pending'[w] = "sending" <=> pending[w] = "sending"
    BY <1>4 DEF Discard, Typed
  <2>3. \A a \in waiting : pc'[a] \notin {"new", "done"}
    BY <2>1 DEF WaitOK
  <2> QED BY <2>1, <2>2, <2>3, WaitSame
<1>5. ASSUME \/ \E u \in Users : Browse(u) \/ Ask(u) \/ History(u) \/ HistoryFails(u) \/ Drop(u)
             \/ Close \/ UNCHANGED vars
      PROVE  WaitOK'
  <2>1. UNCHANGED <<pc, text, waiting, pending>>
    BY <1>5 DEF Browse, Ask, History, HistoryFails, Drop, Show, Receive, Connect, Close, vars, attempt
  <2>2. \A a \in waiting : pc'[a] \notin {"new", "done"}
    BY <2>1 DEF WaitOK
  <2> QED BY <2>1, <2>2, WaitSame
<1> QED BY <1>1, <1>2, <1>3, <1>4, <1>5 DEF FailNext, Next, Serve

LEMMA WAlways == FailSpec => []WaitOK
<1>1. Init => WaitOK
  BY DEF Init, WaitOK, Waits
<1> QED BY <1>1, MAlways, WStep, PTL DEF FailSpec

LEMMA WaitsForOne ==
  ASSUME WaitOK, NEW t \in Texts
  PROVE  Cardinality({a \in waiting : text[a] = t}) = (IF pending[t] = "sending" THEN 1 ELSE 0)
<1>1. CASE pending[t] = "sending"
  <2>1. PICK a : a \in Waits(t)
    BY <1>1 DEF WaitOK
  <2>2. {b \in waiting : text[b] = t} = {a}
    BY <2>1 DEF WaitOK, Waits
  <2> QED BY <1>1, <2>2, FS_Singleton
<1>2. CASE pending[t] # "sending"
  <2>1. {b \in waiting : text[b] = t} = {}
    BY <1>2 DEF WaitOK, Waits
  <2> QED BY <1>2, <2>1, FS_EmptySet
<1> QED BY <1>1, <1>2

(***************************************************************************)
(* The types, and that the window of a sender waits for one attempt of a   *)
(* text at most, and only while it shows the text as being sent.           *)
(***************************************************************************)
THEOREM MessagingTyped == FailSpec => []TypeOK
<1>1. MInv /\ WaitOK => TypeOK
  <2> SUFFICES ASSUME MInv, WaitOK PROVE TypeOK
    OBVIOUS
  <2>1. Typed /\ waiting \subseteq Attempts /\ Stored \subseteq Attempts
    BY StoredIn DEF MInv, WaitOK
  <2>2. ASSUME NEW u \in Users
        PROVE  /\ ToSet(wire[u]) \subseteq Attempts
               /\ ToSet(view[u].list) \union ToSet(fetch[u].list) \subseteq Attempts
               /\ view[u].loaded \in BOOLEAN /\ view[u].intact \in BOOLEAN
               /\ fetch[u].at \in {"none", "sent", "served"} /\ fetch[u].clean \in BOOLEAN
    BY <2>1 DEF MInv, WindowOK, Typed, HistoryRow, FetchRow
  <2>3. \A a \in Attempts : pc[a] = "new" <=> text[a] = NoText
    BY DEF MInv, AttemptOK
  <2> QED BY <2>1, <2>2, <2>3, WaitsForOne DEF TypeOK, Typed, Entries, Stored
<1> QED BY <1>1, MAlways, WAlways, PTL
=============================================================================
