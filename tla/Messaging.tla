----------------------------- MODULE Messaging -----------------------------
(***************************************************************************)
(* The messages of one match, from the window that sends them to the       *)
(* windows that show them: the POST of messaging.Service, the insert keyed *)
(* by (sender, client_nonce), the publication that follows it, the socket  *)
(* of each participant, and the cached history of a ChatWindow, which the  *)
(* socket, the answers of its own POSTs and the history request all write. *)
(*                                                                         *)
(* The hub and its queues are in Hub; here a socket is a queue of events   *)
(* that is lost as a whole with its connection.  One page holds the        *)
(* history of the model.                                                   *)
(***************************************************************************)
EXTENDS Sequences, SequencesExt

CONSTANTS
  Users,      \* the two participants of the match
  Nonces,     \* client nonces each of them may draw
  Attempts,   \* POST requests, each with the id it may give a message
  NoText

Texts == Users \X Nonces        \* (sender_id, client_nonce)
ASSUME MessagingAssumption == NoText \notin Texts

VARIABLES
  active,     \* the match is active and nobody has blocked the other
  rows,       \* table messages: the attempts that inserted one, by created_at
  pc, text,   \* each attempt: where it is and what it sends
  waiting,    \* the attempts whose answer the browser still waits for
  pending,    \* the entry of a text in the window of its sender
  connected,  \* the users whose socket is open
  wire,       \* the events on their way to a user, oldest first
  view,       \* the cached history of a user, newest first
  fetch       \* the history request of a user

server  == <<active, rows>>
attempt == <<pc, text, waiting, pending>>
socket  == <<connected, wire>>
vars    == <<server, attempt, socket, view, fetch>>

States == {"new", "posted", "admitted", "stored", "ok", "error", "done"}

NoHistory == [loaded |-> FALSE, list |-> <<>>, intact |-> FALSE]
NoFetch   == [at |-> "none", list |-> <<>>, clean |-> FALSE]
-----------------------------------------------------------------------------
Sender(t)  == t[1]
Started(t) == \E a \in Attempts : text[a] = t
HasRow(t)  == \E a \in ToSet(rows) : text[a] = t
RowOf(t)   == CHOOSE a \in ToSet(rows) : text[a] = t

Init ==
  /\ active    = TRUE
  /\ rows      = <<>>
  /\ pc        = [a \in Attempts |-> "new"]
  /\ text      = [a \in Attempts |-> NoText]
  /\ waiting   = {}
  /\ pending   = [t \in Texts |-> "none"]
  /\ connected = {}
  /\ wire      = [u \in Users |-> <<>>]
  /\ view      = [u \in Users |-> NoHistory]
  /\ fetch     = [u \in Users |-> NoFetch]

Goto(a, l) == pc' = [pc EXCEPT ![a] = l]

(***************************************************************************)
(* useSendMessage: a text gets its nonce once, and a retry posts it again  *)
(* with the same one.                                                      *)
(***************************************************************************)
Post(a, t) ==
  /\ pc[a] = "new"
  /\ Goto(a, "posted")
  /\ text'    = [text EXCEPT ![a] = t]
  /\ waiting' = waiting \union {a}
  /\ pending' = [pending EXCEPT ![t] = "sending"]
  /\ UNCHANGED <<server, socket, view, fetch>>

Send(a, t)  == ~Started(t) /\ Post(a, t)
Retry(a, t) == pending[t] = "failed" /\ Post(a, t)

Discard(t) ==
  /\ pending[t] = "failed"
  /\ pending' = [pending EXCEPT ![t] = "discarded"]
  /\ UNCHANGED <<server, pc, text, waiting, socket, view, fetch>>

GiveUp_StillWaiting(a) ==                               \* mutant
  /\ a \in waiting
  /\ pending' = [pending EXCEPT ![text[a]] = "failed"]
  /\ UNCHANGED <<server, pc, text, waiting, socket, view, fetch>>

\* fetch rejects in the browser; the server goes on with what it has received.
GiveUp(a) ==
  /\ a \in waiting
  /\ waiting' = waiting \ {a}
  /\ pending' = [pending EXCEPT ![text[a]] = "failed"]
  /\ UNCHANGED <<server, pc, text, socket, view, fetch>>
-----------------------------------------------------------------------------
(***************************************************************************)
(* SendText.  admit looks at the match; the rate limiter may refuse too.   *)
(***************************************************************************)
Admit(a) ==
  /\ pc[a] = "posted"
  /\ active
  /\ Goto(a, "admitted")
  /\ UNCHANGED <<server, text, waiting, pending, socket, view, fetch>>

Refuse(a) ==
  /\ pc[a] = "posted"
  /\ Goto(a, "error")
  /\ UNCHANGED <<server, text, waiting, pending, socket, view, fetch>>

Replayed_Never(a) == FALSE                              \* mutant
Replayed(a) == HasRow(text[a])

\* A message whose event nobody will get: the windows that lack it have a gap.
Missed(a) ==
  /\ view'  = [u \in Users |-> [view[u] EXCEPT !.intact = @ /\ a \in ToSet(view[u].list)]]
  /\ fetch' = [u \in Users |-> [fetch[u] EXCEPT !.clean = @ /\ a \in ToSet(fetch[u].list)]]

\* InsertMessage: ON CONFLICT (sender_id, client_nonce) DO NOTHING ...
Insert(a) ==
  /\ pc[a] = "admitted"
  /\ ~Replayed(a)
  /\ rows' = Append(rows, a)
  /\ Goto(a, "stored")
  /\ UNCHANGED <<active, text, waiting, pending, socket, view, fetch>>

\* ... and then GetMessageByNonce finds the row, which stays.
Replay(a) ==
  /\ pc[a] = "admitted"
  /\ Replayed(a)
  /\ Goto(a, "ok")
  /\ UNCHANGED <<server, text, waiting, pending, socket, view, fetch>>

\* Where an error of Send leaves the request: nothing is published.
AfterError_Ignored == "stored"                          \* mutant
AfterError == "error"

InsertFails(a) ==
  /\ pc[a] = "admitted"
  /\ Goto(a, AfterError)
  /\ UNCHANGED <<server, text, waiting, pending, socket, view, fetch>>

\* The insert took effect, but its answer does not reach the program.
InsertAnswerLost(a) ==
  /\ pc[a] = "admitted"
  /\ ~Replayed(a)
  /\ rows' = Append(rows, a)
  /\ Goto(a, AfterError)
  /\ Missed(a)
  /\ UNCHANGED <<active, text, waiting, pending, socket>>

\* Both participants, so that every window of the sender hears of it too.
Recipients_PeerOnly(a) == Users \ {Sender(text[a])}    \* mutant
Recipients(a) == Users

Publish(a) ==
  /\ pc[a] = "stored"
  /\ Goto(a, "ok")
  /\ wire' = [u \in Users |-> IF u \in connected \intersect Recipients(a)
                              THEN Append(wire[u], a) ELSE wire[u]]
  /\ UNCHANGED <<server, text, waiting, pending, connected, view, fetch>>

\* The error of Publish is ignored: the message is durable.
PublishFails(a) ==
  /\ pc[a] = "stored"
  /\ Goto(a, "ok")
  /\ Missed(a)
  /\ UNCHANGED <<server, text, waiting, pending, socket>>

\* The process of the request dies; the browser sees its connection break.
Die(a) ==
  /\ pc[a] \in {"admitted", "stored"}
  /\ Goto(a, "error")
  /\ IF pc[a] = "stored" THEN Missed(a) ELSE UNCHANGED <<view, fetch>>
  /\ UNCHANGED <<server, text, waiting, pending, socket>>
-----------------------------------------------------------------------------
\* insertMessageInCache: nothing without a page, nothing twice.
InCache_Unchecked(h, m) ==                              \* mutant
  IF h.loaded THEN [h EXCEPT !.list = <<m>> \o @] ELSE h

InCache(h, m) ==
  IF h.loaded /\ m \notin ToSet(h.list) THEN [h EXCEPT !.list = <<m>> \o @] ELSE h

\* The answer of a POST, if the browser still waits for it.
Answer(a) ==
  /\ pc[a] = "ok"
  /\ Goto(a, "done")
  /\ waiting' = waiting \ {a}
  /\ IF a \in waiting
     THEN /\ pending' = [pending EXCEPT ![text[a]] = "sent"]
          /\ view' = [view EXCEPT ![Sender(text[a])] = InCache(@, RowOf(text[a]))]
     ELSE UNCHANGED <<pending, view>>
  /\ UNCHANGED <<server, text, socket, fetch>>

AnswerError(a) ==
  /\ pc[a] = "error"
  /\ Goto(a, "done")
  /\ waiting' = waiting \ {a}
  /\ pending' = IF a \in waiting THEN [pending EXCEPT ![text[a]] = "failed"] ELSE pending
  /\ UNCHANGED <<server, text, socket, view, fetch>>

(***************************************************************************)
(* The history: useInfiniteQuery asks when a window opens on a history that*)
(* is absent or stale, and its answer replaces what was cached meanwhile.  *)
(***************************************************************************)
Ask(u) ==
  /\ fetch[u].at = "none"
  /\ fetch' = [fetch EXCEPT ![u].at = "sent"]
  /\ UNCHANGED <<server, attempt, socket, view>>

History(u) ==
  /\ fetch[u].at = "sent"
  /\ active
  /\ fetch' = [fetch EXCEPT ![u] = [at |-> "served", list |-> Reverse(rows),
                                    clean |-> u \in connected]]
  /\ UNCHANGED <<server, attempt, socket, view>>

HistoryFails(u) ==
  /\ fetch[u].at # "none"
  /\ fetch' = [fetch EXCEPT ![u] = NoFetch]
  /\ UNCHANGED <<server, attempt, socket, view>>

Show(u) ==
  /\ fetch[u].at = "served"
  /\ view'  = [view EXCEPT ![u] = [loaded |-> TRUE, list |-> fetch[u].list,
                                   intact |-> fetch[u].clean]]
  /\ fetch' = [fetch EXCEPT ![u] = NoFetch]
  /\ UNCHANGED <<server, attempt, socket>>
-----------------------------------------------------------------------------
\* handleEvent: a message goes into the cache; a served history may lack it.
Receive(u) ==
  /\ wire[u] # <<>>
  /\ view'  = [view EXCEPT ![u] = InCache(@, Head(wire[u]))]
  /\ wire'  = [wire EXCEPT ![u] = Tail(@)]
  /\ fetch' = [fetch EXCEPT ![u].clean = @ /\ Head(wire[u]) \in ToSet(fetch[u].list)]
  /\ UNCHANGED <<server, attempt, connected>>

\* A connection is lost with everything that was on its way.
Drop(u) ==
  /\ u \in connected
  /\ connected' = connected \ {u}
  /\ wire'  = [wire EXCEPT ![u] = <<>>]
  /\ view'  = [view EXCEPT ![u].intact = FALSE]
  /\ fetch' = [fetch EXCEPT ![u].clean = FALSE]
  /\ UNCHANGED <<server, attempt>>

\* RealtimeSocket, with a new ticket; the "ready" event is ignored.
Connect(u) ==
  /\ u \notin connected
  /\ connected' = connected \union {u}
  /\ UNCHANGED <<server, attempt, wire, view, fetch>>

\* Unmatch or block: nobody is told, no "conversation_closed" is ever sent.
Close ==
  /\ active
  /\ active' = FALSE
  /\ UNCHANGED <<rows, attempt, socket, view, fetch>>
-----------------------------------------------------------------------------
Serve(a) ==
  \/ Admit(a) \/ Refuse(a) \/ Insert(a) \/ Replay(a) \/ Publish(a)
  \/ Answer(a) \/ AnswerError(a)

Browse(u) == Show(u) \/ Receive(u) \/ Connect(u)

Next ==
  \/ \E a \in Attempts : Serve(a)
  \/ \E a \in Attempts, t \in Texts : Send(a, t) \/ Retry(a, t)
  \/ \E t \in Texts : Discard(t)
  \/ \E a \in Attempts : GiveUp(a)
  \/ \E u \in Users : Browse(u) \/ Ask(u) \/ History(u) \/ HistoryFails(u) \/ Drop(u)
  \/ Close

FailNext ==
  \/ Next
  \/ \E a \in Attempts : InsertFails(a) \/ InsertAnswerLost(a) \/ PublishFails(a) \/ Die(a)

Spec     == Init /\ [][Next]_vars
FailSpec == Init /\ [][FailNext]_vars

(***************************************************************************)
(* The server works off what it receives, and an open window handles its   *)
(* events and reconnects for ever.  That a user opens the conversation     *)
(* again, retries or sends anything is not assumed.                        *)
(***************************************************************************)
FairSpec ==
  /\ FailSpec
  /\ \A a \in Attempts : WF_vars(Serve(a))
  /\ \A u \in Users : WF_vars(Browse(u)) /\ WF_vars(History(u) \/ HistoryFails(u))
-----------------------------------------------------------------------------
(***************************************************************************)
(* The types, and that the window of a sender waits for one attempt of a   *)
(* text at most, and only while it shows the text as being sent.           *)
(***************************************************************************)
TypeOK ==
  /\ active \in BOOLEAN
  /\ ToSet(rows) \subseteq Attempts
  /\ pc \in [Attempts -> States]
  /\ text \in [Attempts -> Texts \union {NoText}]
  /\ waiting \subseteq Attempts
  /\ pending \in [Texts -> {"none", "sending", "failed", "discarded", "sent"}]
  /\ connected \subseteq Users
  /\ \A u \in Users : /\ ToSet(wire[u]) \subseteq Attempts
                      /\ ToSet(view[u].list) \union ToSet(fetch[u].list) \subseteq Attempts
                      /\ view[u].loaded \in BOOLEAN /\ view[u].intact \in BOOLEAN
                      /\ fetch[u].at \in {"none", "sent", "served"} /\ fetch[u].clean \in BOOLEAN
  /\ \A a \in Attempts : pc[a] = "new" <=> text[a] = NoText
  /\ \A t \in Texts :
       Cardinality({a \in waiting : text[a] = t}) = (IF pending[t] = "sending" THEN 1 ELSE 0)

(***************************************************************************)
(* SendText: "a client can never see a message that does not exist".  What *)
(* is on a wire, in an answer or in a window is a stored message, whatever *)
(* failed on its way.                                                      *)
(***************************************************************************)
ShownIsStored ==
  \A u \in Users :
    ToSet(wire[u]) \union ToSet(view[u].list) \union ToSet(fetch[u].list) \subseteq ToSet(rows)

(***************************************************************************)
(* The nonce makes a send idempotent: a text is stored at most once, over  *)
(* every retry, also one that overtakes the attempt it repeats, and is     *)
(* stored if its sender was told so.                                       *)
(***************************************************************************)
SentOnce ==
  \A t \in Texts :
    /\ \A i, j \in DOMAIN rows : text[rows[i]] = t /\ text[rows[j]] = t => i = j
    /\ pending[t] = "sent" => HasRow(t)

(***************************************************************************)
(* A window never shows a message twice, although it may get it from the   *)
(* history, from its POST and from the socket; and a replay does not push a*)
(* message again that is on its way to a peer.                             *)
(***************************************************************************)
NoDoubles == \A u \in Users : IsInjective(view[u].list) /\ IsInjective(wire[u])

(***************************************************************************)
(* What live delivery is worth: a window misses no message, but for those  *)
(* on their way, as long as its history was read while the socket was open,*)
(* no connection and no publication it depended on failed since, and no    *)
(* event overtook the history it was waiting for.                          *)
(***************************************************************************)
LiveViewComplete ==
  \A u \in Users : view[u].intact =>
    \A a \in ToSet(rows) : \/ a \in ToSet(view[u].list) \union ToSet(wire[u])
                           \/ pc[a] = "stored"

(***************************************************************************)
(* SendText: "Losing the fan-out only costs live delivery, which the client*)
(* recovers over HTTP from its last cursor".  An open window that ends up  *)
(* connected for good comes to show every message of its match.            *)
(***************************************************************************)
StoredIsShown ==
  \A u \in Users, a \in Attempts :
    <>[](u \in connected) =>
      ((view[u].loaded /\ a \in ToSet(rows)) ~> (a \in ToSet(view[u].list) \/ ~active))
=============================================================================
