------------------------------- MODULE Photos -------------------------------
(***************************************************************************)
(* The photos of one user (application/profile/service.go): upload, delete,*)
(* choice of the primary photo and reordering, over the table photos in    *)
(* Postgres and the blobs in the object storage.  Photos of different users*)
(* share nothing.                                                          *)
(*                                                                         *)
(* The service keeps no lock between its calls: what holds in spite of that*)
(* is due to the CHECK and the partial UNIQUE indexes of the table, which  *)
(* refuse a statement that would break them.                               *)
(***************************************************************************)
EXTENDS Integers, FiniteSets, SequencesExt

CONSTANTS
  Photos,      \* the ids of photos that may be uploaded
  Requests,    \* slots for requests being served
  MaxPhotos,   \* photos a user may have; positions are 0 .. MaxPhotos - 1
  NoPhoto

ASSUME PhotosAssumption ==
  /\ IsFiniteSet(Photos)
  /\ MaxPhotos \in Nat \ {0}
  /\ NoPhoto \notin Photos

VARIABLES
  row,      \* Postgres: "none", "live", or "deleted" (deleted_at is set)
  position, \* Postgres: the column position
  primary,  \* Postgres: the photos whose column is_primary is true
  blobs,    \* object storage: the photos whose content is stored
  cleanup,  \* goroutines of DeletePhoto that have yet to delete a blob
  orphans,  \* history: blobs left behind by a process that died or a lost call
  unsure,   \* history: live photos whose insert took effect and lost its answer
  pc,       \* where each request is
  req       \* the local variables of each request

table   == <<row, position, primary>>
history == <<orphans, unsure>>
vars    == <<table, blobs, cleanup, history, pc, req>>

States == {"idle", "put", "insert", "compensate", "softdelete", "list",
           "clear", "set", "reorder"}

NoReq == [kind |-> "none", photo |-> NoPhoto, count |-> 0, wasPrimary |-> FALSE,
          target |-> NoPhoto, todo |-> {}, order |-> <<>>]

Live == {p \in Photos : row[p] = "live"}

\* A new id.  The id of a deleted photo that nothing refers to any more, in the
\* storage or in a request, is taken again: its row has no effect on anything.
IsFresh(p) ==
  /\ p \notin Live \union blobs \union cleanup
  /\ \A r \in Requests : p \notin {req[r].photo, req[r].target}
-----------------------------------------------------------------------------
(***************************************************************************)
(* The constraints of the table.                                           *)
(***************************************************************************)
\* photos_position_check
Allowed(pos) == 0 <= pos /\ pos < MaxPhotos

\* photos_user_position_uq, photos_user_primary_uq
PositionFree_NoIndex(pos) == TRUE
PositionFree(pos) == \A p \in Live : position[p] # pos

PrimaryFree_NoIndex(p, cleared) == TRUE
PrimaryFree(p, cleared) == \A q \in (Live \intersect primary) \ cleared : q = p

\* The row an upload inserts: at the end of the photos it counted.
Fits(r) ==
  /\ Allowed(req[r].count)
  /\ PositionFree(req[r].count)
  /\ req[r].count = 0 => Live \intersect primary = {}

\* ReorderPhotos stages each photo at a negative position, then sets the real ones.
OrderFits(order) ==
  /\ \A i \in 1 .. Len(order) : Allowed(-i)
  /\ \A i \in 1 .. Len(order) :
       /\ Allowed(i - 1)
       /\ \A p \in Live \ ToSet(order) : position[p] # i - 1

\* remaining[0] of ListPhotos, which sorts by position.
First(set) == CHOOSE p \in set : \A q \in set : position[p] <= position[q]
-----------------------------------------------------------------------------
Init ==
  /\ row      = [p \in Photos |-> "none"]
  /\ position = [p \in Photos |-> 0]
  /\ primary  = {}
  /\ blobs    = {}
  /\ cleanup  = {}
  /\ orphans  = {}
  /\ unsure   = {}
  /\ pc       = [r \in Requests |-> "idle"]
  /\ req      = [r \in Requests |-> NoReq]

Goto(r, from, to) ==
  /\ pc[r] = from
  /\ pc' = [pc EXCEPT ![r] = to]

Return(r, from) ==
  /\ Goto(r, from, "idle")
  /\ req' = [req EXCEPT ![r] = NoReq]

\* DeletePhoto returns, and leaves the blob to a goroutine of its own.
Spawned_OnlyPrimary(r) == IF req[r].wasPrimary THEN cleanup \union {req[r].photo} ELSE cleanup
Spawned(r) == cleanup \union {req[r].photo}

Finish(r, from) ==
  /\ Return(r, from)
  /\ cleanup' = IF req[r].kind = "delete" THEN Spawned(r) ELSE cleanup

HasRoom_OffByOne(count) == count <= MaxPhotos
HasRoom(count) == count < MaxPhotos

(***************************************************************************)
(* POST /profile/photos: count, store the blob, insert the row; when the   *)
(* insert fails, delete the blob again.                                    *)
(***************************************************************************)
CreateStart(r, p) ==
  /\ HasRoom(Cardinality(Live))
  /\ IsFresh(p)
  /\ Goto(r, "idle", "put")
  /\ req' = [req EXCEPT ![r] = [NoReq EXCEPT !.kind = "create", !.photo = p,
                                             !.count = Cardinality(Live)]]
  /\ orphans' = orphans \ {p}
  /\ unsure'  = unsure \ {p}
  /\ UNCHANGED <<table, blobs, cleanup>>

Put(r) ==
  /\ Goto(r, "put", "insert")
  /\ blobs' = blobs \union {req[r].photo}
  /\ UNCHANGED <<table, cleanup, req, history>>

\* The row that CreatePhoto inserts.
Inserted(r) ==
  LET p == req[r].photo IN
  /\ Fits(r)
  /\ row'      = [row EXCEPT ![p] = "live"]
  /\ position' = [position EXCEPT ![p] = req[r].count]
  /\ primary'  = IF req[r].count = 0 THEN primary \union {p} ELSE primary \ {p}

Insert(r) ==
  /\ Return(r, "insert")
  /\ Inserted(r)
  /\ UNCHANGED <<blobs, cleanup, history>>

\* A constraint refuses the row.
InsertRefused(r) ==
  /\ Goto(r, "insert", "compensate")
  /\ ~Fits(r)
  /\ UNCHANGED <<table, blobs, cleanup, req, history>>

Compensated_Not(p) == blobs
Compensated(p) == blobs \ {p}

Compensate(r) ==
  /\ Return(r, "compensate")
  /\ blobs' = Compensated(req[r].photo)
  /\ UNCHANGED <<table, cleanup, history>>
-----------------------------------------------------------------------------
(***************************************************************************)
(* DELETE /profile/photos/{id}: the primary flag read first decides, after *)
(* the logical delete, whether another photo is promoted.                  *)
(***************************************************************************)
DeleteStart(r, p) ==
  /\ p \in Live
  /\ Goto(r, "idle", "softdelete")
  /\ req' = [req EXCEPT ![r] = [NoReq EXCEPT !.kind = "delete", !.photo = p,
                                             !.wasPrimary = p \in primary]]
  /\ UNCHANGED <<table, blobs, cleanup, history>>

SoftDelete(r) ==
  /\ row' = [row EXCEPT ![req[r].photo] = "deleted"]
  /\ \/ req[r].wasPrimary /\ Goto(r, "softdelete", "list") /\ UNCHANGED <<req, cleanup>>
     \/ ~req[r].wasPrimary /\ Finish(r, "softdelete")
  /\ unsure' = unsure \ {req[r].photo}
  /\ UNCHANGED <<position, primary, blobs, orphans>>

ListRemaining(r) ==
  /\ \/ /\ Live # {}
        /\ Goto(r, "list", "clear")
        /\ req' = [req EXCEPT ![r].target = First(Live)]
        /\ UNCHANGED cleanup
     \/ Live = {} /\ Finish(r, "list")
  /\ UNCHANGED <<table, blobs, history>>

(***************************************************************************)
(* PUT /profile/photos/{id}/primary, and the promotion above: a transaction*)
(* of two UPDATEs.  ClearPrimaryPhoto picks its rows from a snapshot, and  *)
(* skips those that no longer qualify when it gets their lock.             *)
(***************************************************************************)
SetPrimaryStart(r, p) ==
  /\ p \in Live
  /\ Goto(r, "idle", "clear")
  /\ req' = [req EXCEPT ![r] = [NoReq EXCEPT !.kind = "primary", !.target = p]]
  /\ UNCHANGED <<table, blobs, cleanup, history>>

ClearPrimary(r) ==
  /\ Goto(r, "clear", "set")
  /\ req' = [req EXCEPT ![r].todo = Live \intersect primary]
  /\ UNCHANGED <<table, blobs, cleanup, history>>

\* SetPrimaryPhoto does not ask whether the photo is deleted.  The commit makes
\* both statements visible, unless the unique index refuses the second.
SetPrimary(r) ==
  LET cleared == req[r].todo \intersect Live
      target  == req[r].target
  IN
  /\ Finish(r, "set")
  /\ primary' = IF target \notin Live \/ PrimaryFree(target, cleared)
                  THEN (primary \ cleared) \union {target}
                  ELSE primary
  /\ UNCHANGED <<row, position, blobs, history>>
-----------------------------------------------------------------------------
(***************************************************************************)
(* PUT /profile/photos/order.  The list is checked against the photos read *)
(* first; the transaction that follows is taken whole, or refused.         *)
(***************************************************************************)
ReorderStart(r, order) ==
  /\ Live # {}
  /\ order \in SetToSeqs(Live)
  /\ Goto(r, "idle", "reorder")
  /\ req' = [req EXCEPT ![r] = [NoReq EXCEPT !.kind = "reorder", !.order = order]]
  /\ UNCHANGED <<table, blobs, cleanup, history>>

Reorder(r) ==
  LET order == req[r].order IN
  /\ Return(r, "reorder")
  /\ position' = IF OrderFits(order)
                   THEN [p \in Photos |-> IF p \in ToSet(order)
                           THEN (CHOOSE i \in 1 .. Len(order) : order[i] = p) - 1
                           ELSE position[p]]
                   ELSE position
  /\ UNCHANGED <<row, primary, blobs, cleanup, history>>

\* The goroutine of a delete removes the blob.
Cleanup(p) ==
  /\ p \in cleanup
  /\ cleanup' = cleanup \ {p}
  /\ blobs'   = blobs \ {p}
  /\ orphans' = orphans \ {p}
  /\ UNCHANGED <<table, unsure, pc, req>>

\* A call fails: an error, or, after the logical delete, no promotion.
CallFails_CleansUp(r) ==
  /\ \E s \in {"softdelete", "list", "clear", "set"} : Finish(r, s)
  /\ UNCHANGED <<table, blobs, history>>
CallFails(r) ==
  /\ \/ Goto(r, "insert", "compensate") /\ UNCHANGED <<req, cleanup>>
     \/ \E s \in {"put", "softdelete", "reorder"} : Return(r, s) /\ UNCHANGED cleanup
     \/ \E s \in {"list", "clear", "set"} : Finish(r, s)
  /\ UNCHANGED <<table, blobs, history>>
-----------------------------------------------------------------------------
(***************************************************************************)
(* Failures the program cannot undo.                                       *)
(***************************************************************************)
\* A process that dies with a request leaves its blob behind, when nothing refers
\* to it or the photo was just deleted.
LeftBehind(r) ==
  {p \in {req[r].photo} :
     \/ pc[r] \in {"insert", "compensate", "list"}
     \/ pc[r] \in {"clear", "set"} /\ req[r].kind = "delete"}

Crash(r) ==
  /\ pc[r] # "idle"
  /\ Return(r, pc[r])
  /\ orphans' = orphans \union LeftBehind(r)
  /\ UNCHANGED <<table, blobs, cleanup, unsure>>

\* The process dies before the goroutine ran, or the storage fails.
CleanupLost(p) ==
  /\ p \in cleanup
  /\ cleanup' = cleanup \ {p}
  /\ orphans' = orphans \union {p}
  /\ UNCHANGED <<table, blobs, unsure, pc, req>>

\* A call took effect and its answer was lost: the service takes it for an error.
PutAnswerLost(r) ==
  /\ Return(r, "put")
  /\ blobs'   = blobs \union {req[r].photo}
  /\ orphans' = orphans \union {req[r].photo}
  /\ UNCHANGED <<table, cleanup, unsure>>

InsertAnswerLost(r) ==
  /\ Goto(r, "insert", "compensate")
  /\ Inserted(r)
  /\ unsure' = unsure \union {req[r].photo}
  /\ UNCHANGED <<blobs, cleanup, orphans, req>>

DeleteAnswerLost(r) ==
  /\ Return(r, "softdelete")
  /\ row'     = [row EXCEPT ![req[r].photo] = "deleted"]
  /\ orphans' = orphans \union {req[r].photo}
  /\ unsure'  = unsure \ {req[r].photo}
  /\ UNCHANGED <<position, primary, blobs, cleanup>>

Step(r) ==
  \/ Put(r) \/ Insert(r) \/ InsertRefused(r) \/ Compensate(r)
  \/ SoftDelete(r) \/ ListRemaining(r) \/ ClearPrimary(r) \/ SetPrimary(r)
  \/ Reorder(r)

Next ==
  \/ \E r \in Requests : Step(r)
  \/ \E r \in Requests, p \in Photos : CreateStart(r, p)
  \/ \E r \in Requests, p \in Photos : DeleteStart(r, p)
  \/ \E r \in Requests, p \in Photos : SetPrimaryStart(r, p)
  \/ \E r \in Requests : \E order \in SetToSeqs(Live) : ReorderStart(r, order)
  \/ \E p \in Photos : Cleanup(p)

FailNext ==
  \/ Next
  \/ \E r \in Requests : CallFails(r)
  \/ \E r \in Requests : Crash(r)
  \/ \E p \in Photos : CleanupLost(p)
  \/ \E r \in Requests : PutAnswerLost(r)
  \/ \E r \in Requests : InsertAnswerLost(r)
  \/ \E r \in Requests : DeleteAnswerLost(r)

Spec     == Init /\ [][Next]_vars
FailSpec == Init /\ [][FailNext]_vars
-----------------------------------------------------------------------------
TypeOK ==
  /\ row      \in [Photos -> {"none", "live", "deleted"}]
  /\ position \in [Photos -> 0 .. MaxPhotos - 1]
  /\ primary \subseteq Photos /\ blobs \subseteq Photos /\ cleanup \subseteq Photos
  /\ orphans \subseteq Photos /\ unsure \subseteq Photos
  /\ pc  \in [Requests -> States]
  /\ req \in [Requests -> [kind : {"none", "create", "delete", "primary", "reorder"},
                            photo : Photos \union {NoPhoto}, count : 0 .. MaxPhotos - 1,
                            wasPrimary : BOOLEAN, target : Photos \union {NoPhoto},
                            todo : SUBSET Photos, order : Seq(Photos)]]

(***************************************************************************)
(* README: at most 6 photos.  The service counts before it inserts, with   *)
(* nothing locked in between; two uploads that both saw room for one more  *)
(* do not both get in.                                                     *)
(***************************************************************************)
PhotoLimit == Cardinality(Live) <= MaxPhotos

(***************************************************************************)
(* TestPhotoLifecycleKeepsExactlyOnePrimaryPhoto, the half of it that holds*)
(* in general: no two photos are primary, whatever deletes, promotions,    *)
(* choices and first uploads run at once.                                  *)
(***************************************************************************)
OnePrimary == Cardinality(Live \intersect primary) <= 1

(***************************************************************************)
(* A photo that can be listed has its content in the storage, whatever     *)
(* uploads and deletes run at once, and wherever the process dies; except a*)
(* photo whose insert took effect and lost its answer: its upload fails,   *)
(* and the compensation takes its content.                                 *)
(***************************************************************************)
LiveHasContent == Live \subseteq blobs \union unsure

(***************************************************************************)
(* README: "compensacion automatica si falla la base de datos tras subir el*)
(* blob", and the blob of a deleted photo goes too, also when the promotion*)
(* fails or two requests delete the photo at once: only a process that dies*)
(* or an answer that is lost leaves a blob that nothing refers to.         *)
(***************************************************************************)
BlobsAccounted ==
  \A p \in blobs :
    \/ p \in Live \union cleanup \union orphans
    \/ \E r \in Requests : req[r].photo = p /\ pc[r] # "idle"

(***************************************************************************)
(* README: "si se borra la foto principal, se promueve automaticamente otra*)
(* restante"; TestPhotoLifecycleKeepsExactlyOnePrimaryPhoto: when no       *)
(* request runs, a user with photos has a primary one.                     *)
(***************************************************************************)
PrimaryKept ==
  (\A r \in Requests : pc[r] = "idle") /\ Live # {} => Live \intersect primary # {}
=============================================================================
