---------------------------- MODULE Photos_proofs ----------------------------
(***************************************************************************)
(* What the uploads, deletes, choices and reorderings of a user's photos   *)
(* keep between the table and the object storage, for any number of photos,*)
(* of positions and of requests, and under every failure of Photos.tla.    *)
(***************************************************************************)
EXTENDS Photos, FiniteSetTheorems, TLAPS

Positions == 0 .. MaxPhotos - 1
ReqRow == [kind : {"none", "create", "delete", "primary", "reorder"},
           photo : Photos \union {NoPhoto}, count : Positions, wasPrimary : BOOLEAN,
           target : Photos \union {NoPhoto}, todo : SUBSET Photos, order : Seq(Photos)]

\* photos_user_position_uq and photos_user_primary_uq, as the table shows them.
PositionsDiffer == \A p, q \in Live : position[p] = position[q] => p = q
PrimariesAgree  == \A p, q \in Live \intersect primary : p = q

\* The photo of an upload is its own until its blob is certain.
Uploading(r) == pc[r] \in {"put", "insert"}
UploadOK(r) ==
  /\ Uploading(r) =>
       /\ req[r].photo \in Photos \ (Live \union cleanup)
       /\ req[r].photo \in blobs <=> pc[r] = "insert"
       /\ \A q \in Requests \ {r} : req[q].photo # req[r].photo
  /\ pc[r] = "compensate" => req[r].photo \in Photos \ (Live \ unsure)

\* A delete past its UPDATE has taken the photo away; who promotes has a photo.
DeleteOK(r) ==
  /\ pc[r] \in {"clear", "set"} => req[r].target \in Photos
  /\ pc[r] \in {"softdelete", "list"} => req[r].kind = "delete"
  /\ req[r].kind = "delete" => req[r].photo \in Photos
  /\ pc[r] \in {"list", "clear", "set"} /\ req[r].kind = "delete" => req[r].photo \notin Live

\* Whose blobs are in the storage.
BlobsHeld ==
  \A p \in blobs : \/ p \in Live \union cleanup \union orphans
                   \/ \E r \in Requests : p \in LeftBehind(r)

PInv ==
  /\ TypeOK /\ PositionsDiffer /\ PrimariesAgree /\ LiveHasContent /\ BlobsHeld
  /\ cleanup \intersect Live = {}
  /\ \A r \in Requests : UploadOK(r) /\ DeleteOK(r)

LEMMA ReqTyped ==
  ASSUME TypeOK
  PROVE  req \in [Requests -> ReqRow] /\ pc \in [Requests -> States]
BY DEF TypeOK, ReqRow, Positions

LEMMA Moved ==
  ASSUME TypeOK, NEW r \in Requests, NEW to \in States, NEW new \in ReqRow,
         pc' = [pc EXCEPT ![r] = to], req' = [req EXCEPT ![r] = new]
  PROVE  /\ pc' \in [Requests -> States] /\ req' \in [Requests -> ReqRow]
         /\ pc'[r] = to /\ req'[r] = new
         /\ \A q \in Requests \ {r} : pc'[q] = pc[q] /\ req'[q] = req[q]
BY ReqTyped

\* Some photo of a set that is not empty comes first.
LEMMA FirstIn ==
  ASSUME TypeOK, Live # {}
  PROVE  First(Live) \in Live
<1> DEFINE taken  == {position[p] : p \in Live}
<1>1. taken \subseteq Nat /\ taken # {}
  <2>1. \A p \in Live : position[p] \in Nat
    BY PhotosAssumption DEF TypeOK, Live
  <2> QED BY <2>1
<1> DEFINE before == OpToRel(<, Nat)
<1>2. IsWellFoundedOn(before, Nat)
  BY NatLessThanWellFounded
<1> HIDE DEF before
<1>3. PICK least \in taken : \A n \in taken : ~(<<n, least>> \in before)
  BY <1>1, <1>2, WFMin
<1>4. \A n \in taken : ~(n < least)
  BY <1>1, <1>3 DEF before, OpToRel
<1>5. PICK p \in Live : position[p] = least
  BY <1>3
<1>6. \A q \in Live : position[p] <= position[q]
  <2> TAKE q \in Live
  <2>1. position[q] \in taken /\ position[q] \in Nat /\ least \in Nat
    BY <1>1, <1>3
  <2> QED BY <1>4, <1>5, <2>1
<1> QED BY <1>5, <1>6 DEF First

LEMMA LiveCounted ==
  IsFiniteSet(Live) /\ Cardinality(Live) \in Nat
BY PhotosAssumption, FS_Subset, FS_CardinalityType DEF Live

(***************************************************************************)
(* A step of one request touches the photo of that request alone.  Then the*)
(* others go on as they were, and what is left to show is about its photo. *)
(***************************************************************************)
LEMMA ReqStep ==
  ASSUME PInv, NEW r \in Requests, NEW mine, mine = req[r].photo,
         NEW to \in States, NEW new \in ReqRow,
         pc' = [pc EXCEPT ![r] = to], req' = [req EXCEPT ![r] = new],
         row' \in [Photos -> {"none", "live", "deleted"}], position' \in [Photos -> Positions],
         primary' \subseteq Photos, blobs' \subseteq Photos, cleanup' \subseteq Photos,
         orphans' \subseteq Photos, unsure' \subseteq Photos,
         PositionsDiffer', PrimariesAgree',
         Live \ {mine} = Live' \ {mine}, cleanup \subseteq cleanup',
         cleanup' \subseteq cleanup \union {mine}, blobs \ {mine} = blobs' \ {mine},
         mine \in Live' \ Live => pc[r] = "insert",
         mine \notin cleanup' \intersect Live',
         (unsure \ unsure') \intersect Live' = {},
         (orphans \ orphans') \intersect blobs' = {},
         mine \in Live' => mine \in blobs' \union unsure',
         mine \in blobs' /\ (mine \in LeftBehind(r) \/ mine \notin blobs \/ mine \in Live) =>
           mine \in Live' \union cleanup' \union orphans' \union LeftBehind(r)',
         new.photo \in Live \union {mine, NoPhoto} \/ IsFresh(new.photo),
         UploadOK(r)', DeleteOK(r)'
  PROVE  PInv'
<1> TypeOK /\ LiveHasContent /\ BlobsHeld /\ cleanup \intersect Live = {}
  BY DEF PInv
<1>1. /\ pc' \in [Requests -> States] /\ req' \in [Requests -> ReqRow]
      /\ pc'[r] = to /\ req'[r] = new
      /\ \A q \in Requests \ {r} : pc'[q] = pc[q] /\ req'[q] = req[q]
  BY Moved
<1>2. TypeOK'
  BY <1>1 DEF TypeOK, ReqRow, Positions
<1>3. LiveHasContent' /\ cleanup' \intersect Live' = {}
  BY DEF LiveHasContent
<1>4. BlobsHeld'
  <2>1. ASSUME NEW p \in blobs', p # mine
        PROVE  p \in Live' \union cleanup' \union orphans' \/ \E q \in Requests : p \in LeftBehind(q)'
    <3>1. p \in blobs
      BY <2>1
    <3>2. CASE p \in Live \union cleanup \union orphans
      BY <2>1, <3>2
    <3>3. ASSUME NEW q \in Requests, p \in LeftBehind(q)
          PROVE  p \in LeftBehind(q)'
      BY <1>1, <2>1, <3>3 DEF LeftBehind
    <3> QED BY <3>1, <3>2, <3>3 DEF BlobsHeld
  <2>2. ASSUME mine \in blobs', mine \in blobs, mine \notin LeftBehind(r), mine \notin Live
        PROVE  mine \in cleanup' \union orphans' \/ \E q \in Requests : mine \in LeftBehind(q)'
    <3>1. CASE mine \in cleanup \union orphans
      BY <2>2, <3>1
    <3>2. ASSUME NEW q \in Requests, mine \in LeftBehind(q)
          PROVE  mine \in LeftBehind(q)'
      BY <1>1, <2>2, <3>2 DEF LeftBehind
    <3> QED BY <2>2, <3>1, <3>2 DEF BlobsHeld
  <2> QED BY <2>1, <2>2 DEF BlobsHeld
<1>5. ASSUME NEW q \in Requests, q # r
      PROVE  UploadOK(q)' /\ DeleteOK(q)'
  <2>1. UploadOK(q) /\ DeleteOK(q) /\ UploadOK(r) /\ pc'[q] = pc[q] /\ req'[q] = req[q]
    BY <1>1, <1>5 DEF PInv
  <2> DEFINE p == req[q].photo
  <2>2. p = mine /\ mine \in Live' => mine \in Live
    BY <1>5, <2>1 DEF UploadOK, Uploading
  <2>3. ASSUME Uploading(q)
        PROVE  /\ p \in Photos \ (Live' \union cleanup') /\ (p \in blobs' <=> pc[q] = "insert")
               /\ \A s \in Requests \ {q} : req'[s].photo # p
    <3>1. /\ p \in Photos \ (Live \union cleanup) /\ (p \in blobs <=> pc[q] = "insert") /\ p # mine
          /\ \A s \in Requests \ {q} : req[s].photo # p
      BY <1>5, <2>1, <2>3 DEF UploadOK
    <3>2. new.photo # p
      BY <3>1, PhotosAssumption DEF IsFresh
    <3> QED BY <1>1, <3>1, <3>2
  <2>4. pc[q] = "compensate" => p \in Photos \ (Live' \ unsure')
    BY <2>1, <2>2 DEF UploadOK
  <2>5. pc[q] \in {"list", "clear", "set"} /\ req[q].kind = "delete" => p \notin Live'
    BY <2>1, <2>2 DEF DeleteOK
  <2>6. UploadOK(q)'
    BY <2>1, <2>3, <2>4 DEF UploadOK, Uploading
  <2>7. DeleteOK(q)'
    BY <2>1, <2>5 DEF DeleteOK
  <2> QED BY <2>6, <2>7
<1> QED BY <1>2, <1>3, <1>4, <1>5 DEF PInv

(***************************************************************************)
(* A step that leaves the table, the storage and the goroutines alone.     *)
(***************************************************************************)
LEMMA QuietStep ==
  ASSUME PInv, NEW r \in Requests, NEW to \in States, NEW new \in ReqRow,
         pc' = [pc EXCEPT ![r] = to], req' = [req EXCEPT ![r] = new],
         UNCHANGED <<table, blobs, cleanup>>,
         orphans' \subseteq Photos, unsure' \subseteq Photos,
         (unsure \ unsure') \intersect Live = {}, (orphans \ orphans') \intersect blobs = {},
         req[r].photo \in LeftBehind(r) =>
           req[r].photo \in Live \union cleanup \union orphans' \union LeftBehind(r)',
         new.photo \in Live \union {req[r].photo, NoPhoto} \/ IsFresh(new.photo),
         UploadOK(r)', DeleteOK(r)'
  PROVE  PInv'
<1>1. UNCHANGED <<row, position, primary, blobs, cleanup>> /\ Live' = Live
  BY DEF table, Live
<1>2. TypeOK /\ PositionsDiffer /\ PrimariesAgree /\ LiveHasContent /\ cleanup \intersect Live = {}
  BY DEF PInv
<1>3. /\ row' \in [Photos -> {"none", "live", "deleted"}] /\ position' \in [Photos -> Positions]
      /\ primary' \subseteq Photos /\ blobs' \subseteq Photos /\ cleanup' \subseteq Photos
  BY <1>1, <1>2 DEF TypeOK, Positions
<1>4. PositionsDiffer' /\ PrimariesAgree'
  BY <1>1, <1>2 DEF PositionsDiffer, PrimariesAgree
<1>5. req[r].photo \in Live => req[r].photo \in blobs \union unsure'
  BY <1>2 DEF LiveHasContent
<1> QED BY <1>1, <1>2, <1>3, <1>4, <1>5, ReqStep

LEMMA EmptyRow ==
  NoReq \in ReqRow /\ NoReq.photo = NoPhoto /\ NoReq.kind = "none" /\ NoReq.order = <<>>
BY PhotosAssumption DEF NoReq, ReqRow, Positions

LEMMA Zero == 0 \in Positions /\ <<>> \in Seq(Photos)
BY PhotosAssumption DEF Positions

\* A request ends, with its row of local variables emptied.
LEMMA Emptied ==
  ASSUME TypeOK, NEW r \in Requests, NEW from, Return(r, from)
  PROVE  /\ pc[r] = from /\ pc' = [pc EXCEPT ![r] = "idle"] /\ req' = [req EXCEPT ![r] = NoReq]
         /\ UploadOK(r)' /\ DeleteOK(r)' /\ LeftBehind(r)' = {}
<1>1. pc[r] = from /\ pc' = [pc EXCEPT ![r] = "idle"] /\ req' = [req EXCEPT ![r] = NoReq]
  BY DEF Return, Goto
<1>2. pc'[r] = "idle" /\ req'[r] = NoReq
  BY <1>1, EmptyRow, Moved DEF States
<1>3. UploadOK(r)' /\ DeleteOK(r)'
  BY <1>2, EmptyRow DEF UploadOK, Uploading, DeleteOK
<1> QED BY <1>1, <1>2, <1>3 DEF LeftBehind

\* The types of the row of a request, and what is known of it.
LEMMA RowOf ==
  ASSUME PInv, NEW r \in Requests
  PROVE  /\ TypeOK /\ req \in [Requests -> ReqRow] /\ req[r] \in ReqRow /\ pc[r] \in States
         /\ UploadOK(r) /\ DeleteOK(r)
BY ReqTyped DEF PInv

(***************************************************************************)
(* The steps that begin a request.                                         *)
(***************************************************************************)
LEMMA CreateStarts ==
  ASSUME PInv, NEW r \in Requests, NEW p \in Photos, CreateStart(r, p)
  PROVE  PInv'
<1> DEFINE new == [NoReq EXCEPT !.kind = "create", !.photo = p, !.count = Cardinality(Live)]
<1>1. Cardinality(Live) \in Positions
  BY LiveCounted, PhotosAssumption DEF CreateStart, HasRoom, Positions
<1>2. new \in ReqRow /\ new.photo = p /\ new.kind = "create"
  BY <1>1, Zero DEF NoReq, ReqRow
<1>3. /\ IsFresh(p) /\ pc[r] = "idle" /\ pc' = [pc EXCEPT ![r] = "put"]
      /\ req' = [req EXCEPT ![r] = new] /\ orphans' = orphans \ {p} /\ unsure' = unsure \ {p}
      /\ UNCHANGED <<table, blobs, cleanup>>
  BY DEF CreateStart, Goto
<1> HIDE DEF new
<1>4. TypeOK /\ "put" \in States
  BY RowOf DEF States
<1>5. pc'[r] = "put" /\ req'[r] = new /\ \A q \in Requests \ {r} : req'[q] = req[q]
  BY <1>2, <1>3, <1>4, Moved
<1>6. Live' = Live /\ blobs' = blobs /\ cleanup' = cleanup
  BY <1>3 DEF Live, table
<1>7. UploadOK(r)'
  BY <1>2, <1>3, <1>5, <1>6 DEF UploadOK, Uploading, IsFresh
<1>8. DeleteOK(r)'
  BY <1>2, <1>5 DEF DeleteOK
<1>9. req[r].photo \notin LeftBehind(r)
  BY <1>3 DEF LeftBehind
<1>10. /\ orphans' \subseteq Photos /\ unsure' \subseteq Photos
       /\ (unsure \ unsure') \intersect Live = {} /\ (orphans \ orphans') \intersect blobs = {}
  BY <1>3, <1>4 DEF TypeOK, IsFresh
<1> QED BY <1>2, <1>3, <1>4, <1>7, <1>8, <1>9, <1>10, QuietStep

\* A request begins with a photo that is live, or with none.
LEMMA Starts ==
  ASSUME PInv, NEW r \in Requests, NEW to \in {"softdelete", "clear", "reorder"}, NEW new \in ReqRow,
         pc[r] = "idle", pc' = [pc EXCEPT ![r] = to], req' = [req EXCEPT ![r] = new],
         UNCHANGED <<table, blobs, cleanup, history>>,
         new.photo \in Live \union {NoPhoto},
         to = "clear" => new.target \in Photos,
         to = "softdelete" => new.kind = "delete", new.kind = "delete" => to = "softdelete" /\ new.photo \in Photos
  PROVE  PInv'
<1>1. TypeOK /\ to \in States /\ UNCHANGED <<orphans, unsure>>
  BY RowOf DEF States, history
<1>2. pc'[r] = to /\ req'[r] = new
  BY <1>1, Moved
<1>3. UploadOK(r)'
  BY <1>2 DEF UploadOK, Uploading
<1>4. DeleteOK(r)'
  BY <1>2 DEF DeleteOK
<1>5. req[r].photo \notin LeftBehind(r)
  BY DEF LeftBehind
<1>6. orphans' \subseteq Photos /\ unsure' \subseteq Photos /\ orphans \ orphans' = {} /\ unsure \ unsure' = {}
  BY <1>1 DEF TypeOK
<1> QED BY <1>1, <1>3, <1>4, <1>5, <1>6, QuietStep

LEMMA OtherStarts ==
  ASSUME PInv, NEW r \in Requests,
         \/ \E p \in Photos : DeleteStart(r, p) \/ SetPrimaryStart(r, p)
         \/ \E order \in SetToSeqs(Live) : ReorderStart(r, order)
  PROVE  PInv'
<1>1. ASSUME NEW p \in Photos, DeleteStart(r, p)
      PROVE  PInv'
  <2> DEFINE was == p \in primary
             new == [NoReq EXCEPT !.kind = "delete", !.photo = p, !.wasPrimary = was]
  <2>1. p \in Live /\ pc[r] = "idle" /\ pc' = [pc EXCEPT ![r] = "softdelete"]
        /\ req' = [req EXCEPT ![r] = new] /\ UNCHANGED <<table, blobs, cleanup, history>>
    BY <1>1 DEF DeleteStart, Goto
  <2>2. was \in BOOLEAN
    OBVIOUS
  <2> HIDE DEF was
  <2>3. new \in ReqRow /\ new.photo = p /\ new.kind = "delete"
    BY <2>2, Zero DEF NoReq, ReqRow
  <2> HIDE DEF new
  <2> QED BY <2>1, <2>3, Starts
<1>2. ASSUME NEW p \in Photos, SetPrimaryStart(r, p)
      PROVE  PInv'
  <2> DEFINE new == [NoReq EXCEPT !.kind = "primary", !.target = p]
  <2>1. pc[r] = "idle" /\ pc' = [pc EXCEPT ![r] = "clear"]
        /\ req' = [req EXCEPT ![r] = new] /\ UNCHANGED <<table, blobs, cleanup, history>>
    BY <1>2 DEF SetPrimaryStart, Goto
  <2>2. new \in ReqRow /\ new.photo = NoPhoto /\ new.kind = "primary" /\ new.target = p
    BY Zero DEF NoReq, ReqRow
  <2> HIDE DEF new
  <2> QED BY <2>1, <2>2, Starts
<1>3. ASSUME NEW order \in SetToSeqs(Live), ReorderStart(r, order)
      PROVE  PInv'
  <2> DEFINE new == [NoReq EXCEPT !.kind = "reorder", !.order = order]
  <2>1. pc[r] = "idle" /\ pc' = [pc EXCEPT ![r] = "reorder"]
        /\ req' = [req EXCEPT ![r] = new] /\ UNCHANGED <<table, blobs, cleanup, history>>
    BY <1>3 DEF ReorderStart, Goto
  <2>2. order \in Seq(Photos)
    <3>1. PICK n \in Nat : order \in [1 .. n -> Photos]
      BY LiveCounted DEF SetToSeqs, Live
    <3> QED BY <3>1
  <2>3. new \in ReqRow /\ new.photo = NoPhoto /\ new.kind = "reorder"
    BY <2>2, Zero DEF NoReq, ReqRow
  <2> HIDE DEF new
  <2> QED BY <2>1, <2>3, Starts
<1> QED BY <1>1, <1>2, <1>3

(***************************************************************************)
(* What the statements make of the table.                                  *)
(***************************************************************************)
LEMMA TableTyped ==
  ASSUME PInv
  PROVE  /\ row \in [Photos -> {"none", "live", "deleted"}] /\ position \in [Photos -> Positions]
         /\ primary \subseteq Photos /\ blobs \subseteq Photos /\ cleanup \subseteq Photos
         /\ orphans \subseteq Photos /\ unsure \subseteq Photos
         /\ PositionsDiffer /\ PrimariesAgree
BY DEF PInv, TypeOK, Positions

LEMMA InsertRows ==
  ASSUME PInv, NEW r \in Requests, pc[r] = "insert", Inserted(r)
  PROVE  \E p \in Photos \ (Live \union cleanup) :
           /\ p = req[r].photo /\ p \in blobs /\ Live' = Live \union {p}
           /\ row' \in [Photos -> {"none", "live", "deleted"}] /\ position' \in [Photos -> Positions]
           /\ primary' \subseteq Photos /\ PositionsDiffer' /\ PrimariesAgree'
<1>1. PICK p \in Photos \ (Live \union cleanup) : p = req[r].photo /\ p \in blobs
  BY RowOf DEF UploadOK, Uploading
<1>2. PICK count \in Positions : count = req[r].count
  BY RowOf DEF ReqRow
<1>3. /\ \A q \in Live : position[q] # count
      /\ row' = [row EXCEPT ![p] = "live"] /\ position' = [position EXCEPT ![p] = count]
      /\ \/ Live \intersect primary = {} /\ primary' = primary \union {p}
         \/ primary' = primary \ {p}
  BY <1>1, <1>2 DEF Inserted, Fits, PositionFree
<1>4. /\ row' \in [Photos -> {"none", "live", "deleted"}] /\ row'[p] = "live"
      /\ \A q \in Photos \ {p} : row'[q] = row[q]
      /\ position' \in [Photos -> Positions] /\ position'[p] = count
      /\ \A q \in Photos \ {p} : position'[q] = position[q]
  BY <1>1, <1>2, <1>3, TableTyped
<1>5. Live' = Live \union {p} /\ Live \subseteq Photos \ {p}
  BY <1>1, <1>4 DEF Live
<1>6. PositionsDiffer'
  BY <1>3, <1>4, <1>5, TableTyped DEF PositionsDiffer
<1>7. PrimariesAgree' /\ primary' \subseteq Photos
  BY <1>3, <1>5, TableTyped DEF PrimariesAgree
<1> QED BY <1>1, <1>4, <1>5, <1>6, <1>7

LEMMA DeleteRows ==
  ASSUME PInv, NEW r \in Requests, pc[r] = "softdelete",
         row' = [row EXCEPT ![req[r].photo] = "deleted"], UNCHANGED <<position, primary>>
  PROVE  \E p \in Photos :
           /\ p = req[r].photo /\ Live' = Live \ {p} /\ req[r].kind = "delete"
           /\ row' \in [Photos -> {"none", "live", "deleted"}] /\ position' \in [Photos -> Positions]
           /\ primary' \subseteq Photos /\ PositionsDiffer' /\ PrimariesAgree'
<1>1. PICK p \in Photos : p = req[r].photo /\ req[r].kind = "delete"
  BY RowOf DEF DeleteOK
<1>2. /\ row' \in [Photos -> {"none", "live", "deleted"}] /\ row'[p] = "deleted"
      /\ \A q \in Photos \ {p} : row'[q] = row[q]
  BY <1>1, TableTyped
<1>3. Live' = Live \ {p}
  BY <1>2 DEF Live
<1>4. PositionsDiffer' /\ PrimariesAgree'
  BY <1>3, TableTyped DEF PositionsDiffer, PrimariesAgree
<1> QED BY <1>1, <1>2, <1>3, <1>4, TableTyped

LEMMA PrimaryRows ==
  ASSUME PInv, NEW r \in Requests, SetPrimary(r)
  PROVE  primary' \subseteq Photos /\ PrimariesAgree' /\ Live' = Live
<1>1. PICK target \in Photos : target = req[r].target
  BY RowOf DEF DeleteOK, SetPrimary, Finish, Return, Goto
<1> DEFINE cleared == req[r].todo \intersect Live
<1>2. \/ primary' = primary
      \/ /\ primary' = (primary \ cleared) \union {target}
         /\ target \notin Live \/ PrimaryFree(target, cleared)
  BY <1>1 DEF SetPrimary
<1>3. Live' = Live
  BY DEF SetPrimary, Live
<1> HIDE DEF cleared
<1>4. CASE primary' = primary
  BY <1>3, <1>4, TableTyped DEF PrimariesAgree
<1>5. CASE primary' = (primary \ cleared) \union {target} /\ target \notin Live
  BY <1>3, <1>5, TableTyped DEF PrimariesAgree
<1>6. CASE primary' = (primary \ cleared) \union {target} /\ PrimaryFree(target, cleared)
  <2>1. \A q \in Live \intersect primary' : q = target
    BY <1>3, <1>6 DEF PrimaryFree
  <2> QED BY <1>3, <1>6, <2>1, TableTyped DEF PrimariesAgree
<1> QED BY <1>2, <1>3, <1>4, <1>5, <1>6

LEMMA ReorderRows ==
  ASSUME PInv, NEW r \in Requests, Reorder(r)
  PROVE  position' \in [Photos -> Positions] /\ PositionsDiffer' /\ Live' = Live
<1>1. PICK order \in Seq(Photos) : order = req[r].order
  BY RowOf DEF ReqRow
<1>2. Live' = Live
  BY DEF Reorder, Live
<1>3. CASE position' = position
  BY <1>2, <1>3, TableTyped DEF PositionsDiffer
<1> DEFINE Place(p) == CHOOSE i \in 1 .. Len(order) : order[i] = p
<1>4. CASE OrderFits(order) /\ position' = [p \in Photos |-> IF p \in ToSet(order)
                                               THEN Place(p) - 1 ELSE position[p]]
  <2>1. /\ \A i \in 1 .. Len(order) : i - 1 \in Positions
        /\ \A i \in 1 .. Len(order) : \A p \in Live \ ToSet(order) : position[p] # i - 1
    BY <1>4, PhotosAssumption DEF OrderFits, Allowed, Positions
  <2>2. ASSUME NEW p \in ToSet(order)
        PROVE  Place(p) \in 1 .. Len(order) /\ order[Place(p)] = p
    BY <1>1, <2>2 DEF ToSet
  <2>3. \A p \in Photos : position'[p] = IF p \in ToSet(order) THEN Place(p) - 1 ELSE position[p]
    BY <1>4
  <2> HIDE DEF Place
  <2>4. position' \in [Photos -> Positions]
    BY <1>4, <2>1, <2>2, TableTyped
  <2>5. ASSUME NEW p \in Live, NEW q \in Live, position'[p] = position'[q]
        PROVE  p = q
    <3>1. p \in Photos /\ q \in Photos
      BY DEF Live
    <3>2. CASE p \in ToSet(order) /\ q \in ToSet(order)
      BY <2>2, <2>3, <2>5, <3>1, <3>2
    <3>3. CASE p \in ToSet(order) /\ q \notin ToSet(order)
      BY <2>1, <2>2, <2>3, <2>5, <3>1, <3>3
    <3>4. CASE p \notin ToSet(order) /\ q \in ToSet(order)
      BY <2>1, <2>2, <2>3, <2>5, <3>1, <3>4
    <3>5. CASE p \notin ToSet(order) /\ q \notin ToSet(order)
      BY <2>3, <2>5, <3>1, <3>5, TableTyped DEF PositionsDiffer
    <3> QED BY <3>2, <3>3, <3>4, <3>5
  <2> QED BY <1>2, <2>4, <2>5 DEF PositionsDiffer
<1>5. \/ position' = position
      \/ /\ OrderFits(order)
         /\ position' = [p \in Photos |-> IF p \in ToSet(order) THEN Place(p) - 1 ELSE position[p]]
  BY <1>1 DEF Reorder
<1> HIDE DEF Place
<1> QED BY <1>2, <1>3, <1>4, <1>5

(***************************************************************************)
(* The steps of an upload.                                                 *)
(***************************************************************************)
LEMMA Puts ==
  ASSUME PInv, NEW r \in Requests, Put(r) \/ PutAnswerLost(r)
  PROVE  PInv'
<1>1. pc[r] = "put" /\ blobs' = blobs \union {req[r].photo} /\ UNCHANGED <<table, cleanup, unsure>>
  BY DEF Put, PutAnswerLost, Goto, Return, history
<1>2. PICK p \in Photos \ (Live \union cleanup) : p = req[r].photo /\ p \notin blobs
  BY <1>1, RowOf DEF UploadOK, Uploading
<1>3. Live' = Live /\ row' = row /\ position' = position /\ primary' = primary
  BY <1>1 DEF table, Live
<1>4. PositionsDiffer' /\ PrimariesAgree'
  BY <1>3, TableTyped DEF PositionsDiffer, PrimariesAgree
<1>5. CASE Put(r)
  <2>1. pc' = [pc EXCEPT ![r] = "insert"] /\ req' = [req EXCEPT ![r] = req[r]] /\ orphans' = orphans
    BY <1>5, RowOf DEF Put, Goto, history
  <2>2. /\ pc'[r] = "insert" /\ req'[r] = req[r] /\ "insert" \in States
        /\ \A q \in Requests \ {r} : req'[q] = req[q]
    BY <2>1, RowOf, Moved DEF States
  <2>3. UploadOK(r)' /\ DeleteOK(r)' /\ p \in LeftBehind(r)'
    BY <1>1, <1>2, <1>3, <2>2, RowOf DEF UploadOK, Uploading, DeleteOK, LeftBehind
  <2> QED BY <1>1, <1>2, <1>3, <1>4, <2>1, <2>2, <2>3, TableTyped, RowOf, ReqStep
<1>6. CASE PutAnswerLost(r)
  <2>1. Return(r, "put") /\ orphans' = orphans \union {p}
    BY <1>2, <1>6 DEF PutAnswerLost
  <2>2. /\ pc' = [pc EXCEPT ![r] = "idle"] /\ req' = [req EXCEPT ![r] = NoReq] /\ "idle" \in States
        /\ UploadOK(r)' /\ DeleteOK(r)'
    BY <2>1, RowOf, Emptied DEF States
  <2> QED BY <1>1, <1>2, <1>3, <1>4, <2>1, <2>2, TableTyped, RowOf, EmptyRow, ReqStep
<1> QED BY <1>5, <1>6

LEMMA Inserts ==
  ASSUME PInv, NEW r \in Requests, Insert(r) \/ InsertAnswerLost(r)
  PROVE  PInv'
<1>1. /\ pc[r] = "insert" /\ Inserted(r) /\ UNCHANGED <<blobs, cleanup, orphans>>
      /\ unsure' = unsure \/ unsure' = unsure \union {req[r].photo}
  BY DEF Insert, InsertAnswerLost, Goto, Return, history
<1>2. PICK p \in Photos \ (Live \union cleanup) :
        /\ p = req[r].photo /\ p \in blobs /\ Live' = Live \union {p}
        /\ row' \in [Photos -> {"none", "live", "deleted"}] /\ position' \in [Photos -> Positions]
        /\ primary' \subseteq Photos /\ PositionsDiffer' /\ PrimariesAgree'
  BY <1>1, InsertRows
<1>3. CASE Insert(r)
  <2>1. Return(r, "insert")
    BY <1>3 DEF Insert
  <2>2. /\ pc' = [pc EXCEPT ![r] = "idle"] /\ req' = [req EXCEPT ![r] = NoReq] /\ "idle" \in States
        /\ UploadOK(r)' /\ DeleteOK(r)'
    BY <2>1, RowOf, Emptied DEF States
  <2> QED BY <1>1, <1>2, <2>2, TableTyped, RowOf, EmptyRow, ReqStep
<1>4. CASE InsertAnswerLost(r)
  <2>1. /\ pc' = [pc EXCEPT ![r] = "compensate"] /\ req' = [req EXCEPT ![r] = req[r]]
        /\ unsure' = unsure \union {p}
    BY <1>2, <1>4, RowOf DEF InsertAnswerLost, Goto
  <2>2. pc'[r] = "compensate" /\ req'[r] = req[r] /\ "compensate" \in States
    BY <2>1, RowOf, Moved DEF States
  <2>3. UploadOK(r)' /\ DeleteOK(r)'
    BY <1>2, <2>1, <2>2, RowOf DEF UploadOK, Uploading, DeleteOK
  <2> QED BY <1>1, <1>2, <2>1, <2>2, <2>3, TableTyped, RowOf, ReqStep
<1> QED BY <1>3, <1>4

LEMMA Compensates ==
  ASSUME PInv, NEW r \in Requests, Compensate(r)
  PROVE  PInv'
<1>1. Return(r, "compensate") /\ blobs' = blobs \ {req[r].photo} /\ UNCHANGED <<table, cleanup, orphans, unsure>>
  BY DEF Compensate, Compensated, history
<1>2. /\ pc[r] = "compensate" /\ pc' = [pc EXCEPT ![r] = "idle"] /\ req' = [req EXCEPT ![r] = NoReq]
      /\ UploadOK(r)' /\ DeleteOK(r)' /\ "idle" \in States
  BY <1>1, RowOf, Emptied DEF States
<1>3. Live' = Live /\ row' = row /\ position' = position /\ primary' = primary
  BY <1>1 DEF table, Live
<1>4. PositionsDiffer' /\ PrimariesAgree' /\ req[r].photo \notin cleanup \intersect Live
  BY <1>3, TableTyped DEF PositionsDiffer, PrimariesAgree, PInv
<1>5. req[r].photo \in Live' => req[r].photo \in unsure'
  BY <1>1, <1>2, <1>3, RowOf DEF UploadOK
<1> QED BY <1>1, <1>2, <1>3, <1>4, <1>5, TableTyped, RowOf, EmptyRow, ReqStep

\* A request goes on without having changed anything but its own variables.
LEMMA GoesOn ==
  ASSUME PInv, NEW r \in Requests, NEW to \in {"compensate", "clear", "set"}, NEW new \in ReqRow,
         pc' = [pc EXCEPT ![r] = to], req' = [req EXCEPT ![r] = new],
         UNCHANGED <<table, blobs, cleanup, history>>,
         new.photo = req[r].photo, new.kind = req[r].kind,
         to = "compensate" => pc[r] = "insert",
         to # "compensate" =>
           new.target \in Photos /\ pc[r] \in {"list", "clear"}
  PROVE  PInv'
<1>1. TypeOK /\ to \in States /\ UNCHANGED <<orphans, unsure, cleanup>>
  BY RowOf DEF States, history
<1>2. pc'[r] = to /\ req'[r] = new /\ Live' = Live
  BY <1>1, Moved DEF table, Live
<1>3. UploadOK(r)'
  BY <1>1, <1>2, RowOf DEF UploadOK, Uploading
<1>4. DeleteOK(r)'
  BY <1>2, RowOf DEF DeleteOK
<1>5. req[r].photo \in LeftBehind(r) => req[r].photo \in LeftBehind(r)'
  BY <1>2, RowOf DEF LeftBehind, DeleteOK
<1>6. orphans' \subseteq Photos /\ unsure' \subseteq Photos /\ orphans \ orphans' = {} /\ unsure \ unsure' = {}
  BY <1>1 DEF TypeOK
<1> QED BY <1>1, <1>3, <1>4, <1>5, <1>6, QuietStep

\* A request ends and leaves no blob, or a process dies and leaves it behind.
LEMMA Ends ==
  ASSUME PInv, NEW r \in Requests, NEW from, Return(r, from), UNCHANGED <<table, blobs, cleanup, unsure>>,
         orphans' = orphans \union LeftBehind(r)
  PROVE  PInv'
<1>1. /\ pc' = [pc EXCEPT ![r] = "idle"] /\ req' = [req EXCEPT ![r] = NoReq] /\ "idle" \in States
      /\ UploadOK(r)' /\ DeleteOK(r)'
  BY RowOf, Emptied DEF States
<1>2. LeftBehind(r) \subseteq Photos
  BY RowOf DEF LeftBehind, UploadOK, Uploading, DeleteOK
<1>3. orphans' \subseteq Photos /\ unsure' \subseteq Photos /\ orphans \ orphans' = {} /\ unsure \ unsure' = {}
  BY <1>2, RowOf DEF TypeOK
<1> QED BY <1>1, <1>3, EmptyRow, QuietStep

(***************************************************************************)
(* A delete or a choice ends: a delete spawns its goroutine.  What it did  *)
(* to the table is a hypothesis.                                           *)
(***************************************************************************)
LEMMA Finishes ==
  ASSUME PInv, NEW r \in Requests, NEW from \in {"softdelete", "list", "clear", "set"}, Finish(r, from),
         row' \in [Photos -> {"none", "live", "deleted"}], position' \in [Photos -> Positions],
         primary' \subseteq Photos, PositionsDiffer', PrimariesAgree',
         UNCHANGED <<blobs, orphans>>, unsure' \subseteq unsure,
         Live' \subseteq Live, Live \ Live' \subseteq {req[r].photo},
         req[r].kind = "delete" => req[r].photo \notin Live',
         req[r].kind # "delete" => Live' = Live,
         (unsure \ unsure') \intersect Live' = {}
  PROVE  PInv'
<1>1. Return(r, from) /\ pc[r] = from
      /\ cleanup' = IF req[r].kind = "delete" THEN cleanup \union {req[r].photo} ELSE cleanup
  BY DEF Finish, Spawned, Return, Goto
<1>2. /\ pc' = [pc EXCEPT ![r] = "idle"] /\ req' = [req EXCEPT ![r] = NoReq] /\ "idle" \in States
      /\ UploadOK(r)' /\ DeleteOK(r)'
  BY <1>1, RowOf, Emptied DEF States
<1>3. req[r].photo \in LeftBehind(r) => req[r].kind = "delete"
  BY <1>1, RowOf DEF LeftBehind, DeleteOK
<1>4. cleanup' \subseteq Photos
  BY <1>1, RowOf, TableTyped DEF DeleteOK
<1>5. req[r].photo \in Live' => req[r].photo \in blobs' \union unsure'
  BY DEF PInv, LiveHasContent
<1>6. req[r].photo \notin cleanup' \intersect Live' /\ cleanup \intersect Live = {}
  BY <1>1 DEF PInv
<1>7. blobs' \subseteq Photos /\ orphans' \subseteq Photos /\ unsure' \subseteq Photos
  BY TableTyped
<1>8. /\ Live \ {req[r].photo} = Live' \ {req[r].photo} /\ blobs' = blobs /\ orphans' = orphans
      /\ ~(req[r].photo \in Live' \ Live) /\ NoReq \in ReqRow /\ NoReq.photo = NoPhoto
  BY EmptyRow
<1>9. /\ cleanup \subseteq cleanup' /\ cleanup' \subseteq cleanup \union {req[r].photo}
      /\ req[r].photo \in LeftBehind(r) \/ req[r].photo \in Live =>
           req[r].photo \in Live' \union cleanup'
  BY <1>1, <1>3
<1> QED BY <1>1, <1>2, <1>4, <1>5, <1>6, <1>7, <1>8, <1>9, ReqStep

LEMMA SoftDeletes ==
  ASSUME PInv, NEW r \in Requests, SoftDelete(r) \/ DeleteAnswerLost(r)
  PROVE  PInv'
<1>1. /\ pc[r] = "softdelete" /\ row' = [row EXCEPT ![req[r].photo] = "deleted"]
      /\ UNCHANGED <<position, primary, blobs>> /\ unsure' = unsure \ {req[r].photo}
  BY DEF SoftDelete, DeleteAnswerLost, Finish, Return, Goto
<1>2. PICK p \in Photos :
        /\ p = req[r].photo /\ Live' = Live \ {p} /\ req[r].kind = "delete"
        /\ row' \in [Photos -> {"none", "live", "deleted"}] /\ position' \in [Photos -> Positions]
        /\ primary' \subseteq Photos /\ PositionsDiffer' /\ PrimariesAgree'
  BY <1>1, DeleteRows
<1>3. CASE SoftDelete(r) /\ Finish(r, "softdelete")
  BY <1>1, <1>2, <1>3, Finishes DEF SoftDelete
<1>4. CASE SoftDelete(r) /\ Goto(r, "softdelete", "list") /\ UNCHANGED <<req, cleanup>>
  <2>1. pc' = [pc EXCEPT ![r] = "list"] /\ req' = [req EXCEPT ![r] = req[r]] /\ orphans' = orphans
        /\ cleanup' = cleanup
    BY <1>4, RowOf DEF SoftDelete, Goto
  <2>2. pc'[r] = "list" /\ req'[r] = req[r] /\ "list" \in States
    BY <2>1, RowOf, Moved DEF States
  <2>3. UploadOK(r)' /\ DeleteOK(r)' /\ p \in LeftBehind(r)'
    BY <1>2, <2>2, RowOf DEF UploadOK, Uploading, DeleteOK, LeftBehind
  <2> QED BY <1>1, <1>2, <2>1, <2>2, <2>3, TableTyped, RowOf, ReqStep
<1>5. CASE DeleteAnswerLost(r)
  <2>1. Return(r, "softdelete") /\ orphans' = orphans \union {p} /\ cleanup' = cleanup
    BY <1>2, <1>5 DEF DeleteAnswerLost
  <2>2. /\ pc' = [pc EXCEPT ![r] = "idle"] /\ req' = [req EXCEPT ![r] = NoReq] /\ "idle" \in States
        /\ UploadOK(r)' /\ DeleteOK(r)'
    BY <2>1, RowOf, Emptied DEF States
  <2> QED BY <1>1, <1>2, <2>1, <2>2, TableTyped, RowOf, EmptyRow, ReqStep
<1> QED BY <1>3, <1>4, <1>5 DEF SoftDelete

\* The requests that go through their list, choice or end with the table as it is.
LEMMA FinishesQuietly ==
  ASSUME PInv, NEW r \in Requests, NEW from \in {"list", "clear", "set"}, Finish(r, from),
         UNCHANGED <<table, blobs, history>>
  PROVE  PInv'
<1>1. UNCHANGED <<row, position, primary, blobs, orphans, unsure>> /\ Live' = Live /\ pc[r] = from
  BY DEF table, history, Live, Finish, Return, Goto
<1>2. PositionsDiffer' /\ PrimariesAgree' /\ (req[r].kind = "delete" => req[r].photo \notin Live')
  BY <1>1, TableTyped, RowOf DEF PositionsDiffer, PrimariesAgree, DeleteOK
<1> QED BY <1>1, <1>2, TableTyped, Finishes

LEMMA Promotes ==
  ASSUME PInv, NEW r \in Requests, ListRemaining(r) \/ ClearPrimary(r) \/ SetPrimary(r)
  PROVE  PInv'
<1>1. CASE ListRemaining(r) /\ Live # {}
  <2> DEFINE first == First(Live)
             new == [req[r] EXCEPT !.target = first]
  <2>1. first \in Photos
    BY <1>1, RowOf, FirstIn DEF Live
  <2>2. pc[r] = "list" /\ pc' = [pc EXCEPT ![r] = "clear"] /\ req' = [req EXCEPT ![r] = new]
        /\ UNCHANGED <<table, blobs, cleanup, history>>
    BY <1>1, RowOf DEF ListRemaining, Goto
  <2> HIDE DEF first
  <2>3. new \in ReqRow /\ new.target = first /\ new.photo = req[r].photo /\ new.kind = req[r].kind
    BY <2>1, RowOf DEF ReqRow
  <2> HIDE DEF new
  <2> QED BY <2>1, <2>2, <2>3, GoesOn
<1>2. CASE ListRemaining(r) /\ Live = {}
  BY <1>2, FinishesQuietly DEF ListRemaining
<1>3. CASE ClearPrimary(r)
  <2> DEFINE seen == Live \intersect primary
             new == [req[r] EXCEPT !.todo = seen]
  <2>1. seen \subseteq Photos
    BY TableTyped
  <2>2. pc[r] = "clear" /\ pc' = [pc EXCEPT ![r] = "set"] /\ req' = [req EXCEPT ![r] = new]
        /\ UNCHANGED <<table, blobs, cleanup, history>>
    BY <1>3, RowOf DEF ClearPrimary, Goto
  <2> HIDE DEF seen
  <2>3. /\ new \in ReqRow /\ new.target = req[r].target /\ new.photo = req[r].photo
        /\ new.kind = req[r].kind
    BY <2>1, RowOf DEF ReqRow
  <2>4. req[r].target \in Photos
    BY <2>2, RowOf DEF DeleteOK
  <2> HIDE DEF new
  <2> QED BY <2>2, <2>3, <2>4, GoesOn
<1>4. CASE SetPrimary(r)
  <2>1. primary' \subseteq Photos /\ PrimariesAgree' /\ Live' = Live
    BY <1>4, PrimaryRows
  <2>2. Finish(r, "set") /\ pc[r] = "set" /\ UNCHANGED <<row, position, blobs, orphans, unsure>>
    BY <1>4 DEF SetPrimary, history, Finish, Return, Goto
  <2>3. PositionsDiffer' /\ (req[r].kind = "delete" => req[r].photo \notin Live')
    BY <2>1, <2>2, TableTyped, RowOf DEF PositionsDiffer, DeleteOK
  <2> QED BY <2>1, <2>2, <2>3, TableTyped, Finishes
<1> QED BY <1>1, <1>2, <1>3, <1>4

LEMMA Reorders ==
  ASSUME PInv, NEW r \in Requests, Reorder(r)
  PROVE  PInv'
<1>1. position' \in [Photos -> Positions] /\ PositionsDiffer' /\ Live' = Live
  BY ReorderRows
<1>2. Return(r, "reorder") /\ pc[r] = "reorder" /\ UNCHANGED <<row, primary, blobs, cleanup, orphans, unsure>>
  BY DEF Reorder, history, Return, Goto
<1>3. /\ pc' = [pc EXCEPT ![r] = "idle"] /\ req' = [req EXCEPT ![r] = NoReq] /\ "idle" \in States
      /\ UploadOK(r)' /\ DeleteOK(r)'
  BY <1>2, RowOf, Emptied DEF States
<1>4. PrimariesAgree' /\ req[r].photo \notin LeftBehind(r)
  BY <1>1, <1>2, TableTyped DEF PrimariesAgree, LeftBehind
<1>5. Live \subseteq blobs \union unsure /\ cleanup \intersect Live = {}
  BY DEF PInv, LiveHasContent
<1> QED BY <1>1, <1>2, <1>3, <1>4, <1>5, TableTyped, RowOf, EmptyRow, ReqStep

LEMMA Fails ==
  ASSUME PInv, NEW r \in Requests, InsertRefused(r) \/ CallFails(r) \/ Crash(r)
  PROVE  PInv'
<1>1. ASSUME Goto(r, "insert", "compensate"), UNCHANGED <<table, blobs, cleanup, history, req>>
      PROVE  PInv'
  <2>1. pc[r] = "insert" /\ pc' = [pc EXCEPT ![r] = "compensate"] /\ req' = [req EXCEPT ![r] = req[r]]
    BY <1>1, RowOf DEF Goto
  <2> QED BY <1>1, <2>1, RowOf, GoesOn
<1>2. ASSUME NEW s \in {"put", "softdelete", "reorder"}, Return(r, s),
             UNCHANGED <<table, blobs, cleanup, history>>
      PROVE  PInv'
  <2>1. LeftBehind(r) = {} /\ orphans' = orphans /\ unsure' = unsure
    BY <1>2 DEF LeftBehind, Return, Goto, history
  <2> QED BY <1>2, <2>1, Ends
<1>3. ASSUME NEW s \in {"list", "clear", "set"}, Finish(r, s), UNCHANGED <<table, blobs, history>>
      PROVE  PInv'
  BY <1>3, FinishesQuietly
<1>4. CASE Crash(r)
  BY <1>4, Ends DEF Crash
<1> QED BY <1>1, <1>2, <1>3, <1>4 DEF InsertRefused, CallFails

\* The goroutine of a delete takes the blob, or leaves it for good.
LEMMA Cleans ==
  ASSUME PInv, NEW p \in Photos, Cleanup(p) \/ CleanupLost(p)
  PROVE  PInv'
<1>1. /\ p \in cleanup /\ cleanup' = cleanup \ {p} /\ UNCHANGED <<row, position, primary, unsure, pc, req>>
      /\ \/ blobs' = blobs \ {p} /\ orphans' = orphans \ {p}
         \/ blobs' = blobs /\ orphans' = orphans \union {p}
  BY DEF Cleanup, CleanupLost, table
<1>2. Live' = Live /\ p \notin Live
  BY <1>1 DEF Live, PInv
<1>3. TypeOK'
  BY <1>1 DEF PInv, TypeOK
<1>4. PositionsDiffer' /\ PrimariesAgree' /\ LiveHasContent' /\ cleanup' \intersect Live' = {}
  BY <1>1, <1>2 DEF PInv, PositionsDiffer, PrimariesAgree, LiveHasContent
<1>5. BlobsHeld'
  <2>1. ASSUME NEW q \in blobs'
        PROVE  q \in Live' \union cleanup' \union orphans' \/ \E r \in Requests : q \in LeftBehind(r)'
    <3>1. q \in blobs /\ (q = p => q \in orphans')
      BY <1>1, <2>1
    <3>2. \/ q \in Live \union cleanup \union orphans
          \/ \E r \in Requests : q \in LeftBehind(r)
      BY <3>1 DEF PInv, BlobsHeld
    <3>3. \A r \in Requests : LeftBehind(r)' = LeftBehind(r)
      BY <1>1 DEF LeftBehind
    <3> QED BY <1>1, <1>2, <3>1, <3>2, <3>3
  <2> QED BY <2>1 DEF BlobsHeld
<1>6. ASSUME NEW r \in Requests
      PROVE  UploadOK(r)' /\ DeleteOK(r)'
  <2>1. UploadOK(r) /\ DeleteOK(r)
    BY RowOf
  <2>2. Uploading(r) => (req[r].photo \in blobs' <=> req[r].photo \in blobs)
    BY <1>1, <2>1 DEF UploadOK
  <2>3. UploadOK(r)'
    BY <1>1, <1>2, <2>1, <2>2 DEF UploadOK, Uploading
  <2>4. DeleteOK(r)'
    BY <1>1, <1>2, <2>1 DEF DeleteOK
  <2> QED BY <2>3, <2>4
<1> QED BY <1>3, <1>4, <1>5, <1>6 DEF PInv

(***************************************************************************)
(* The invariant holds in every state.                                     *)
(***************************************************************************)
LEMMA PStart ==
  ASSUME Init
  PROVE  PInv
<1>1. Live = {} /\ blobs = {} /\ cleanup = {}
  BY DEF Init, Live
<1>2. TypeOK
  <2>1. req \in [Requests -> ReqRow] /\ pc \in [Requests -> States]
    BY EmptyRow DEF Init, States
  <2>2. position \in [Photos -> Positions]
    BY Zero DEF Init
  <2>3. row \in [Photos -> {"none", "live", "deleted"}]
    BY DEF Init
  <2> QED BY <2>1, <2>2, <2>3 DEF Init, TypeOK, ReqRow, Positions
<1>3. PositionsDiffer /\ PrimariesAgree /\ LiveHasContent /\ BlobsHeld
  BY <1>1 DEF PositionsDiffer, PrimariesAgree, LiveHasContent, BlobsHeld
<1>4. ASSUME NEW r \in Requests
      PROVE  UploadOK(r) /\ DeleteOK(r)
  BY EmptyRow DEF Init, UploadOK, Uploading, DeleteOK
<1> QED BY <1>1, <1>2, <1>3, <1>4 DEF PInv

LEMMA PStutter ==
  ASSUME PInv, UNCHANGED vars
  PROVE  PInv'
<1>1. UNCHANGED <<row, position, primary, blobs, cleanup, orphans, unsure, pc, req>>
  BY DEF vars, table, history
<1> QED BY <1>1 DEF PInv, TypeOK, PositionsDiffer, PrimariesAgree, LiveHasContent, BlobsHeld,
                    UploadOK, Uploading, DeleteOK, LeftBehind, Live

LEMMA PStep ==
  ASSUME PInv, [FailNext]_vars
  PROVE  PInv'
<1>1. ASSUME NEW r \in Requests, Step(r)
      PROVE  PInv'
  BY <1>1, Puts, Inserts, Fails, Compensates, SoftDeletes, Promotes, Reorders DEF Step
<1>2. ASSUME NEW r \in Requests, CallFails(r) \/ Crash(r) \/ PutAnswerLost(r)
                                 \/ InsertAnswerLost(r) \/ DeleteAnswerLost(r)
      PROVE  PInv'
  BY <1>2, Puts, Inserts, Fails, SoftDeletes
<1>3. ASSUME NEW r \in Requests, NEW p \in Photos,
             CreateStart(r, p) \/ DeleteStart(r, p) \/ SetPrimaryStart(r, p)
      PROVE  PInv'
  BY <1>3, CreateStarts, OtherStarts
<1>4. ASSUME NEW r \in Requests, \E order \in SetToSeqs(Live) : ReorderStart(r, order)
      PROVE  PInv'
  BY <1>4, OtherStarts
<1>5. ASSUME NEW p \in Photos, Cleanup(p) \/ CleanupLost(p)
      PROVE  PInv'
  BY <1>5, Cleans
<1>6. CASE UNCHANGED vars
  BY <1>6, PStutter
<1> QED BY <1>1, <1>2, <1>3, <1>4, <1>5, <1>6 DEF FailNext, Next

LEMMA PAlways == FailSpec => []PInv
BY PStart, PStep, PTL DEF FailSpec

(***************************************************************************)
(* The type of the state: rows, positions within the CHECK of the table,   *)
(* and the local variables of every request.                               *)
(***************************************************************************)
THEOREM PhotosTyped == FailSpec => []TypeOK
BY PAlways, PTL DEF PInv

(***************************************************************************)
(* At most MaxPhotos photos, for any number of uploads at once: the count  *)
(* of the service may be stale, the unique positions below MaxPhotos decide*)
(***************************************************************************)
THEOREM LimitOfPhotos == FailSpec => []PhotoLimit
<1>1. ASSUME PInv
      PROVE  PhotoLimit
  <2> DEFINE place == [p \in Live |-> position[p]]
  <2>1. place \in [Live -> Positions]
    BY <1>1, TableTyped DEF Live
  <2>2. place \in Injection(Live, Positions)
    BY <1>1, <2>1, TableTyped DEF Injection, IsInjective, PositionsDiffer
  <2>3. IsFiniteSet(Positions) /\ Cardinality(Positions) = MaxPhotos
    BY FS_Interval, PhotosAssumption DEF Positions
  <2> QED BY <2>2, <2>3, FS_Injection DEF PhotoLimit
<1>2. PInv => PhotoLimit
  BY <1>1
<1> QED BY <1>2, PAlways, PTL

(***************************************************************************)
(* photos_user_primary_uq and the transaction of SetPrimaryPhoto: never two*)
(* primary photos, whatever deletes, promotions and choices overlap.       *)
(***************************************************************************)
THEOREM OnePrimaryPhoto == FailSpec => []OnePrimary
<1>1. ASSUME PInv
      PROVE  OnePrimary
  <2> DEFINE shown == Live \intersect primary
  <2>1. \A p, q \in shown : p = q
    BY <1>1, TableTyped DEF PrimariesAgree
  <2>2. shown = {} \/ \E p : shown = {p}
    BY <2>1
  <2>3. Cardinality(shown) = 0 \/ Cardinality(shown) = 1
    BY <2>2, FS_EmptySet, FS_Singleton
  <2> QED BY <2>3 DEF OnePrimary
<1>2. PInv => OnePrimary
  BY <1>1
<1> QED BY <1>2, PAlways, PTL

(***************************************************************************)
(* A photo that is listed has its content, except where the answer of an   *)
(* insert was lost and the compensation of Create took the blob.           *)
(***************************************************************************)
THEOREM ContentKept == FailSpec => []LiveHasContent
BY PAlways, PTL DEF PInv

(***************************************************************************)
(* The compensation of Create and the goroutine of DeletePhoto: a blob that*)
(* nothing refers to was left by a process that died or a lost answer.     *)
(***************************************************************************)
THEOREM BlobsAreAccounted == FailSpec => []BlobsAccounted
<1>1. ASSUME PInv
      PROVE  BlobsAccounted
  <2>1. \A r \in Requests : \A p \in LeftBehind(r) : req[r].photo = p /\ pc[r] # "idle"
    BY DEF LeftBehind
  <2> QED BY <1>1, <2>1 DEF PInv, BlobsHeld, BlobsAccounted
<1>2. PInv => BlobsAccounted
  BY <1>1
<1> QED BY <1>2, PAlways, PTL
=============================================================================
