------------------------- MODULE ProductImagesProofs -------------------------
(***************************************************************************)
(* Theorems about the images of a product, for any number of images and    *)
(* requests, any item lists and any choice of failures.                    *)
(***************************************************************************)
EXTENDS ProductImagesInvariants, TLAPS

USE NoneAssumption

(***************************************************************************)
(* Rows and items                                                          *)
(***************************************************************************)

\* The row bulkSave builds for a new image is a row, in the right directory.
LEMMA NewRowIsRow ==
    ASSUME NEW item \in Item
    PROVE  NewRow(item) \in Row /\ NewRow(item).dir = DirOf(NewRow(item))
  BY DEF NewRow, Row, DirOf, Place, Dirs, Item

\* An update item turns a row into a row; it stays in the directory its flags
\* call for if it was in it.
LEMMA UpdatedRowIsRow ==
    ASSUME NEW item \in Item, NEW row \in Row
    PROVE  /\ UpdatedRow(item, row) \in Row
           /\ row.dir = DirOf(row) => UpdatedRow(item, row).dir = DirOf(UpdatedRow(item, row))
  BY DEF UpdatedRow, ChangesState, Given, Row, DirOf, Place, Dirs, Item

\* A live row that is where it belongs leaves its directory when its state changes.
LEMMA StateChangeMoves ==
    ASSUME NEW item \in Item, NEW row \in Row,
           row.dir = DirOf(row), ~row.deleted, ChangesState(item, row)
    PROVE  UpdatedRow(item, row).dir # row.dir
  BY DEF UpdatedRow, ChangesState, Given, Row, DirOf, Place, Dirs, Item

\* What save() leaves of a row is a row whenever there was something to save.
LEMMA MergedIsRow ==
    ASSUME NEW row \in Row \cup {None}, NEW mine \in Row \cup {None},
           NEW loaded \in Row \cup {None}, loaded # None => row # None
    PROVE  /\ Merged(row, mine, loaded) \in Row \cup {None}
           /\ row # None \/ mine # None => Merged(row, mine, loaded) # None
           /\ mine = None => Merged(row, mine, loaded) = row
           /\ row = None => Merged(row, mine, loaded) = mine
  BY DEF Merged, Row

\* If nothing changed since save() loaded a row, its copy is what is stored.
LEMMA MergedIsMine ==
    ASSUME NEW row \in Row \cup {None}, NEW mine \in Row
    PROVE  Merged(row, mine, row) = mine
  BY DEF Merged, Row

(***************************************************************************)
(* Types                                                                   *)
(***************************************************************************)

\* The item a request is at is an item, and names an image unless it has a file.
LEMMA CurrentItemIsItem ==
    ASSUME TypeOK, NEW r \in Requests, next[r] \in DOMAIN payload[r]
    PROVE  /\ CurrentItem(r) \in Item
           /\ ~CurrentItem(r).file => CurrentItem(r).id \in ImageIds
  <1>1. payload[r] \in Seq(Item)
    BY DEF TypeOK
  <1>2. CurrentItem(r) \in Item
    BY <1>1 DEF CurrentItem
  <1>3. CurrentItem(r).file <=> CurrentItem(r).id = None
    BY DEF TypeOK, CurrentItem
  <1> QED
    BY <1>2, <1>3 DEF Item

LEMMA NoRowsIsTable == NoRows \in Table
  BY DEF NoRows, Table

\* Ending a request keeps the types of what belongs to requests.
LEMMA FinishTypeOK ==
    ASSUME TypeOK, NEW r \in Requests, NEW outcome \in Finished, Finish(r, outcome),
           productLive' \in BOOLEAN, rows' \in Table, store' \subseteq Object, moves' \subseteq Move
    PROVE  TypeOK'
  <1>1. payload' \in [Requests -> Seq(Item)]
    BY DEF Finish, TypeOK
  <1>2. \A q \in Requests : \A n \in DOMAIN payload'[q] :
          payload'[q][n].file <=> payload'[q][n].id = None
    <2> SUFFICES ASSUME NEW q \in Requests, NEW n \in DOMAIN payload'[q]
                 PROVE  payload'[q][n].file <=> payload'[q][n].id = None
      OBVIOUS
    <2>1. q # r
      BY DEF Finish, TypeOK
    <2> QED
      BY <2>1 DEF Finish, TypeOK
  <1>3. /\ pc' \in [Requests -> {"idle"} \cup Steps \cup Finished]
        /\ next' \in [Requests -> Nat \ {0}]
        /\ draft' \in [Requests -> ImageIds \cup {None}]
        /\ mem' \in [Requests -> Table]
        /\ base' \in [Requests -> Table]
    BY NoRowsIsTable DEF Finish, TypeOK
  <1>4. \A q \in Requests : pc'[q] = "thumbnail" =>
          draft'[q] \in ImageIds /\ next'[q] \in DOMAIN payload'[q]
    BY DEF Finish, TypeOK, Finished
  <1> QED
    BY <1>1, <1>2, <1>3, <1>4 DEF TypeOK

LEMMA FailTypeOK ==
    ASSUME TypeOK, NEW r \in Requests, Fail(r)
    PROVE  TypeOK'
  BY FinishTypeOK DEF Fail, TypeOK, Finished

LEMMA RestartTypeOK ==
    ASSUME TypeOK, NEW cutOff, Restart(cutOff)
    PROVE  TypeOK'
  BY NoRowsIsTable DEF TypeOK, Restart, Steps, Finished, Item

LEMMA InitTypeOK == Init => TypeOK
  <1> SUFFICES ASSUME Init PROVE TypeOK
    OBVIOUS
  <1>1. rows \in Table
    BY InitialAssumption DEF Init
  <1>2. store \subseteq Object
    BY <1>1 DEF Init, ObjectsOf, Object, Existing, Table, Row, Kinds
  <1> QED
    BY <1>1, <1>2, NoRowsIsTable DEF Init, TypeOK, Steps, Finished

\* What each row becomes when a request writes.
LEMMA MergeSound ==
    ASSUME TypeOK, LoadedRowsExist, NEW r \in Requests, NEW i \in ImageIds
    PROVE  LET merged == Merged(rows[i], mem[r][i], base[r][i])
           IN  /\ merged \in Row \cup {None}
               /\ rows[i] # None \/ mem[r][i] # None => merged # None
               /\ mem[r][i] = None => merged = rows[i]
               /\ rows[i] = None => merged = mem[r][i]
  <1>1. /\ rows[i] \in Row \cup {None}
        /\ mem[r][i] \in Row \cup {None}
        /\ base[r][i] \in Row \cup {None}
    BY DEF TypeOK, Table
  <1>2. base[r][i] # None => rows[i] # None
    BY DEF LoadedRowsExist
  <1> QED
    BY <1>1, <1>2, MergedIsRow

\* save() needs to have found only rows that are there.
LEMMA NextTypeOK == TypeOK /\ LoadedRowsExist /\ [Next]_vars => TypeOK'
  <1> SUFFICES ASSUME TypeOK, LoadedRowsExist, [Next]_vars PROVE TypeOK'
    OBVIOUS
  <1>1. ASSUME NEW r \in Requests, NEW p \in Payloads, Receive(r, p)
        PROVE  TypeOK'
    <2>1. p \in Seq(Item)
      BY PayloadAssumption
    <2>2. \A n \in DOMAIN p : p[n].file <=> p[n].id = None
      BY <1>1 DEF Receive, ValidPayload
    <2> QED
      BY <1>1, <2>1, <2>2 DEF Receive, TypeOK, Steps
  <1>2. ASSUME NEW r \in Requests, NEW p \in Payloads, Reject(r, p)
        PROVE  TypeOK'
    BY <1>2, FailTypeOK DEF Reject
  <1>3. ASSUME NEW r \in Requests, Load(r)
        PROVE  TypeOK'
    <2>1. LoadedRows(rows) \in Table
      BY DEF LoadedRows, TypeOK, Table
    <2> QED
      BY <1>3, <2>1 DEF Load, TypeOK, Steps
  <1>4. ASSUME NEW r \in Requests, LoadRefused(r)
        PROVE  TypeOK'
    BY <1>4, FailTypeOK DEF LoadRefused
  <1>5. ASSUME NEW r \in Requests, UploadImage(r)
        PROVE  TypeOK'
    <2>1. next[r] \in DOMAIN payload[r]
      BY <1>5 DEF UploadImage, AtItem
    <2>2. NewRow(CurrentItem(r)).dir \in Dirs
      BY <2>1, CurrentItemIsItem, NewRowIsRow DEF Row
    <2>3. PICK i \in ImageIds : /\ draft' = [draft EXCEPT ![r] = i]
                                /\ store' = store \cup {StoredAt(i, "image", NewRow(CurrentItem(r)))}
      BY <1>5 DEF UploadImage
    <2>4. store' \subseteq Object
      BY <2>2, <2>3 DEF TypeOK, Object, StoredAt, Kinds
    <2>5. /\ draft' \in [Requests -> ImageIds \cup {None}]
          /\ \A q \in Requests : pc'[q] = "thumbnail" =>
               draft'[q] \in ImageIds /\ next[q] \in DOMAIN payload[q]
      BY <1>5, <2>1, <2>3 DEF TypeOK, UploadImage
    <2> QED
      BY <1>5, <2>4, <2>5 DEF UploadImage, TypeOK, Steps
  <1>6. ASSUME NEW r \in Requests, UploadThumbnail(r)
        PROVE  TypeOK'
    <2>1. draft[r] \in ImageIds /\ next[r] \in DOMAIN payload[r]
      BY <1>6 DEF UploadThumbnail, TypeOK
    <2>2. NewRow(CurrentItem(r)) \in Row
      BY <2>1, CurrentItemIsItem, NewRowIsRow
    <2>3. store' \subseteq Object
      BY <1>6, <2>1, <2>2 DEF UploadThumbnail, TypeOK, Object, StoredAt, Kinds, Row
    <2>4. mem' \in [Requests -> Table]
      BY <1>6, <2>1, <2>2 DEF UploadThumbnail, TypeOK, Table
    <2> QED
      BY <1>6, <2>3, <2>4 DEF UploadThumbnail, TypeOK, Steps
  <1>7. ASSUME NEW r \in Requests, UpdateItem(r)
        PROVE  TypeOK'
    <2> DEFINE item == CurrentItem(r)
               i    == item.id
               new  == UpdatedRow(item, mem[r][i])
    <2>1. item \in Item /\ i \in ImageIds
      BY <1>7, CurrentItemIsItem DEF UpdateItem, AtItem
    <2>2. mem[r][i] \in Row
      BY <1>7, <2>1 DEF UpdateItem, TypeOK, Table
    <2>3. new \in Row
      BY <2>1, <2>2, UpdatedRowIsRow
    <2>4. mem' \in [Requests -> Table]
      BY <1>7, <2>1, <2>3 DEF UpdateItem, TypeOK, Table
    <2>5. MovesOf(r, i, mem[r][i].dir, new.dir) \subseteq Move
      BY <2>1, <2>2, <2>3 DEF MovesOf, Move, Row
    <2>6. moves' \subseteq Move
      BY <1>7, <2>5 DEF UpdateItem, TypeOK
    <2> QED
      BY <1>7, <2>4, <2>6 DEF UpdateItem, TypeOK, AtItem
  <1>8. ASSUME NEW r \in Requests, ImageNotFound(r)
        PROVE  TypeOK'
    BY <1>8, FailTypeOK DEF ImageNotFound
  <1>9. ASSUME NEW r \in Requests, BeginSave(r)
        PROVE  TypeOK'
    BY <1>9 DEF BeginSave, TypeOK, Table, Steps
  <1>10. ASSUME NEW r \in Requests, Write(r)
         PROVE  TypeOK'
    <2>1. \A i \in ImageIds : Merged(rows[i], mem[r][i], base[r][i]) \in Row \cup {None}
      BY MergeSound DEF TypeOK
    <2>2. rows' \in Table
      BY <1>10, <2>1 DEF Write, Table
    <2> QED
      BY <1>10, <2>2, FinishTypeOK DEF Write, TypeOK, Finished
  <1>11. ASSUME NEW m \in moves, CopyObject(m)
         PROVE  TypeOK'
    <2>1. m \in Move
      BY DEF TypeOK
    <2>2. Target(m) \in Object /\ [m EXCEPT !.stage = "delete"] \in Move
      BY <2>1 DEF Target, Move, Object
    <2> QED
      BY <1>11, <2>2 DEF CopyObject, TypeOK, request
  <1>12. ASSUME NEW m \in moves, CopySourceMissing(m)
         PROVE  TypeOK'
    BY <1>12, RestartTypeOK DEF CopySourceMissing
  <1>13. ASSUME NEW m \in moves, DeleteSource(m)
         PROVE  TypeOK'
    BY <1>13 DEF DeleteSource, TypeOK, request
  <1>14. ASSUME Disturb
         PROVE  TypeOK'
    <2>1. ASSUME DeleteProduct PROVE TypeOK'
      BY <2>1 DEF DeleteProduct, TypeOK, request
    <2> QED
      BY <1>14, <2>1, FailTypeOK, RestartTypeOK
      DEF Disturb, UploadFails, ThumbnailFails, QueryFails, MoveFails, Crash
  <1>15. CASE UNCHANGED vars
    BY <1>15 DEF vars, TypeOK
  <1> QED
    BY <1>1, <1>2, <1>3, <1>4, <1>5, <1>6, <1>7, <1>8, <1>9, <1>10, <1>11, <1>12, <1>13,
       <1>14, <1>15
    DEF Next, Arrive, Progress, Serve, ServeMove

(***************************************************************************)
(* Uploads, rows and moves however requests interleave                     *)
(***************************************************************************)

LEMMA NamedAreIds ==
    ASSUME TypeOK, NEW r \in Requests
    PROVE  Named(r) \subseteq ImageIds \cup {None}
  <1> SUFFICES ASSUME NEW n \in DOMAIN payload[r]
               PROVE  payload[r][n].id \in ImageIds \cup {None}
    BY DEF Named
  <1>1. payload[r] \in Seq(Item)
    BY DEF TypeOK
  <1>2. payload[r][n] \in Item
    BY <1>1
  <1> QED
    BY <1>2 DEF Item

LEMMA InitUploadInv == Init => UploadInv
  <1> SUFFICES ASSUME Init PROVE UploadInv
    OBVIOUS
  <1>1. TypeOK
    BY InitTypeOK
  <1>2. \A r \in Requests : pc[r] = "idle" /\ mem[r] = NoRows /\ base[r] = NoRows /\ Named(r) = {}
    BY DEF Init, Named
  <1>3. moves = {}
    BY DEF Init
  <1> QED
    BY <1>1, <1>2, <1>3 DEF UploadInv, MovesOfRows, PendingRowsStored, LoadedRowsExist,
                            NamedRowsExist, DraftsAreNew, NoRows, IdleHoldsNothing, Init

LEMMA FinishIdleHoldsNothing ==
    ASSUME TypeOK, IdleHoldsNothing, NEW r \in Requests, NEW outcome \in Finished,
           Finish(r, outcome)
    PROVE  IdleHoldsNothing'
  BY DEF Finish, IdleHoldsNothing, TypeOK

LEMMA RestartIdleHoldsNothing ==
    ASSUME TypeOK, IdleHoldsNothing, NEW cutOff, Restart(cutOff)
    PROVE  IdleHoldsNothing'
  BY DEF Restart, IdleHoldsNothing, TypeOK

\* Ending a request keeps the invariant if no row went away and none came for
\* an image another request is uploading.
LEMMA FinishUploadInv ==
    ASSUME UploadInv, TypeOK', NEW r \in Requests, NEW outcome \in Finished, Finish(r, outcome),
           UNCHANGED <<store, moves>>,
           \A i \in ImageIds : rows[i] # None => rows'[i] # None,
           \A q \in Requests \ {r} : pc[q] = "thumbnail" => rows'[draft[q]] = None
    PROVE  UploadInv'
  <1> USE DEF UploadInv
  <1>1. \A q \in Requests : /\ q = r => mem'[q] = NoRows /\ base'[q] = NoRows /\ pc'[q] # "thumbnail"
                            /\ q # r => /\ mem'[q] = mem[q] /\ base'[q] = base[q] /\ pc'[q] = pc[q]
                                        /\ draft'[q] = draft[q] /\ payload'[q] = payload[q]
                                        /\ next'[q] = next[q]
    BY DEF Finish, Finished, TypeOK
  <1>2. MovesOfRows'
    BY DEF MovesOfRows, TypeOK, Move
  <1>3. PendingRowsStored'
    BY <1>1 DEF PendingRowsStored, NoRows, StoredAt
  <1>4. LoadedRowsExist'
    BY <1>1 DEF LoadedRowsExist, NoRows
  <1>5. NamedRowsExist'
    <2> SUFFICES ASSUME NEW q \in Requests, NEW i \in Named(q)' \ {None}, mem'[q][i] # None
                 PROVE  rows'[i] # None
      BY DEF NamedRowsExist
    <2>1. CASE q = r
      <3>1. payload'[q] = <<>>
        BY <2>1 DEF Finish, TypeOK
      <3> QED
        BY <3>1 DEF Named
    <2>2. CASE q # r
      <3>1. Named(q)' = Named(q) /\ mem[q][i] # None
        BY <1>1, <2>2 DEF Named
      <3>2. i \in ImageIds
        BY <3>1, NamedAreIds
      <3> QED
        BY <3>1, <3>2 DEF NamedRowsExist
    <2> QED
      BY <2>1, <2>2
  <1>6. DraftsAreNew'
    <2> SUFFICES ASSUME NEW q \in Requests, pc'[q] = "thumbnail"
                 PROVE  DraftIsNew(q)'
      BY DEF DraftsAreNew
    <2>1. q # r /\ pc[q] = "thumbnail"
      BY <1>1
    <2>2. draft[q] \in ImageIds
      BY <2>1 DEF TypeOK
    <2> QED
      BY <1>1, <2>1, <2>2 DEF DraftsAreNew, DraftIsNew, NoRows, StoredAt, NewRow, CurrentItem, Named
  <1> QED
    BY <1>2, <1>3, <1>4, <1>5, <1>6, FinishIdleHoldsNothing

LEMMA FailUploadInv ==
    ASSUME UploadInv, NEW r \in Requests, Fail(r)
    PROVE  UploadInv'
  <1>1. TypeOK'
    BY FailTypeOK DEF UploadInv
  <1> QED
    BY <1>1, FinishUploadInv DEF Fail, Finished, UploadInv, DraftsAreNew, DraftIsNew

LEMMA RestartUploadInv ==
    ASSUME UploadInv, NEW cutOff, Restart(cutOff)
    PROVE  UploadInv'
  <1>1. TypeOK'
    BY RestartTypeOK DEF UploadInv
  <1>2. \A q \in Requests : pc'[q] # "thumbnail" /\ payload'[q] = <<>>
    BY DEF Restart, UploadInv, TypeOK, Steps
  <1>3. IdleHoldsNothing'
    BY RestartIdleHoldsNothing DEF UploadInv
  <1> QED
    BY <1>1, <1>2, <1>3
    DEF Restart, UploadInv, MovesOfRows, PendingRowsStored, LoadedRowsExist,
        NamedRowsExist, DraftsAreNew, NoRows, Named

LEMMA NextIdleHoldsNothing == TypeOK /\ IdleHoldsNothing /\ [Next]_vars => IdleHoldsNothing'
  <1> SUFFICES ASSUME TypeOK, IdleHoldsNothing, [Next]_vars PROVE IdleHoldsNothing'
    OBVIOUS
  <1>1. ASSUME NEW r \in Requests, NEW outcome \in Finished, Finish(r, outcome)
        PROVE  IdleHoldsNothing'
    BY <1>1, FinishIdleHoldsNothing
  <1>2. ASSUME NEW cutOff, Restart(cutOff) PROVE IdleHoldsNothing'
    BY <1>2, RestartIdleHoldsNothing
  <1>3. ASSUME NEW r \in Requests, NEW p \in Payloads, Receive(r, p)
        PROVE  IdleHoldsNothing'
    BY <1>3 DEF Receive, IdleHoldsNothing, TypeOK, Steps
  <1>4. ASSUME NEW r \in Requests,
               Load(r) \/ UploadImage(r) \/ UploadThumbnail(r) \/ UpdateItem(r) \/ BeginSave(r)
        PROVE  IdleHoldsNothing'
    <2>1. pc[r] \in Steps /\ pc'[r] \in {"items", "thumbnail", "write"}
      BY <1>4 DEF Load, UploadImage, UploadThumbnail, UpdateItem, BeginSave, AtItem, TypeOK, Steps
    <2>2. \A q \in Requests \ {r} : pc'[q] = pc[q] /\ mem'[q] = mem[q] /\ payload'[q] = payload[q]
      BY <1>4 DEF Load, UploadImage, UploadThumbnail, UpdateItem, BeginSave, TypeOK
    <2> QED
      BY <2>1, <2>2 DEF IdleHoldsNothing, Steps
  <1>5. CASE UNCHANGED request
    BY <1>5 DEF request, IdleHoldsNothing
  <1>6. \A r \in Requests : Fail(r) => IdleHoldsNothing'
    BY <1>1 DEF Fail, Finished
  <1>7. \A r \in Requests : Write(r) => IdleHoldsNothing'
    BY <1>1 DEF Write, Finished
  <1> QED
    BY <1>2, <1>3, <1>4, <1>5, <1>6, <1>7
    DEF Next, Arrive, Progress, Serve, ServeMove, Disturb, Reject, LoadRefused, ImageNotFound,
        CopyObject, CopySourceMissing, DeleteSource, UploadFails, ThumbnailFails, QueryFails,
        MoveFails, Crash, DeleteProduct, vars, request

LEMMA NextUploadInv == UploadInv /\ [Next]_vars => UploadInv'
  <1> SUFFICES ASSUME UploadInv, [Next]_vars PROVE UploadInv'
    OBVIOUS
  <1> USE DEF UploadInv
  <1>0. TypeOK' /\ IdleHoldsNothing'
    BY NextTypeOK, NextIdleHoldsNothing
  <1>1. ASSUME NEW r \in Requests, NEW p \in Payloads, Receive(r, p)
        PROVE  UploadInv'
    <2>1. \A q \in Requests : pc'[q] = "thumbnail" => pc[q] = "thumbnail" /\ q # r
      BY <1>1 DEF Receive, TypeOK
    <2>2. \A q \in Requests \ {r} : Named(q)' = Named(q) /\ CurrentItem(q)' = CurrentItem(q)
      BY <1>1 DEF Receive, TypeOK, Named, CurrentItem
    <2>3. NamedRowsExist'
      <3> SUFFICES ASSUME NEW q \in Requests, NEW i \in Named(q)' \ {None}, mem'[q][i] # None
                   PROVE  rows'[i] # None
        BY DEF NamedRowsExist
      <3>1. mem' = mem /\ rows' = rows
        BY <1>1 DEF Receive
      <3>2. CASE q # r
        BY <2>2, <3>1, <3>2 DEF NamedRowsExist
      <3>3. CASE q = r
        <4>1. PICK n \in DOMAIN payload'[r] : i = payload'[r][n].id
          BY <3>3 DEF Named
        <4>2. payload'[r] \in Seq(Item)
          BY <1>0 DEF TypeOK
        <4>3. payload'[r][n] \in Item
          BY <4>1, <4>2
        <4>4. i \in ImageIds /\ mem[r] = NoRows
          BY <1>1, <4>1, <4>3 DEF Receive, IdleHoldsNothing, Item
        <4> QED
          BY <3>1, <3>3, <4>4 DEF NoRows
      <3> QED
        BY <3>2, <3>3
    <2> QED
      BY <1>0, <1>1, <2>1, <2>2, <2>3
      DEF Receive, MovesOfRows, PendingRowsStored, LoadedRowsExist, DraftsAreNew, DraftIsNew, StoredAt
  <1>2. ASSUME NEW r \in Requests, NEW p \in Payloads, Reject(r, p)
        PROVE  UploadInv'
    BY <1>2, FailUploadInv DEF Reject
  <1>3. ASSUME NEW r \in Requests, Load(r)
        PROVE  UploadInv'
    <2>1. \A q \in Requests, i \in ImageIds :
            mem'[q][i] = IF q = r THEN LoadedRows(rows)[i] ELSE mem[q][i]
      BY <1>3 DEF Load, TypeOK
    <2>2. \A i \in ImageIds : LoadedRows(rows)[i] # None => rows[i] # None
      BY DEF LoadedRows
    <2>3. \A q \in Requests : Named(q)' = Named(q) /\ CurrentItem(q)' = CurrentItem(q)
      BY <1>3 DEF Load, Named, CurrentItem
    <2>4. MovesOfRows' /\ LoadedRowsExist'
      BY <1>3 DEF Load, MovesOfRows, LoadedRowsExist
    <2>5. PendingRowsStored'
      BY <1>3, <2>1, <2>2 DEF Load, PendingRowsStored, StoredAt
    <2>6. NamedRowsExist'
      BY <1>3, <2>1, <2>2, <2>3, NamedAreIds DEF Load, NamedRowsExist
    <2>7. DraftsAreNew'
      <3> SUFFICES ASSUME NEW q \in Requests, pc'[q] = "thumbnail"
                   PROVE  DraftIsNew(q)'
        BY DEF DraftsAreNew
      <3>1. pc[q] = "thumbnail" /\ q # r
        BY <1>3 DEF Load, TypeOK
      <3>2. draft[q] \in ImageIds
        BY <3>1 DEF TypeOK
      <3> QED
        BY <1>3, <3>1, <3>2, <2>1, <2>2, <2>3 DEF Load, DraftsAreNew, DraftIsNew, TypeOK, StoredAt
    <2> QED
      BY <1>0, <2>4, <2>5, <2>6, <2>7
  <1>4. ASSUME NEW r \in Requests, LoadRefused(r)
        PROVE  UploadInv'
    BY <1>4, FailUploadInv DEF LoadRefused
  <1>5. ASSUME NEW r \in Requests, UploadImage(r)
        PROVE  UploadInv'
    <2> DEFINE item == CurrentItem(r)
    <2>1. PICK i \in ImageIds : /\ Fresh(i)
                                /\ draft' = [draft EXCEPT ![r] = i]
                                /\ store' = store \cup {StoredAt(i, "image", NewRow(item))}
      BY <1>5 DEF UploadImage
    <2>2. \A q \in Requests : Named(q)' = Named(q) /\ CurrentItem(q)' = CurrentItem(q)
      BY <1>5 DEF UploadImage, Named, CurrentItem
    <2>3. \A o \in store : o.id # i
      BY <2>1 DEF Fresh
    <2>4. \A q \in Requests : mem[q][i] = None
      BY <2>1, <2>3 DEF Fresh, PendingRowsStored, StoredAt, Kinds
    <2>5. \A q \in Requests : pc[q] = "thumbnail" => draft[q] # i
      BY <2>3 DEF DraftsAreNew, DraftIsNew, StoredAt
    <2>6. \A q \in Requests : i \notin Named(q)
      BY <2>1 DEF Fresh, Named
    <2>7. DraftsAreNew'
      <3> SUFFICES ASSUME NEW q \in Requests, pc'[q] = "thumbnail"
                   PROVE  DraftIsNew(q)'
        BY DEF DraftsAreNew
      <3>1. CASE q = r
        <4>1. draft'[r] = i /\ \A s \in Requests \ {r} : draft'[s] = draft[s] /\ pc'[s] = pc[s]
          BY <1>5, <2>1 DEF UploadImage, TypeOK
        <4> QED
          BY <1>5, <2>1, <2>2, <2>4, <2>5, <2>6, <3>1, <4>1
          DEF UploadImage, DraftIsNew, Fresh, StoredAt, NewRow
      <3>2. CASE q # r
        <4>1. pc[q] = "thumbnail" /\ draft'[q] = draft[q]
          BY <1>5, <2>1, <3>2 DEF UploadImage, TypeOK
        <4>2. \A s \in Requests \ {q} : pc'[s] = "thumbnail" => draft'[s] # draft'[q]
          BY <1>5, <2>1, <2>5, <4>1 DEF UploadImage, DraftsAreNew, DraftIsNew, TypeOK
        <4> QED
          BY <1>5, <2>1, <2>2, <4>1, <4>2 DEF UploadImage, DraftsAreNew, DraftIsNew, StoredAt, NewRow
      <3> QED
        BY <3>1, <3>2
    <2> QED
      BY <1>0, <1>5, <2>1, <2>2, <2>7
      DEF UploadImage, MovesOfRows, PendingRowsStored, LoadedRowsExist, NamedRowsExist, StoredAt
  <1>6. ASSUME NEW r \in Requests, UploadThumbnail(r)
        PROVE  UploadInv'
    <2> DEFINE row == NewRow(CurrentItem(r))
               i   == draft[r]
    <2>1. i \in ImageIds /\ DraftIsNew(r)
      BY <1>6 DEF UploadThumbnail, DraftsAreNew, TypeOK
    <2>2. \A q \in Requests, j \in ImageIds :
            mem'[q][j] = IF q = r /\ j = i THEN row ELSE mem[q][j]
      BY <1>6, <2>1 DEF UploadThumbnail, TypeOK, Table
    <2>3. \A q \in Requests : Named(q)' = Named(q)
      BY <1>6 DEF UploadThumbnail, Named
    <2>4. \A q \in Requests \ {r} : CurrentItem(q)' = CurrentItem(q)
      BY <1>6 DEF UploadThumbnail, CurrentItem, TypeOK
    <2>5. PendingRowsStored'
      <3> SUFFICES ASSUME NEW q \in Requests, NEW j \in ImageIds, mem'[q][j] # None, rows[j] = None,
                          NEW k \in Kinds
                   PROVE  StoredAt(j, k, mem'[q][j]) \in store'
        BY <1>6 DEF UploadThumbnail, PendingRowsStored, StoredAt
      <3>1. CASE q = r /\ j = i
        BY <1>6, <2>1, <2>2, <3>1 DEF UploadThumbnail, DraftIsNew, Kinds, StoredAt
      <3>2. CASE ~(q = r /\ j = i)
        BY <1>6, <2>2, <3>2 DEF UploadThumbnail, PendingRowsStored
      <3> QED
        BY <3>1, <3>2
    <2>6. NamedRowsExist'
      BY <1>6, <2>1, <2>2, <2>3, NamedAreIds DEF UploadThumbnail, NamedRowsExist, DraftIsNew
    <2>7. DraftsAreNew'
      <3> SUFFICES ASSUME NEW q \in Requests, pc'[q] = "thumbnail"
                   PROVE  DraftIsNew(q)'
        BY DEF DraftsAreNew
      <3>1. q # r /\ pc[q] = "thumbnail" /\ draft'[q] = draft[q]
        BY <1>6 DEF UploadThumbnail, TypeOK
      <3>2. draft[q] \in ImageIds /\ draft[q] # i
        BY <1>6, <3>1 DEF TypeOK, DraftsAreNew, DraftIsNew, UploadThumbnail
      <3>3. \A s \in Requests : pc'[s] = "thumbnail" => pc[s] = "thumbnail" /\ draft'[s] = draft[s]
        BY <1>6 DEF UploadThumbnail, TypeOK
      <3>4. \A s \in Requests : mem'[s][draft[q]] = None
        BY <2>2, <3>1, <3>2 DEF DraftsAreNew, DraftIsNew
      <3>5. \A s \in Requests \ {q} : pc'[s] = "thumbnail" => draft'[s] # draft'[q]
        BY <3>1, <3>3 DEF DraftsAreNew, DraftIsNew
      <3> QED
        BY <1>6, <2>3, <2>4, <3>1, <3>4, <3>5
        DEF UploadThumbnail, DraftsAreNew, DraftIsNew, StoredAt, NewRow
    <2> QED
      BY <1>0, <1>6, <2>5, <2>6, <2>7 DEF UploadThumbnail, MovesOfRows, LoadedRowsExist
  <1>7. ASSUME NEW r \in Requests, UpdateItem(r)
        PROVE  UploadInv'
    <2> DEFINE i == CurrentItem(r).id
    <2>1. i \in ImageIds /\ i \in Named(r) \ {None} /\ mem[r][i] # None
      BY <1>7, CurrentItemIsItem DEF UpdateItem, AtItem, Named, CurrentItem
    <2>2. rows[i] # None
      BY <2>1 DEF NamedRowsExist
    <2>3. \A q \in Requests, j \in ImageIds : q # r \/ j # i => mem'[q][j] = mem[q][j]
      BY <1>7, <2>1 DEF UpdateItem, TypeOK, Table
    <2>4. \A q \in Requests : Named(q)' = Named(q) /\ (q # r => CurrentItem(q)' = CurrentItem(q))
      BY SMTT(30), <1>7 DEF UpdateItem, Named, CurrentItem, TypeOK
    <2>5. MovesOfRows'
      BY <1>7, <2>2 DEF UpdateItem, MovesOfRows, MovesOf
    <2>6. PendingRowsStored'
      BY <1>7, <2>2, <2>3 DEF UpdateItem, PendingRowsStored, StoredAt
    <2>7. NamedRowsExist'
      BY <1>7, <2>2, <2>3, <2>4, NamedAreIds DEF UpdateItem, NamedRowsExist
    <2>8. DraftsAreNew'
      <3> SUFFICES ASSUME NEW q \in Requests, pc'[q] = "thumbnail"
                   PROVE  DraftIsNew(q)'
        BY DEF DraftsAreNew
      <3>1. pc[q] = "thumbnail" /\ q # r
        BY <1>7 DEF UpdateItem, AtItem
      <3>2. draft[q] \in ImageIds /\ draft[q] # i
        BY <2>2, <3>1 DEF TypeOK, DraftsAreNew, DraftIsNew
      <3> QED
        BY <1>7, <2>3, <2>4, <3>1, <3>2 DEF UpdateItem, DraftsAreNew, DraftIsNew, StoredAt
    <2> QED
      BY <1>0, <1>7, <2>5, <2>6, <2>7, <2>8 DEF UpdateItem, LoadedRowsExist
  <1>8. ASSUME NEW r \in Requests, ImageNotFound(r)
        PROVE  UploadInv'
    BY <1>8, FailUploadInv DEF ImageNotFound
  <1>9. ASSUME NEW r \in Requests, BeginSave(r)
        PROVE  UploadInv'
    <2>1. LoadedRowsExist'
      BY <1>9 DEF BeginSave, LoadedRowsExist, TypeOK
    <2>2. \A q \in Requests : Named(q)' = Named(q) /\ CurrentItem(q)' = CurrentItem(q)
      BY <1>9 DEF BeginSave, Named, CurrentItem
    <2>3. \A q \in Requests : pc'[q] = "thumbnail" => pc[q] = "thumbnail"
      BY <1>9 DEF BeginSave, TypeOK
    <2> QED
      BY <1>0, <1>9, <2>1, <2>2, <2>3
      DEF BeginSave, MovesOfRows, PendingRowsStored, NamedRowsExist, DraftsAreNew, DraftIsNew, StoredAt
  <1>10. ASSUME NEW r \in Requests, Write(r)
         PROVE  UploadInv'
    <2>1. \A i \in ImageIds : /\ rows[i] # None => rows'[i] # None
                              /\ mem[r][i] = None => rows'[i] = rows[i]
      BY <1>10, MergeSound DEF Write
    <2>2. \A q \in Requests \ {r} : pc[q] = "thumbnail" => rows'[draft[q]] = None
      BY <2>1 DEF DraftsAreNew, DraftIsNew, TypeOK
    <2> QED
      BY <1>0, <1>10, <2>1, <2>2, FinishUploadInv DEF Write, Finished
  <1>11. ASSUME NEW m \in moves, CopyObject(m)
         PROVE  UploadInv'
    <2>1. MovesOfRows'
      BY <1>11 DEF CopyObject, MovesOfRows, TypeOK, Move
    <2> QED
      BY <1>0, <1>11, <2>1
      DEF CopyObject, request, PendingRowsStored, LoadedRowsExist,
          NamedRowsExist, DraftsAreNew, DraftIsNew, Named, CurrentItem, StoredAt
  <1>12. ASSUME NEW m \in moves, CopySourceMissing(m)
         PROVE  UploadInv'
    BY <1>12, RestartUploadInv DEF CopySourceMissing
  <1>13. ASSUME NEW m \in moves, DeleteSource(m)
         PROVE  UploadInv'
    <2>1. rows[m.id] # None
      BY DEF MovesOfRows
    <2>2. \A i \in ImageIds, k \in Kinds, row \in Row :
            rows[i] = None /\ StoredAt(i, k, row) \in store => StoredAt(i, k, row) \in store'
      BY <1>13, <2>1 DEF DeleteSource, StoredAt, Source
    <2>3. PendingRowsStored'
      BY <1>13, <2>2 DEF DeleteSource, request, PendingRowsStored, TypeOK, Table, StoredAt
    <2>4. DraftsAreNew'
      <3> SUFFICES ASSUME NEW q \in Requests, pc[q] = "thumbnail"
                   PROVE  DraftIsNew(q)'
        BY <1>13 DEF DeleteSource, request, DraftsAreNew
      <3>1. draft[q] \in ImageIds /\ DraftIsNew(q) /\ next[q] \in DOMAIN payload[q]
        BY DEF TypeOK, DraftsAreNew
      <3>2. NewRow(CurrentItem(q)) \in Row
        BY <3>1, CurrentItemIsItem, NewRowIsRow
      <3>3. StoredAt(draft[q], "image", NewRow(CurrentItem(q))) \in store'
        BY <2>2, <3>1, <3>2 DEF DraftIsNew, Kinds
      <3> QED
        BY <1>13, <3>1, <3>3 DEF DeleteSource, request, DraftIsNew, Named, CurrentItem, StoredAt
    <2> QED
      BY <1>0, <1>13, <2>3, <2>4
      DEF DeleteSource, request, MovesOfRows, LoadedRowsExist, NamedRowsExist, Named
  <1>14. ASSUME Disturb
         PROVE  UploadInv'
    <2>1. ASSUME DeleteProduct PROVE UploadInv'
      BY <1>0, <2>1 DEF DeleteProduct, request, MovesOfRows, PendingRowsStored, LoadedRowsExist,
                   NamedRowsExist, DraftsAreNew, DraftIsNew, Named, CurrentItem, StoredAt
    <2> QED
      BY <1>14, <2>1, FailUploadInv, RestartUploadInv
      DEF Disturb, UploadFails, ThumbnailFails, QueryFails, MoveFails, Crash
  <1>15. CASE UNCHANGED vars
    BY <1>0, <1>15 DEF vars, MovesOfRows, PendingRowsStored, LoadedRowsExist,
                 NamedRowsExist, DraftsAreNew, DraftIsNew, Named, CurrentItem, StoredAt
  <1> QED
    BY <1>1, <1>2, <1>3, <1>4, <1>5, <1>6, <1>7, <1>8, <1>9, <1>10, <1>11, <1>12, <1>13,
       <1>14, <1>15
    DEF Next, Arrive, Progress, Serve, ServeMove

\* The table changes in no other step than a request's write.
LEMMA RowsChangeOnlyByWrite ==
    ASSUME [Next]_vars
    PROVE  rows' = rows \/ \E r \in Requests : Write(r)
  BY DEF Next, Arrive, Progress, Serve, ServeMove, Disturb, Receive, Reject, Load, LoadRefused,
         UploadImage, UploadThumbnail, UpdateItem, ImageNotFound, BeginSave,
         CopyObject, CopySourceMissing, DeleteSource, UploadFails, ThumbnailFails, QueryFails,
         MoveFails, Crash, DeleteProduct, Fail, Restart, vars, request

LEMMA UploadInvariant == Spec => []UploadInv
  BY InitUploadInv, NextUploadInv, PTL DEF Spec

\* Every variable keeps its type, however requests, moves and failures
\* interleave.
THEOREM TypeCorrect == Spec => []TypeOK
  <1>1. UploadInv => TypeOK
    BY DEF UploadInv
  <1> QED
    BY <1>1, UploadInvariant, PTL

\* A row appears only after both of its files were uploaded to where it says,
\* whatever other requests, moves and failures did in the meantime.
THEOREM RowsComeAfterUploads == Spec => InsertedAfterUpload
  <1> DEFINE Insert(i) == rows[i] = None /\ rows'[i] # None =>
                            \A k \in Kinds : StoredAt(i, k, rows'[i]) \in store
  <1>1. ASSUME UploadInv, [Next]_vars, NEW i \in ImageIds
        PROVE  Insert(i)
    <2>1. ASSUME NEW r \in Requests, Write(r)
          PROVE  Insert(i)
      <3>1. UploadInv
        BY <1>1
      <3>2. rows'[i] = Merged(rows[i], mem[r][i], base[r][i])
        BY <2>1 DEF Write
      <3>3. rows[i] = None => rows'[i] = mem[r][i]
        BY <3>1, <3>2, MergeSound DEF UploadInv
      <3> QED
        BY <3>1, <3>3 DEF UploadInv, PendingRowsStored
    <2>2. ASSUME rows' = rows
          PROVE  Insert(i)
      BY <2>2
    <2>3. rows' = rows \/ \E r \in Requests : Write(r)
      BY <1>1, RowsChangeOnlyByWrite
    <2> QED
      BY <2>1, <2>2, <2>3
  <1>2. UploadInv /\ [Next]_vars =>
          [\A i \in ImageIds : rows[i] = None /\ rows[i]' # None =>
             \A k \in Kinds : StoredAt(i, k, rows[i]') \in store]_vars
    BY <1>1 DEF StoredAt
  <1> QED
    BY <1>2, UploadInvariant, PTL DEF Spec, InsertedAfterUpload

(***************************************************************************)
(* Flags and directories when editors take turns                           *)
(***************************************************************************)

LEMMA SerialNextIsNext == [SerialNext]_vars => [Next]_vars
  BY DEF SerialNext, SerialArrive, Next

\* Every other step leaves the rows, and what a request holds, or drops it.
LEMMA StepKinds ==
    ASSUME TypeOK, [Next]_vars
    PROVE  \/ \E r \in Requests : \/ Write(r) \/ Load(r) \/ UploadThumbnail(r)
                                  \/ UpdateItem(r) \/ BeginSave(r)
           \/ /\ rows' = rows
              /\ \A q \in Requests : mem'[q] \in {mem[q], NoRows}
              /\ \A q \in Requests : pc'[q] = "write" =>
                   pc[q] = "write" /\ base'[q] = base[q] /\ mem'[q] = mem[q]
  <1> DEFINE Quiet == /\ rows' = rows
                      /\ \A q \in Requests : mem'[q] \in {mem[q], NoRows}
                      /\ \A q \in Requests : pc'[q] = "write" =>
                           pc[q] = "write" /\ base'[q] = base[q] /\ mem'[q] = mem[q]
  <1>1. ASSUME NEW r \in Requests, Fail(r) PROVE Quiet
    BY <1>1 DEF Fail, Finish, TypeOK
  <1>2. ASSUME NEW cutOff, Restart(cutOff) PROVE Quiet
    BY <1>2 DEF Restart, TypeOK, Steps
  <1>3. ASSUME NEW r \in Requests, NEW p \in Payloads, Receive(r, p) PROVE Quiet
    BY <1>3 DEF Receive, TypeOK
  <1>4. ASSUME NEW r \in Requests, UploadImage(r) PROVE Quiet
    BY <1>4 DEF UploadImage, TypeOK
  <1>5. ASSUME UNCHANGED <<rows, request>> PROVE Quiet
    BY <1>5 DEF request
  <1> QED
    BY <1>1, <1>2, <1>3, <1>4, <1>5
    DEF Next, Arrive, Progress, Serve, ServeMove, Disturb, Reject, LoadRefused, ImageNotFound,
        CopyObject, CopySourceMissing, DeleteSource, UploadFails, ThumbnailFails, QueryFails,
        MoveFails, Crash, DeleteProduct, vars, request

\* Nobody but an arriving request begins to be served.
LEMMA StepsContinue ==
    ASSUME TypeOK, Progress \/ Disturb \/ UNCHANGED vars, NEW q \in Requests, pc'[q] \in Steps
    PROVE  pc[q] \in Steps
  <1>1. ASSUME NEW r \in Requests, NEW outcome \in Finished, Finish(r, outcome)
        PROVE  pc[q] \in Steps
    BY <1>1 DEF Finish, Finished, TypeOK, Steps
  <1>2. ASSUME NEW cutOff, Restart(cutOff) PROVE pc[q] \in Steps
    BY <1>2 DEF Restart, TypeOK, Steps
  <1>3. ASSUME NEW r \in Requests,
               Load(r) \/ UploadImage(r) \/ UploadThumbnail(r) \/ UpdateItem(r) \/ BeginSave(r)
        PROVE  pc[q] \in Steps
    BY <1>3 DEF Load, UploadImage, UploadThumbnail, UpdateItem, BeginSave, AtItem, TypeOK, Steps
  <1>4. CASE UNCHANGED pc
    BY <1>4
  <1>5. \A r \in Requests : Fail(r) \/ Write(r) => pc[q] \in Steps
    BY <1>1 DEF Fail, Write, Finished
  <1> QED
    BY <1>2, <1>3, <1>4, <1>5
    DEF Progress, Serve, ServeMove, Disturb, LoadRefused, ImageNotFound,
        CopyObject, CopySourceMissing, DeleteSource, UploadFails, ThumbnailFails, QueryFails,
        MoveFails, Crash, DeleteProduct, vars, request

LEMMA NextOneAtATime == TypeOK /\ OneAtATime /\ [SerialNext]_vars => OneAtATime'
  <1> SUFFICES ASSUME TypeOK, OneAtATime, [SerialNext]_vars PROVE OneAtATime'
    OBVIOUS
  <1>1. ASSUME NEW r \in Requests, SerialArrive(r)
        PROVE  OneAtATime'
    <2>1. \A q \in Requests : q # r => pc'[q] \notin Steps
      BY <1>1 DEF SerialArrive, Quiescent, Arrive, Receive, Reject, Fail, Finish, TypeOK
    <2> QED
      BY <2>1 DEF OneAtATime
  <1>2. CASE Progress \/ Disturb \/ UNCHANGED vars
    BY <1>2, StepsContinue DEF OneAtATime
  <1> QED
    BY <1>1, <1>2 DEF SerialNext

LEMMA InitSerialInv == Init => SerialInv
  <1> SUFFICES ASSUME Init PROVE SerialInv
    OBVIOUS
  <1>1. UploadInv
    BY InitUploadInv
  <1>2. \A r \in Requests : pc[r] = "idle" /\ mem[r] = NoRows
    BY DEF Init
  <1>3. DirectoryAgreesWithFlags
    BY InitialAssumption DEF Init, Consistent, DirectoryAgreesWithFlags
  <1> QED
    BY <1>1, <1>2, <1>3 DEF SerialInv, OneAtATime, MemoryAgreesWithFlags, SaveUpToDate,
                            HoldsLiveRows, NoRows, Steps

\* The row of a named image as the request holds it, and what becomes of it.
LEMMA NamedRow ==
    ASSUME TypeOK, NEW r \in Requests, UpdateItem(r)
    PROVE  LET item == CurrentItem(r)
               i    == item.id
           IN  /\ item \in Item /\ i \in ImageIds /\ i \in Named(r) \ {None}
               /\ mem[r][i] \in Row
               /\ UpdatedRow(item, mem[r][i]) \in Row
               /\ \A q \in Requests, j \in ImageIds : mem'[q][j] =
                     IF q = r /\ j = i THEN UpdatedRow(item, mem[r][i]) ELSE mem[q][j]
  <1> DEFINE item == CurrentItem(r)
             i    == item.id
  <1>1. item \in Item /\ i \in ImageIds /\ i \in Named(r) \ {None}
    BY CurrentItemIsItem DEF UpdateItem, AtItem, Named, CurrentItem
  <1>2. mem[r][i] \in Row
    BY <1>1 DEF UpdateItem, TypeOK, Table
  <1>3. UpdatedRow(item, mem[r][i]) \in Row
    BY <1>1, <1>2, UpdatedRowIsRow
  <1> QED
    BY <1>1, <1>2, <1>3 DEF UpdateItem, TypeOK, Table

\* With nobody else saving, what a request writes is exactly what it holds.
LEMMA WriteIsMine ==
    ASSUME SerialInv, NEW r \in Requests, Write(r), NEW i \in ImageIds
    PROVE  rows'[i] = IF mem[r][i] = None THEN rows[i] ELSE mem[r][i]
  <1>1. mem[r][i] # None => base[r][i] = rows[i]
    BY DEF SerialInv, SaveUpToDate, Write
  <1>2. rows[i] \in Row \cup {None} /\ mem[r][i] \in Row \cup {None}
    BY DEF SerialInv, UploadInv, TypeOK, Table
  <1>3. rows'[i] = Merged(rows[i], mem[r][i], base[r][i])
    BY DEF Write
  <1>4. CASE mem[r][i] = None
    BY <1>3, <1>4 DEF Merged
  <1>5. CASE mem[r][i] # None
    BY <1>1, <1>2, <1>3, <1>5, MergedIsMine
  <1> QED
    BY <1>4, <1>5

LEMMA NextSerialInv == SerialInv /\ [SerialNext]_vars => SerialInv'
  <1> SUFFICES ASSUME SerialInv, [SerialNext]_vars PROVE SerialInv'
    OBVIOUS
  <1>1. UploadInv' /\ OneAtATime' /\ [Next]_vars /\ TypeOK /\ UploadInv
    BY NextUploadInv, NextOneAtATime, SerialNextIsNext DEF SerialInv, UploadInv
  <1> DEFINE Rest == MemoryAgreesWithFlags /\ SaveUpToDate /\ HoldsLiveRows /\ DirectoryAgreesWithFlags
  <1>2. ASSUME NEW r \in Requests, Write(r)
        PROVE  Rest'
    <2>1. \A i \in ImageIds : rows'[i] = IF mem[r][i] = None THEN rows[i] ELSE mem[r][i]
      BY <1>2, WriteIsMine
    <2>2. \A q \in Requests : mem'[q] = NoRows /\ pc'[q] # "write"
      <3>1. mem'[r] = NoRows /\ pc'[r] = "done"
        BY <1>1, <1>2 DEF Write, Finish, TypeOK
      <3>2. \A q \in Requests \ {r} : pc[q] \notin Steps /\ mem'[q] = mem[q] /\ pc'[q] = pc[q]
        BY <1>1, <1>2 DEF Write, Finish, TypeOK, SerialInv, OneAtATime, Steps
      <3> QED
        BY <1>1, <3>1, <3>2 DEF UploadInv, IdleHoldsNothing, Steps
    <2>3. DirectoryAgreesWithFlags'
      BY <2>1 DEF DirectoryAgreesWithFlags, Existing, SerialInv, MemoryAgreesWithFlags
    <2> QED
      BY <2>2, <2>3 DEF MemoryAgreesWithFlags, SaveUpToDate, HoldsLiveRows, NoRows
  <1>3. ASSUME NEW r \in Requests, Load(r)
        PROVE  Rest'
    <2>1. \A q \in Requests, i \in ImageIds :
            mem'[q][i] = IF q = r THEN LoadedRows(rows)[i] ELSE mem[q][i]
      BY <1>1, <1>3 DEF Load, TypeOK
    <2>2. \A i \in ImageIds : LoadedRows(rows)[i] # None =>
            LoadedRows(rows)[i] = rows[i] /\ ~rows[i].deleted /\ rows[i] # None
      BY DEF LoadedRows, Live, Existing
    <2>3. rows' = rows /\ base' = base
      BY <1>3 DEF Load
    <2>4. \A q \in Requests : pc'[q] = "write" => pc[q] = "write" /\ q # r
      BY <1>1, <1>3 DEF Load, TypeOK
    <2>5. MemoryAgreesWithFlags'
      BY <2>1, <2>2 DEF SerialInv, MemoryAgreesWithFlags, DirectoryAgreesWithFlags, Existing
    <2>6. HoldsLiveRows'
      BY <2>1, <2>2, <2>3 DEF SerialInv, HoldsLiveRows
    <2>7. SaveUpToDate'
      BY <2>1, <2>3, <2>4 DEF SerialInv, SaveUpToDate
    <2> QED
      BY <2>3, <2>5, <2>6, <2>7 DEF SerialInv, DirectoryAgreesWithFlags, Existing
  <1>4. ASSUME NEW r \in Requests, UploadThumbnail(r)
        PROVE  Rest'
    <2> DEFINE row == NewRow(CurrentItem(r))
               i   == draft[r]
    <2>1. i \in ImageIds /\ rows[i] = None /\ next[r] \in DOMAIN payload[r]
      BY <1>1, <1>4 DEF UploadThumbnail, UploadInv, DraftsAreNew, DraftIsNew, TypeOK
    <2>2. row \in Row /\ row.dir = DirOf(row)
      BY <1>1, <2>1, CurrentItemIsItem, NewRowIsRow
    <2>3. \A q \in Requests, j \in ImageIds :
            mem'[q][j] = IF q = r /\ j = i THEN row ELSE mem[q][j]
      BY <1>1, <1>4, <2>1 DEF UploadThumbnail, TypeOK, Table
    <2>4. rows' = rows /\ base' = base
      BY <1>4 DEF UploadThumbnail
    <2>5. \A q \in Requests : pc'[q] = "write" => pc[q] = "write" /\ q # r
      BY <1>1, <1>4 DEF UploadThumbnail, TypeOK
    <2>6. MemoryAgreesWithFlags'
      BY <2>2, <2>3 DEF SerialInv, MemoryAgreesWithFlags
    <2>7. HoldsLiveRows'
      BY <2>1, <2>3, <2>4 DEF SerialInv, HoldsLiveRows
    <2>8. SaveUpToDate'
      BY <2>3, <2>4, <2>5 DEF SerialInv, SaveUpToDate
    <2> QED
      BY <2>4, <2>6, <2>7, <2>8 DEF SerialInv, DirectoryAgreesWithFlags, Existing
  <1>5. ASSUME NEW r \in Requests, UpdateItem(r)
        PROVE  Rest'
    <2> DEFINE item == CurrentItem(r)
               i    == item.id
               new  == UpdatedRow(item, mem[r][i])
    <2>1. item \in Item /\ i \in ImageIds /\ mem[r][i] \in Row
      BY <1>1, <1>5, NamedRow
    <2>2. \A q \in Requests, j \in ImageIds :
            mem'[q][j] = IF q = r /\ j = i THEN new ELSE mem[q][j]
      BY <1>1, <1>5, NamedRow
    <2>3. mem[r][i].dir = DirOf(mem[r][i])
      BY <2>1 DEF SerialInv, MemoryAgreesWithFlags
    <2>4. new.dir = DirOf(new)
      BY <2>1, <2>3, UpdatedRowIsRow
    <2>5. rows' = rows /\ base' = base /\ pc' = pc /\ pc[r] = "items"
      BY <1>5 DEF UpdateItem, AtItem
    <2>6. MemoryAgreesWithFlags'
      BY <2>2, <2>4 DEF SerialInv, MemoryAgreesWithFlags
    <2>7. HoldsLiveRows'
      BY <2>1, <2>2, <2>5 DEF SerialInv, HoldsLiveRows
    <2>8. SaveUpToDate'
      BY <2>2, <2>5 DEF SerialInv, SaveUpToDate
    <2> QED
      BY <2>5, <2>6, <2>7, <2>8 DEF SerialInv, DirectoryAgreesWithFlags, Existing
  <1>6. ASSUME NEW r \in Requests, BeginSave(r)
        PROVE  Rest'
    <2>1. rows' = rows /\ mem' = mem
      BY <1>6 DEF BeginSave
    <2>2. SaveUpToDate'
      BY <1>1, <1>6, <2>1 DEF BeginSave, SerialInv, SaveUpToDate, TypeOK
    <2> QED
      BY <2>1, <2>2 DEF SerialInv, MemoryAgreesWithFlags, HoldsLiveRows, DirectoryAgreesWithFlags,
                        Existing
  <1>7. ASSUME /\ rows' = rows
               /\ \A q \in Requests : mem'[q] \in {mem[q], NoRows}
               /\ \A q \in Requests : pc'[q] = "write" =>
                    pc[q] = "write" /\ base'[q] = base[q] /\ mem'[q] = mem[q]
        PROVE  Rest'
    BY <1>7 DEF SerialInv, MemoryAgreesWithFlags, SaveUpToDate, HoldsLiveRows,
                DirectoryAgreesWithFlags, Existing, NoRows
  <1>8. Rest'
    BY <1>1, <1>2, <1>3, <1>4, <1>5, <1>6, <1>7, StepKinds
  <1> QED
    BY <1>1, <1>8 DEF SerialInv

LEMMA SerialInvariant == SerialSpec => []SerialInv
  BY InitSerialInv, NextSerialInv, PTL DEF SerialSpec

\* While editors take turns, every row's paths are in the directory its active
\* and deleted flags call for, whatever fails.
THEOREM DirectoriesAgree == SerialSpec => []DirectoryAgreesWithFlags
  <1>1. SerialInv => DirectoryAgreesWithFlags
    BY DEF SerialInv
  <1> QED
    BY <1>1, SerialInvariant, PTL

(***************************************************************************)
(* Files when editors take turns                                           *)
(***************************************************************************)

LEMMA InitKeepInv == Init => KeepInv
  <1> SUFFICES ASSUME Init PROVE KeepInv
    OBVIOUS
  <1>1. SerialInv
    BY InitSerialInv
  <1>2. \A r \in Requests : mem[r] = NoRows /\ ItemsAhead(r) = {}
    BY DEF Init, ItemsAhead
  <1>3. moves = {}
    BY DEF Init
  <1>4. \A i \in Existing(rows), k \in Kinds : Stored(i, k)
    <2> SUFFICES ASSUME NEW i \in Existing(rows), NEW k \in Kinds PROVE Stored(i, k)
      OBVIOUS
    <2>1. rows[i].dir \in Dirs
      BY <1>1 DEF SerialInv, UploadInv, TypeOK, Table, Existing, Row
    <2>2. [id |-> i, kind |-> k, dir |-> rows[i].dir] \in store
      BY DEF Init, ObjectsOf
    <2> QED
      BY <2>1, <2>2 DEF Stored
  <1> QED
    BY <1>1, <1>2, <1>3, <1>4 DEF KeepInv, AheadUntouched, MovesSafe, FilesKept, NoRows

\* An item is ahead only while its request is served, one request at a time.
LEMMA OneHasItemsAhead ==
    ASSUME SerialInv, NEW r \in Requests, pc[r] \in Steps, NEW q \in Requests \ {r}
    PROVE  ItemsAhead(q) = {} /\ mem[q] = NoRows
  <1>1. payload[q] = <<>> /\ mem[q] = NoRows
    BY DEF SerialInv, OneAtATime, UploadInv, IdleHoldsNothing, Steps
  <1> QED
    BY <1>1 DEF ItemsAhead

\* An item ahead names an image.
LEMMA AheadIsImage ==
    ASSUME TypeOK, NEW r \in Requests, NEW n \in ItemsAhead(r)
    PROVE  payload[r][n].id \in ImageIds /\ payload[r][n].id \in Named(r) \ {None}
  <1>1. payload[r] \in Seq(Item) /\ n \in DOMAIN payload[r]
    BY DEF TypeOK, ItemsAhead
  <1>2. payload[r][n] \in Item
    BY <1>1
  <1>3. payload[r][n].id # None
    BY <1>1 DEF TypeOK, ItemsAhead
  <1> QED
    BY <1>1, <1>2, <1>3 DEF Item, Named

\* Ending requests and dropping moves leaves nothing ahead that was not.
LEMMA DropKeepsAhead ==
    ASSUME TypeOK, AheadUntouched, moves' \subseteq moves,
           \A q \in Requests : \/ payload'[q] = <<>>
                               \/ payload'[q] = payload[q] /\ next'[q] = next[q] /\ mem'[q] = mem[q]
    PROVE  AheadUntouched'
  <1> SUFFICES ASSUME NEW q \in Requests, NEW n \in ItemsAhead(q)'
               PROVE  LET i == payload'[q][n].id
                      IN  /\ \A m \in moves' : m.id # i
                          /\ mem'[q][i] # None => ~mem'[q][i].deleted
                          /\ \A l \in ItemsAhead(q)' : payload'[q][l].id = i => l = n
    BY DEF AheadUntouched
  <1>1. payload'[q] # <<>>
    BY DEF ItemsAhead
  <1>2. ItemsAhead(q)' = ItemsAhead(q) /\ payload'[q] = payload[q] /\ mem'[q] = mem[q]
    BY <1>1 DEF ItemsAhead
  <1> QED
    BY <1>2 DEF AheadUntouched

LEMMA NextAheadUntouched ==
    ASSUME SerialInv, AheadUntouched, [SerialNext]_vars
    PROVE  AheadUntouched'
  <1>0. TypeOK /\ UploadInv
    BY DEF SerialInv, UploadInv
  <1> DEFINE Ahead(q, n) == LET i == payload[q][n].id
                            IN  /\ \A m \in moves : m.id # i
                                /\ mem[q][i] # None => ~mem[q][i].deleted
                                /\ \A l \in ItemsAhead(q) : payload[q][l].id = i => l = n
  <1>1. ASSUME NEW r \in Requests, Fail(r) \/ Write(r) \/ UploadImage(r) \/ BeginSave(r)
        PROVE  AheadUntouched'
    <2>1. moves' \subseteq moves
      BY <1>1 DEF Fail, Write, UploadImage, BeginSave
    <2>2. \A q \in Requests : \/ payload'[q] = <<>>
                              \/ payload'[q] = payload[q] /\ next'[q] = next[q] /\ mem'[q] = mem[q]
      BY <1>0, <1>1 DEF Fail, Write, UploadImage, BeginSave, Finish, TypeOK
    <2> QED
      BY <1>0, <2>1, <2>2, DropKeepsAhead
  <1>2. ASSUME NEW cutOff, Restart(cutOff)
        PROVE  AheadUntouched'
    <2>1. moves' \subseteq moves
      BY <1>2 DEF Restart
    <2>2. \A q \in Requests : \/ payload'[q] = <<>>
                              \/ payload'[q] = payload[q] /\ next'[q] = next[q] /\ mem'[q] = mem[q]
      BY <1>2 DEF Restart
    <2> QED
      BY <1>0, <2>1, <2>2, DropKeepsAhead
  <1>3. ASSUME NEW r \in Requests, SerialArrive(r)
        PROVE  AheadUntouched'
    <2>1. ASSUME NEW p \in Payloads, Receive(r, p)
          PROVE  AheadUntouched'
      <3> SUFFICES ASSUME NEW q \in Requests, NEW n \in ItemsAhead(q)'
                   PROVE  Ahead(q, n)'
        BY DEF AheadUntouched
      <3>1. moves' = {}
        BY <1>3, <2>1 DEF SerialArrive, Quiescent, Receive
      <3>2. mem' = mem /\ mem[q] = NoRows
        BY <1>0, <1>3, <2>1 DEF SerialArrive, Quiescent, Receive, UploadInv, IdleHoldsNothing, Steps
      <3>3. q = r /\ payload'[r] = p
        BY <1>0, <1>3, <2>1
        DEF SerialArrive, Quiescent, Receive, UploadInv, TypeOK, IdleHoldsNothing, ItemsAhead
      <3>4. ~p[n].file /\ n \in DOMAIN p /\ ValidPayload(p)
        BY <2>1, <3>3 DEF ItemsAhead, Receive
      <3>5. \A l \in ItemsAhead(r)' : p[l].id = p[n].id => l = n
        BY <3>3, <3>4 DEF ItemsAhead, ValidPayload
      <3>6. p[n].id \in ImageIds
        <4>1. p \in Seq(Item)
          BY PayloadAssumption
        <4>2. p[n] \in Item
          BY <3>4, <4>1
        <4> QED
          BY <3>4, <4>2 DEF Item, ValidPayload
      <3> QED
        BY <3>1, <3>2, <3>3, <3>5, <3>6 DEF NoRows
    <2> QED
      BY <1>3, <1>1, <2>1 DEF SerialArrive, Arrive, Reject
  <1>4. ASSUME NEW r \in Requests, Load(r)
        PROVE  AheadUntouched'
    <2> SUFFICES ASSUME NEW q \in Requests, NEW n \in ItemsAhead(q)'
                 PROVE  Ahead(q, n)'
      BY DEF AheadUntouched
    <2>1. ItemsAhead(q)' = ItemsAhead(q) /\ payload' = payload /\ moves' = moves
      BY <1>4 DEF Load, ItemsAhead
    <2>2. q = r
      BY <1>4, <2>1, OneHasItemsAhead DEF Load, Steps
    <2>3. payload[r][n].id \in ImageIds
      BY <1>0, <2>1, <2>2, AheadIsImage
    <2>4. mem'[r] = LoadedRows(rows)
      BY <1>0, <1>4 DEF Load, TypeOK
    <2>5. \A i \in ImageIds : mem'[r][i] # None => ~mem'[r][i].deleted
      BY <2>4 DEF LoadedRows, Live
    <2> QED
      BY <2>1, <2>2, <2>3, <2>5 DEF AheadUntouched
  <1>5. ASSUME NEW r \in Requests, UploadThumbnail(r)
        PROVE  AheadUntouched'
    <2> SUFFICES ASSUME NEW q \in Requests, NEW n \in ItemsAhead(q)'
                 PROVE  Ahead(q, n)'
      BY DEF AheadUntouched
    <2>1. ItemsAhead(q)' \subseteq ItemsAhead(q) /\ payload' = payload /\ moves' = moves
      BY <1>0, <1>5 DEF UploadThumbnail, ItemsAhead, TypeOK
    <2>2. q = r
      BY <1>5, <2>1, OneHasItemsAhead DEF UploadThumbnail, Steps
    <2>3. payload[r][n].id \in ImageIds /\ payload[r][n].id \in Named(r)
      BY <1>0, <2>1, <2>2, AheadIsImage
    <2>4. draft[r] \in ImageIds /\ draft[r] # payload[r][n].id
      BY <1>0, <1>5, <2>3 DEF UploadThumbnail, UploadInv, DraftsAreNew, DraftIsNew, TypeOK
    <2>5. mem'[r][payload[r][n].id] = mem[r][payload[r][n].id]
      BY <1>0, <1>5, <2>3, <2>4 DEF UploadThumbnail, TypeOK, Table
    <2> QED
      BY <2>1, <2>2, <2>5 DEF AheadUntouched
  <1>6. ASSUME NEW r \in Requests, UpdateItem(r)
        PROVE  AheadUntouched'
    <2> SUFFICES ASSUME NEW q \in Requests, NEW n \in ItemsAhead(q)'
                 PROVE  Ahead(q, n)'
      BY DEF AheadUntouched
    <2>1. ItemsAhead(q)' \subseteq ItemsAhead(q) /\ payload' = payload
      BY <1>0, <1>6 DEF UpdateItem, ItemsAhead, TypeOK
    <2>2. q = r
      BY <1>6, <2>1, OneHasItemsAhead DEF UpdateItem, AtItem, Steps
    <2>3. payload[r][n].id \in ImageIds
      BY <1>0, <2>1, <2>2, AheadIsImage
    <2>4. next[r] \in ItemsAhead(r) /\ n # next[r]
      BY SMTT(30), <1>0, <1>6, <2>2 DEF UpdateItem, AtItem, CurrentItem, ItemsAhead, TypeOK
    <2>5. payload[r][n].id # CurrentItem(r).id
      BY <2>1, <2>2, <2>4 DEF AheadUntouched, CurrentItem
    <2>6. mem'[r][payload[r][n].id] = mem[r][payload[r][n].id]
      BY <1>0, <1>6, <2>3, <2>5, NamedRow
    <2>7. \A m \in moves' : m \in moves \/ m.id = CurrentItem(r).id
      BY <1>6 DEF UpdateItem, MovesOf
    <2> QED
      BY <2>1, <2>2, <2>5, <2>6, <2>7 DEF AheadUntouched
  <1>7. ASSUME NEW m \in moves, CopyObject(m)
        PROVE  AheadUntouched'
    <2>1. \A l \in moves' : \E k \in moves : l.id = k.id
      BY <1>0, <1>7 DEF CopyObject, TypeOK, Move
    <2>2. \A q \in Requests : ItemsAhead(q)' = ItemsAhead(q)
      BY <1>7 DEF CopyObject, request, ItemsAhead
    <2> QED
      BY <1>7, <2>1, <2>2 DEF CopyObject, request, AheadUntouched
  <1>8. ASSUME UNCHANGED request, moves' \subseteq moves
        PROVE  AheadUntouched'
    BY <1>0, <1>8, DropKeepsAhead DEF request
  <1> QED
    BY <1>3, <1>4, <1>5, <1>6, <1>7, <1>1, <1>2, <1>8
    DEF SerialNext, Progress, Serve, ServeMove, Disturb, LoadRefused, ImageNotFound,
        CopySourceMissing, DeleteSource, UploadFails, ThumbnailFails, QueryFails,
        MoveFails, Crash, DeleteProduct, vars, request

\* Steps that start no move and take nothing away from the storage.
LEMMA StoreGrowsKeepsMovesSafe ==
    ASSUME MovesSafe, moves' \subseteq moves, store \subseteq store'
    PROVE  MovesSafe'
  BY DEF MovesSafe, Target

LEMMA NextMovesSafe ==
    ASSUME SerialInv, AheadUntouched, MovesSafe, [SerialNext]_vars
    PROVE  MovesSafe'
  <1>0. TypeOK
    BY DEF SerialInv, UploadInv
  <1>1. ASSUME NEW r \in Requests, UpdateItem(r)
        PROVE  MovesSafe'
    <2> DEFINE item == CurrentItem(r)
               i    == item.id
               old  == mem[r][i]
               new  == UpdatedRow(item, old)
    <2>1. item \in Item /\ i \in ImageIds /\ old \in Row /\ new \in Row
      BY <1>0, <1>1, NamedRow
    <2>2. store' = store
      BY <1>1 DEF UpdateItem
    <2>3. CASE ~ChangesState(item, old)
      <3>1. moves' \subseteq moves
        BY <1>1, <2>3 DEF UpdateItem
      <3> QED
        BY <2>2, <3>1, StoreGrowsKeepsMovesSafe
    <2>4. CASE ChangesState(item, old)
      <3>1. next[r] \in ItemsAhead(r)
        BY SMTT(30), <1>0, <1>1 DEF UpdateItem, AtItem, CurrentItem, ItemsAhead, TypeOK
      <3>2. (\A m \in moves : m.id # i) /\ ~old.deleted
        BY <1>1, <3>1 DEF AheadUntouched, CurrentItem, UpdateItem
      <3>3. old.dir = DirOf(old)
        BY <2>1, <1>1 DEF SerialInv, MemoryAgreesWithFlags, UpdateItem
      <3>4. new.dir # old.dir
        BY <2>1, <2>4, <3>2, <3>3, StateChangeMoves
      <3>5. moves' = moves \cup MovesOf(r, i, old.dir, new.dir)
        BY <1>1, <2>4 DEF UpdateItem
      <3>6. \A m \in MovesOf(r, i, old.dir, new.dir) :
              m.id = i /\ m.from # m.to /\ m.stage # "delete"
        BY <3>4 DEF MovesOf
      <3>7. \A m, l \in MovesOf(r, i, old.dir, new.dir) : m.kind = l.kind => m = l
        BY DEF MovesOf
      <3> QED
        BY <2>2, <3>2, <3>5, <3>6, <3>7 DEF MovesSafe, Target
    <2> QED
      BY <2>3, <2>4
  <1>2. ASSUME NEW m \in moves, CopyObject(m)
        PROVE  MovesSafe'
    <2> DEFINE copied == [m EXCEPT !.stage = "delete"]
    <2>1. m \in Move
      BY <1>0 DEF TypeOK
    <2>2. /\ copied.id = m.id /\ copied.kind = m.kind
          /\ copied.from = m.from /\ copied.to = m.to /\ copied.stage = "delete"
      BY <2>1 DEF Move
    <2>3. moves' = (moves \ {m}) \cup {copied} /\ store' = store \cup {Target(m)}
      BY <1>2 DEF CopyObject
    <2>4. Target(copied) = Target(m)
      BY <2>2 DEF Target
    <2>5. \A l \in moves' : l.from # l.to /\ (l.stage = "delete" => Target(l) \in store')
      BY ZenonT(30), <2>2, <2>3, <2>4 DEF MovesSafe
    <2>6. \A l \in moves \ {m} : ~(l.id = m.id /\ l.kind = m.kind)
      BY DEF MovesSafe
    <2>7. \A k, l \in moves' : k.id = l.id /\ k.kind = l.kind => k = l
      <3> SUFFICES ASSUME NEW k \in moves', NEW l \in moves', k.id = l.id, k.kind = l.kind
                   PROVE  k = l
        OBVIOUS
      <3> HIDE DEF copied
      <3>1. CASE k \in moves \ {m} /\ l \in moves \ {m}
        BY <3>1 DEF MovesSafe
      <3>2. CASE k = copied /\ l = copied
        BY <3>2
      <3>3. CASE k = copied /\ l \in moves \ {m}
        BY <2>2, <2>6, <3>3
      <3>4. CASE l = copied /\ k \in moves \ {m}
        BY <2>2, <2>6, <3>4
      <3> QED
        BY <2>3, <3>1, <3>2, <3>3, <3>4
    <2> QED
      BY <2>5, <2>7 DEF MovesSafe, Target
  <1>3. ASSUME NEW m \in moves, DeleteSource(m)
        PROVE  MovesSafe'
    <2>1. moves' = moves \ {m} /\ store' = store \ {Source(m)}
      BY <1>3 DEF DeleteSource
    <2>2. \A l \in moves \ {m} : Target(l) # Source(m)
      BY DEF MovesSafe, Target, Source
    <2>3. \A l \in moves' : l.stage = "delete" => Target(l) \in store'
      BY <2>1, <2>2 DEF MovesSafe
    <2> QED
      BY <2>1, <2>3 DEF MovesSafe, Target
  <1>4. ASSUME moves' \subseteq moves, store \subseteq store'
        PROVE  MovesSafe'
    BY <1>4, StoreGrowsKeepsMovesSafe
  <1> QED
    BY <1>1, <1>2, <1>3, <1>4
    DEF SerialNext, SerialArrive, Arrive, Progress, Serve, ServeMove, Disturb,
        Receive, Reject, Load, LoadRefused, UploadImage, UploadThumbnail, ImageNotFound, BeginSave,
        Write, CopySourceMissing, UploadFails, ThumbnailFails, QueryFails,
        MoveFails, Crash, DeleteProduct, Fail, Restart, vars, request

\* Nothing that is kept gets lost.
LEMMA KeptStaysKept ==
    ASSUME KeepInv, [SerialNext]_vars, NEW i \in ImageIds, NEW k \in Kinds, Stored(i, k)
    PROVE  Stored(i, k)'
  <1>0. TypeOK
    BY DEF KeepInv, SerialInv, UploadInv
  <1>1. ASSUME NEW m \in moves, DeleteSource(m)
        PROVE  Stored(i, k)'
    <2>1. PICK d \in Dirs : [id |-> i, kind |-> k, dir |-> d] \in store
      BY DEF Stored
    <2>2. CASE [id |-> i, kind |-> k, dir |-> d] = Source(m)
      <3>1. m \in Move
        BY <1>0 DEF TypeOK
      <3>2. Target(m) \in store /\ m.from # m.to
        BY <1>1 DEF DeleteSource, KeepInv, MovesSafe
      <3>3. Target(m) \in store' /\ m.id = i /\ m.kind = k /\ m.to \in Dirs
        BY <1>1, <2>2, <3>1, <3>2 DEF DeleteSource, Target, Source, Move
      <3> QED
        BY <3>3 DEF Stored, Target
    <2>3. CASE [id |-> i, kind |-> k, dir |-> d] # Source(m)
      BY <1>1, <2>1, <2>3 DEF DeleteSource, Stored
    <2> QED
      BY <2>2, <2>3
  <1>2. ASSUME store \subseteq store'
        PROVE  Stored(i, k)'
    BY <1>2 DEF Stored
  <1> QED
    BY <1>1, <1>2
    DEF SerialNext, SerialArrive, Arrive, Progress, Serve, ServeMove, Disturb,
        Receive, Reject, Load, LoadRefused, UploadImage, UploadThumbnail, UpdateItem, ImageNotFound,
        BeginSave, Write, CopyObject, CopySourceMissing, UploadFails, ThumbnailFails, QueryFails,
        MoveFails, Crash, DeleteProduct, Fail, Restart, vars, request

LEMMA NextFilesKept ==
    ASSUME KeepInv, [SerialNext]_vars
    PROVE  FilesKept'
  <1>0. TypeOK /\ UploadInv /\ SerialInv /\ FilesKept /\ [Next]_vars
    BY SerialNextIsNext DEF KeepInv, SerialInv, UploadInv
  <1>1. \A i \in ImageIds, k \in Kinds : Stored(i, k) => Stored(i, k)'
    BY KeptStaysKept
  <1>2. ASSUME NEW r \in Requests, UploadThumbnail(r), NEW k \in Kinds
        PROVE  \E d \in Dirs : [id |-> draft[r], kind |-> k, dir |-> d] \in store'
    <2> DEFINE row == NewRow(CurrentItem(r))
    <2>1. next[r] \in DOMAIN payload[r] /\ DraftIsNew(r)
      BY <1>0, <1>2 DEF UploadThumbnail, TypeOK, UploadInv, DraftsAreNew
    <2>2. row.dir \in Dirs
      BY <1>0, <2>1, CurrentItemIsItem, NewRowIsRow DEF Row
    <2>3. StoredAt(draft[r], k, row) \in store'
      BY <1>2, <2>1 DEF UploadThumbnail, DraftIsNew, Kinds
    <2> QED
      BY <2>2, <2>3 DEF StoredAt
  <1>3. \A q \in Requests, i \in ImageIds : mem'[q][i] # None => \A k \in Kinds : Stored(i, k)'
    <2> SUFFICES ASSUME NEW q \in Requests, NEW i \in ImageIds, mem'[q][i] # None, NEW k \in Kinds
                 PROVE  Stored(i, k)'
      OBVIOUS
    <2>1. CASE mem[q][i] # None
      <3>1. Stored(i, k)
        BY <1>0, <2>1 DEF FilesKept
      <3> QED
        BY <1>1, <3>1
    <2>2. CASE rows[i] # None
      BY <1>0, <1>1, <2>2 DEF FilesKept, Existing
    <2>3. CASE mem[q][i] = None /\ rows[i] = None
      <3>1. ASSUME NEW r \in Requests, Load(r) PROVE FALSE
        <4>1. mem'[q][i] \in {mem[q][i], LoadedRows(rows)[i]}
          BY <1>0, <3>1 DEF Load, TypeOK
        <4> QED
          BY <2>3, <4>1 DEF LoadedRows
      <3>2. ASSUME NEW r \in Requests, UpdateItem(r) PROVE FALSE
        BY <1>0, <2>3, <3>2, NamedRow DEF UpdateItem
      <3>3. ASSUME NEW r \in Requests, UploadThumbnail(r) PROVE i = draft[r]
        BY <1>0, <2>3, <3>3 DEF UploadThumbnail, TypeOK, Table
      <3>4. mem'[q] \notin {mem[q], NoRows}
        BY <2>3 DEF NoRows
      <3>5. ASSUME NEW r \in Requests, Write(r) \/ BeginSave(r) PROVE FALSE
        <4>1. mem'[q] \in {mem[q], NoRows}
          BY <1>0, <3>5 DEF Write, BeginSave, Finish, TypeOK
        <4> QED
          BY <3>4, <4>1
      <3>6. PICK r \in Requests : UploadThumbnail(r)
        BY <1>0, <3>1, <3>2, <3>4, <3>5, StepKinds
      <3>7. \E d \in Dirs : [id |-> draft[r], kind |-> k, dir |-> d] \in store'
        BY <1>2, <3>6
      <3> QED
        BY <3>3, <3>6, <3>7 DEF Stored
    <2> QED
      BY <2>1, <2>2, <2>3
  <1>4. \A i \in Existing(rows)', k \in Kinds : Stored(i, k)'
    <2> SUFFICES ASSUME NEW i \in ImageIds, rows'[i] # None, NEW k \in Kinds
                 PROVE  Stored(i, k)'
      BY DEF Existing
    <2>1. ASSUME NEW r \in Requests, Write(r)
          PROVE  Stored(i, k)'
      BY <1>0, <1>1, <2>1, WriteIsMine DEF FilesKept, Existing
    <2>2. CASE rows' = rows
      BY <1>0, <1>1, <2>2 DEF FilesKept, Existing
    <2> QED
      BY <1>0, <2>1, <2>2, RowsChangeOnlyByWrite
  <1> QED
    BY <1>3, <1>4 DEF FilesKept

LEMMA NextKeepInv == KeepInv /\ [SerialNext]_vars => KeepInv'
  BY NextSerialInv, NextAheadUntouched, NextMovesSafe, NextFilesKept DEF KeepInv

\* While editors take turns, the inductive invariant holds that the properties of
\* rows, files and moves follow from.
THEOREM KeepInvariant == SerialSpec => []KeepInv
  BY InitKeepInv, NextKeepInv, PTL DEF SerialSpec

\* While editors take turns, no file of an image with a row is ever gone from
\* the storage, whatever fails and whenever the process is restarted.
THEOREM ImagesAreKept == SerialSpec => []NoImageLost
  <1>1. KeepInv => NoImageLost
    <2> SUFFICES ASSUME KeepInv, NEW i \in Existing(rows), NEW k \in Kinds
                 PROVE  \E o \in store : o.id = i /\ o.kind = k
      BY DEF NoImageLost
    <2>1. Stored(i, k)
      BY DEF KeepInv, FilesKept
    <2> QED
      BY <2>1 DEF Stored
  <1> QED
    BY <1>1, KeepInvariant, PTL

\* While editors take turns, nothing ever changes the row of a deleted image.
THEOREM DeletedStaysDeleted == SerialSpec => DeletedIsFinal
  <1>1. ASSUME SerialInv, [SerialNext]_vars, NEW i \in Existing(rows), rows[i].deleted
        PROVE  rows'[i] = rows[i]
    <2>1. rows' = rows \/ \E r \in Requests : Write(r)
      BY <1>1, SerialNextIsNext, RowsChangeOnlyByWrite
    <2>2. ASSUME NEW r \in Requests, Write(r)
          PROVE  rows'[i] = rows[i]
      <3>1. i \in ImageIds /\ rows[i] # None
        BY DEF Existing
      <3>2. mem[r][i] = None
        BY <1>1, <3>1 DEF SerialInv, HoldsLiveRows
      <3> QED
        BY <1>1, <2>2, <3>1, <3>2, WriteIsMine
    <2> QED
      BY <2>1, <2>2
  <1>2. SerialInv /\ [SerialNext]_vars =>
          [\A i \in Existing(rows) : rows[i].deleted => rows[i]' = rows[i]]_vars
    BY <1>1
  <1> QED
    BY <1>2, SerialInvariant, PTL DEF SerialSpec, DeletedIsFinal

(***************************************************************************)
(* The gallery                                                             *)
(***************************************************************************)

\* The files there is a copy of, the refinement mapping of Gallery.
Held == {<<o.id, o.kind>> : o \in store}

LEMMA InitGallery == Init => Gallery!Init
  <1> SUFFICES ASSUME Init
               PROVE  Gallery!Init
    OBVIOUS
  <1>1. rows \in InitialRows /\ store = ObjectsOf(rows)
    BY DEF Init
  <1>2. Held = {<<o.id, o.kind>> : o \in ObjectsOf(rows)}
    BY <1>1 DEF Held
  <1>3. \A i \in Existing(rows), k \in Kinds : <<i, k>> \in Held
    <2> TAKE i \in Existing(rows), k \in Kinds
    <2> DEFINE o == [id |-> i, kind |-> k, dir |-> rows[i].dir]
    <2>1. o \in store /\ o.id = i /\ o.kind = k
      BY <1>1 DEF ObjectsOf
    <2> QED
      BY <2>1 DEF Held
  <1>4. \A h \in Held : \E i \in Existing(rows), k \in Kinds : h = <<i, k>>
    BY <1>1 DEF Held, ObjectsOf
  <1>5. Held = UNION {Gallery!AllFiles(i) : i \in {j \in ImageIds : rows[j] # None}}
    BY <1>3, <1>4 DEF Gallery!AllFiles, Existing
  <1> QED
    BY <1>1, <1>5 DEF Gallery!Init, Held

LEMMA NextGallery ==
    ASSUME KeepInv, SerialInv', [SerialNext]_vars
    PROVE  [Gallery!Next]_Gallery!galleryVars
  <1>0. TypeOK /\ SerialInv
    BY DEF KeepInv, SerialInv, UploadInv
  <1>1. ASSUME NEW r \in Requests, Write(r)
        PROVE  Gallery!SaveRows
    <2>1. DOMAIN rows' = ImageIds /\ store' = store
      BY <1>1 DEF Write
    <2>2. ASSUME NEW i \in ImageIds
          PROVE  rows[i]' = rows[i] \/ Gallery!Added(i) \/ Gallery!Updated(i)
      <3>1. rows'[i] = IF mem[r][i] = None THEN rows[i] ELSE mem[r][i]
        BY <1>0, <1>1, WriteIsMine
      <3>2. CASE mem[r][i] = None
        BY <3>1, <3>2
      <3>3. CASE mem[r][i] # None
        <4>1. rows'[i] # None
          BY <3>1, <3>3
        <4>2. Gallery!Well(rows'[i])
          BY <4>1 DEF SerialInv, DirectoryAgreesWithFlags, Existing, DirOf, Place, Gallery!Well
        <4>3. CASE rows[i] = None
          <5>1. \A k \in Kinds : <<i, k>> \in Held
            <6> TAKE k \in Kinds
            <6>1. PICK d \in Dirs : [id |-> i, kind |-> k, dir |-> d] \in store
              BY <3>3 DEF KeepInv, FilesKept, Stored
            <6> QED
              BY <6>1 DEF Held
          <5> QED
            BY <4>2, <4>3, <5>1 DEF Gallery!Added, Gallery!AllFiles, Held
        <4>4. CASE rows[i] # None
          <5>1. ~rows[i].deleted
            BY <3>3, <4>4, <1>0 DEF SerialInv, HoldsLiveRows
          <5> QED
            BY <4>1, <4>2, <4>4, <5>1 DEF Gallery!Updated
        <4> QED
          BY <4>3, <4>4
      <3> QED
        BY <3>2, <3>3
    <2> QED
      BY <2>1, <2>2 DEF Gallery!SaveRows
  <1>2. ASSUME NEW r \in Requests, UploadImage(r) \/ UploadThumbnail(r)
        PROVE  Gallery!KeepFile
    <2>1. PICK o : o.id \in ImageIds /\ o.kind \in Kinds /\ store' = store \cup {o}
      BY <1>0, <1>2 DEF UploadImage, UploadThumbnail, StoredAt, Kinds, TypeOK
    <2>2. Held' = Held \cup {<<o.id, o.kind>>}
      BY <2>1 DEF Held
    <2> QED
      BY <1>2, <2>1, <2>2 DEF Gallery!KeepFile, Held, UploadImage, UploadThumbnail
  <1>3. ASSUME NEW m \in moves, CopyObject(m)
        PROVE  UNCHANGED Gallery!galleryVars
    <2>1. Source(m) \in store /\ store' = store \cup {Target(m)} /\ rows' = rows
      BY <1>3 DEF CopyObject
    <2>2. Source(m).id = Target(m).id /\ Source(m).kind = Target(m).kind
      BY DEF Source, Target
    <2>3. Held' = Held
      BY <2>1, <2>2 DEF Held
    <2> QED
      BY <2>1, <2>3 DEF Gallery!galleryVars, Held
  <1>4. ASSUME NEW m \in moves, DeleteSource(m)
        PROVE  UNCHANGED Gallery!galleryVars
    <2>1. store' = store \ {Source(m)} /\ rows' = rows /\ m.stage = "delete"
      BY <1>4 DEF DeleteSource
    <2>2. Target(m) \in store /\ m.from # m.to
      BY <2>1 DEF KeepInv, MovesSafe
    <2>3. Source(m).id = Target(m).id /\ Source(m).kind = Target(m).kind
          /\ Source(m) # Target(m)
      BY <2>2 DEF Source, Target
    <2>4. Held' = Held
      BY <2>1, <2>2, <2>3 DEF Held
    <2> QED
      BY <2>1, <2>4 DEF Gallery!galleryVars, Held
  <1>5. ASSUME rows' = rows, store' = store
        PROVE  UNCHANGED Gallery!galleryVars
    BY <1>5 DEF Gallery!galleryVars
  <1> QED
    BY <1>1, <1>2, <1>3, <1>4, <1>5
    DEF Gallery!Next, SerialNext, SerialArrive, Arrive, Progress, Serve, ServeMove, Disturb,
        Receive, Reject, Load, LoadRefused, UpdateItem, ImageNotFound,
        BeginSave, CopySourceMissing, UploadFails, ThumbnailFails, QueryFails,
        MoveFails, Crash, DeleteProduct, Fail, Restart, vars, request

\* While editors take turns the service implements the gallery: rows are saved
\* atomically, only for files that are kept, and no file that is kept is lost.
THEOREM GalleryImplemented == SerialSpec => ImplementsGallery
  <1>1. KeepInv => SerialInv
    BY DEF KeepInv
  <1> QED
    BY <1>1, InitGallery, NextGallery, KeepInvariant, PTL
    DEF SerialSpec, ImplementsGallery, Gallery!Spec
=============================================================================
