---------------------------- MODULE ProductImages ----------------------------
(***************************************************************************)
(* The images of one product: ProductImageService.bulkSave together with   *)
(* the two operations of CloudStorageService it starts, save and move.     *)
(*                                                                         *)
(* The database rows and the stored objects live in two systems that share *)
(* no transaction.  A request reads the rows, works on its own copy of     *)
(* them one item at a time, uploads files, starts moves it does not wait   *)
(* for, and writes its copy back at the end.  Between any two awaits other *)
(* requests and the moves they left behind take steps.                     *)
(*                                                                         *)
(* Abstracted: name and description (columns treated like main), product   *)
(* id, file contents and extensions, the response.                         *)
(***************************************************************************)
EXTENDS Naturals, Sequences, FiniteSets

CONSTANTS
    ImageIds,     \* ids of product images, stored and not yet generated
    Requests,     \* bulkSave calls; each is served once (bound on their number)
    MaxImages,    \* ProductImageConfigs.MAX_IMAGE_COUNT
    Payloads,     \* item lists a client may send
    InitialRows,  \* table contents the service may be started with
    Faults,       \* the failures that may happen, a subset of FaultKinds
    None          \* an absent field, an absent row

FaultKinds == {"storage", "thumbnail", "database", "crash"}

Kinds == {"image", "thumbnail"}
Dirs  == {"public", "private", "deleted"}

\* The columns of products_images that decide where the files belong, and
\* `main' for the columns that only carry data. `dir' stands for both paths:
\* every assignment to one of them comes with the same one to the other.
Row   == [active: BOOLEAN, deleted: BOOLEAN, main: BOOLEAN, dir: Dirs]
Table == [ImageIds -> Row \cup {None}]

\* SaveImageItemDto; `None' is an undefined field.
Item == [file: BOOLEAN, id: ImageIds \cup {None}, main: BOOLEAN \cup {None},
         active: BOOLEAN \cup {None}, delete: BOOLEAN \cup {None}]

Object == [id: ImageIds, kind: Kinds, dir: Dirs]

\* A move in the background: the request that started it and what is left.
Move == [by: Requests, id: ImageIds, kind: Kinds, from: Dirs, to: Dirs,
         stage: {"copy", "delete"}]

\* Where a request is: before it arrived, before its product is read, at an
\* item, between the two uploads of a new image, before and inside save().
Steps    == {"load", "items", "thumbnail", "write"}
Finished == {"done", "failed"}

(***************************************************************************)
(* Rows and items                                                          *)
(***************************************************************************)

\* The directory a state calls for: getProductImagesPath's first argument.
Place(active, deleted) ==
    IF deleted THEN "deleted" ELSE IF active THEN "public" ELSE "private"

DirOf(row) == Place(row.active, row.deleted)

\* The column of an update: the item's field unless it is undefined.
Given(field, column) == IF field # None THEN field ELSE column

NoRows == [i \in ImageIds |-> None]

Existing(table) == {i \in ImageIds : table[i] # None}
Live(table)     == {i \in Existing(table) : ~table[i].deleted}

\* Mutant: a new image is stored as private whatever its flags are.
NewRowPrivate(item) ==
    [active |-> item.active = TRUE, deleted |-> item.delete = TRUE,
     main |-> item.main = TRUE, dir |-> "private"]

\* The row of a new image: undefined flags are stored as false.
NewRow(item) ==
    [active  |-> item.active = TRUE,
     deleted |-> item.delete = TRUE,
     main    |-> item.main = TRUE,
     dir     |-> Place(item.active = TRUE, item.delete = TRUE)]

\* Mutant: deleting an image is not counted as a change of its state.
ChangesStateIgnoringDelete(item, row) ==
    item.active # None /\ item.active # row.active

\* Whether an update item changes the register state of a row.
ChangesState(item, row) ==
    \/ item.active # None /\ item.active # row.active
    \/ item.delete # None /\ item.delete # row.deleted

\* Mutant: an undefined flag is written like any other.
UpdatedRowUndefined(item, row) == [row EXCEPT !.main = item.main]

\* The row after an update item. A delete flag that differs from the row's sets
\* deletedAt; the paths are recomputed only with the state.
UpdatedRow(item, row) ==
    LET active  == Given(item.active, row.active)
        deleted == IF item.delete # None /\ item.delete # row.deleted
                   THEN TRUE ELSE row.deleted
    IN  [active  |-> active,
         deleted |-> deleted,
         main    |-> Given(item.main, row.main),
         dir     |-> IF ChangesState(item, row) THEN Place(active, deleted) ELSE row.dir]

\* Mutant: an image may be named by two items.
ValidPayloadRepeatedIds(p) ==
    /\ p # <<>>
    /\ \A n \in DOMAIN p : p[n].file <=> p[n].id = None

\* validateImageData: a non-empty list, each item naming either a file or an
\* image, at most one main, and no image twice.
ValidPayload(p) ==
    /\ p # <<>>
    /\ \A n \in DOMAIN p : p[n].file <=> p[n].id = None
    /\ \A m, n \in DOMAIN p : p[m].main = TRUE /\ p[n].main = TRUE => m = n
    /\ \A m, n \in DOMAIN p : p[m].id = p[n].id /\ p[m].id # None => m = n

Files(p)   == {n \in DOMAIN p : p[n].file}
Deletes(p) == {n \in DOMAIN p : p[n].delete = TRUE}

\* Mutant: the limit is compared with the images there were before.
WithinLimitBefore(count, p) == count <= MaxImages

\* validateImageDataCount, with the deletions moved to the other side so that
\* nothing is negative.
WithinLimit(count, p) ==
    count + Cardinality(Files(p)) <= MaxImages + Cardinality(Deletes(p))

ObjectsOf(table) ==
    {[id |-> i, kind |-> k, dir |-> table[i].dir] : i \in Existing(table), k \in Kinds}

\* What a run may be started with: the rows and files quiet serving leaves. A
\* table has finitely many rows.
Consistent(table) ==
    /\ IsFiniteSet(Existing(table))
    /\ \A i \in Existing(table) : table[i].dir = DirOf(table[i])
    /\ Cardinality(Live(table)) <= MaxImages

ASSUME NoneAssumption    == None \notin BOOLEAN \cup ImageIds \cup Row
ASSUME LimitAssumption   == MaxImages \in Nat
ASSUME PayloadAssumption == Payloads \subseteq Seq(Item)
ASSUME InitialAssumption == InitialRows \subseteq Table /\ \A t \in InitialRows : Consistent(t)
ASSUME FaultAssumption   == Faults \subseteq FaultKinds

-----------------------------------------------------------------------------
(***************************************************************************)
(* State                                                                   *)
(***************************************************************************)
VARIABLES
    productLive,  \* the product's row exists and is not soft-deleted
    rows,         \* table products_images, the rows of this product
    store,        \* objects in the bucket
    moves,        \* calls of move() nobody waits for
    pc,           \* where each request is
    payload,      \* the items each request was sent
    next,         \* index of the item it is at
    draft,        \* id generated for the image being uploaded
    mem,          \* product.images: the request's own copy of the rows
    base          \* the rows as save() loaded them to find what changed

request == <<pc, payload, next, draft, mem, base>>
vars    == <<productLive, rows, store, moves, pc, payload, next, draft, mem, base>>

Init ==
    /\ productLive = TRUE
    /\ rows \in InitialRows
    /\ store = ObjectsOf(rows)
    /\ moves = {}
    /\ pc = [r \in Requests |-> "idle"]
    /\ payload = [r \in Requests |-> <<>>]
    /\ next = [r \in Requests |-> 1]
    /\ draft = [r \in Requests |-> None]
    /\ mem = [r \in Requests |-> NoRows]
    /\ base = [r \in Requests |-> NoRows]

\* The request ends and forgets everything it held.
Finish(r, outcome) ==
    /\ pc' = [pc EXCEPT ![r] = outcome]
    /\ payload' = [payload EXCEPT ![r] = <<>>]
    /\ next' = [next EXCEPT ![r] = 1]
    /\ draft' = [draft EXCEPT ![r] = None]
    /\ mem' = [mem EXCEPT ![r] = NoRows]
    /\ base' = [base EXCEPT ![r] = NoRows]

\* The request ends with an error; nothing it did elsewhere is undone.
Fail(r) == Finish(r, "failed") /\ UNCHANGED <<productLive, rows, store, moves>>

\* The process exits and is started again: every request and move it was
\* serving is gone, and "failed" also marks the answered requests in cutOff,
\* whose moves a failure ended. What is stored stays as it is.
Restart(cutOff) ==
    /\ pc' = [r \in Requests |-> IF pc[r] \in Steps \/ r \in cutOff THEN "failed" ELSE pc[r]]
    /\ payload' = [r \in Requests |-> <<>>]
    /\ next' = [r \in Requests |-> 1]
    /\ draft' = [r \in Requests |-> None]
    /\ mem' = [r \in Requests |-> NoRows]
    /\ base' = [r \in Requests |-> NoRows]
    /\ moves' = {}
    /\ UNCHANGED <<productLive, rows, store>>

(***************************************************************************)
(* The steps of a request                                                  *)
(***************************************************************************)

\* A call with a well-formed list of items.
Receive(r, p) ==
    /\ pc[r] = "idle"
    /\ ValidPayload(p)
    /\ pc' = [pc EXCEPT ![r] = "load"]
    /\ payload' = [payload EXCEPT ![r] = p]
    /\ UNCHANGED <<productLive, rows, store, moves, next, draft, mem, base>>

\* A call validateImageData rejects (422).
Reject(r, p) ==
    /\ pc[r] = "idle"
    /\ ~ValidPayload(p)
    /\ Fail(r)

\* Mutant: the query joins soft-deleted images too.
LoadedRowsWithDeleted(table) == table

\* The rows the query of bulkSave joins: soft-deleted ones are left out.
LoadedRows(table) == [i \in ImageIds |-> IF i \in Live(table) THEN table[i] ELSE None]

\* Reads the product and its images.
Load(r) ==
    /\ pc[r] = "load"
    /\ productLive
    /\ WithinLimit(Cardinality(Live(rows)), payload[r])
    /\ pc' = [pc EXCEPT ![r] = "items"]
    /\ mem' = [mem EXCEPT ![r] = LoadedRows(rows)]
    /\ UNCHANGED <<productLive, rows, store, moves, payload, next, draft, base>>

\* Mutant: a missing product is not answered.
LoadRefusedOnlyByLimit(r) ==
    /\ pc[r] = "load"
    /\ ~WithinLimit(Cardinality(Live(rows)), payload[r])
    /\ Fail(r)

\* There is no such product (404), or it would have too many images (400).
LoadRefused(r) ==
    /\ pc[r] = "load"
    /\ ~productLive \/ ~WithinLimit(Cardinality(Live(rows)), payload[r])
    /\ Fail(r)

AtItem(r)      == pc[r] = "items" /\ next[r] \in DOMAIN payload[r]
CurrentItem(r) == payload[r][next[r]]

\* uuidv4: an id no row or object has and no request in progress names.
Fresh(i) ==
    /\ rows[i] = None
    /\ \A o \in store : o.id # i
    /\ \A r \in Requests : \A n \in DOMAIN payload[r] : payload[r][n].id # i

StoredAt(i, kind, row) == [id |-> i, kind |-> kind, dir |-> row.dir]

\* First half of a new image: its file is stored under a fresh id.
UploadImage(r) ==
    /\ AtItem(r)
    /\ CurrentItem(r).file
    /\ \E i \in ImageIds :
         /\ Fresh(i)
         /\ draft' = [draft EXCEPT ![r] = i]
         /\ store' = store \cup {StoredAt(i, "image", NewRow(CurrentItem(r)))}
    /\ pc' = [pc EXCEPT ![r] = "thumbnail"]
    /\ UNCHANGED <<productLive, rows, moves, payload, next, mem, base>>

\* Mutant: the thumbnail is not waited for, and its upload never happens.
UploadThumbnailForgotten(r) ==
    /\ pc[r] = "thumbnail"
    /\ mem' = [mem EXCEPT ![r][draft[r]] = NewRow(CurrentItem(r))]
    /\ draft' = [draft EXCEPT ![r] = None]
    /\ next' = [next EXCEPT ![r] = @ + 1]
    /\ pc' = [pc EXCEPT ![r] = "items"]
    /\ UNCHANGED <<productLive, rows, store, moves, payload, base>>

\* Second half: the thumbnail is made and stored, the row added in memory.
UploadThumbnail(r) ==
    /\ pc[r] = "thumbnail"
    /\ store' = store \cup {StoredAt(draft[r], "thumbnail", NewRow(CurrentItem(r)))}
    /\ mem' = [mem EXCEPT ![r][draft[r]] = NewRow(CurrentItem(r))]
    /\ draft' = [draft EXCEPT ![r] = None]
    /\ next' = [next EXCEPT ![r] = @ + 1]
    /\ pc' = [pc EXCEPT ![r] = "items"]
    /\ UNCHANGED <<productLive, rows, moves, payload, base>>

MovesOf(r, i, from, to) ==
    {[by |-> r, id |-> i, kind |-> k, from |-> from, to |-> to, stage |-> "copy"] : k \in Kinds}

\* An update item: the row changes in memory; if its state did, both files
\* start moving and the loop goes on without waiting for them.
UpdateItem(r) ==
    /\ AtItem(r)
    /\ ~CurrentItem(r).file
    /\ LET item == CurrentItem(r)
            i    == item.id
            old  == mem[r][i]
            new  == UpdatedRow(item, old)
       IN  /\ old # None
           /\ mem' = [mem EXCEPT ![r][i] = new]
           /\ moves' = IF ChangesState(item, old)
                       THEN moves \cup MovesOf(r, i, old.dir, new.dir)
                       ELSE moves
    /\ next' = [next EXCEPT ![r] = @ + 1]
    /\ UNCHANGED <<productLive, rows, store, pc, payload, draft, base>>

\* An update item for an image the product does not have (404): the items
\* before it have been carried out already.
ImageNotFound(r) ==
    /\ AtItem(r)
    /\ ~CurrentItem(r).file
    /\ mem[r][CurrentItem(r).id] = None
    /\ Fail(r)

\* After the last item save() first loads the rows of the images it is given,
\* deleted ones included, outside of any transaction ...
BeginSave(r) ==
    /\ pc[r] = "items"
    /\ next[r] = Len(payload[r]) + 1
    /\ base' = [base EXCEPT ![r] =
                   [i \in ImageIds |-> IF mem[r][i] = None THEN None ELSE rows[i]]]
    /\ pc' = [pc EXCEPT ![r] = "write"]
    /\ UNCHANGED <<productLive, rows, store, moves, payload, next, draft, mem>>

\* ... and then writes, in one transaction, the columns in which the request's
\* copy differs from what it loaded, inserting the rows it did not find.
Merged(row, mine, loaded) ==
    IF mine = None THEN row
    ELSE IF loaded = None THEN mine
    ELSE LET Column(c) == IF mine[c] # loaded[c] THEN mine[c] ELSE row[c]
         IN  [active |-> Column("active"), deleted |-> Column("deleted"),
              main |-> Column("main"), dir |-> Column("dir")]

Write(r) ==
    /\ pc[r] = "write"
    /\ rows' = [i \in ImageIds |-> Merged(rows[i], mem[r][i], base[r][i])]
    /\ Finish(r, "done")
    /\ UNCHANGED <<productLive, store, moves>>

(***************************************************************************)
(* The moves left in the background: copy, then delete                     *)
(***************************************************************************)

Target(m) == [id |-> m.id, kind |-> m.kind, dir |-> m.to]
Source(m) == [id |-> m.id, kind |-> m.kind, dir |-> m.from]

\* Mutant: the source is deleted first.
CopyObjectAfterDelete(m) ==
    /\ m.stage = "copy"
    /\ Source(m) \in store
    /\ store' = store \ {Source(m)}
    /\ moves' = (moves \ {m}) \cup {[m EXCEPT !.stage = "delete"]}
    /\ UNCHANGED <<productLive, rows, request>>

\* Mutant: the copy is not followed by anything.
CopyObjectOnly(m) ==
    /\ m.stage = "copy"
    /\ Source(m) \in store
    /\ store' = store \cup {Target(m)}
    /\ UNCHANGED <<productLive, rows, moves, request>>

CopyObject(m) ==
    /\ m.stage = "copy"
    /\ Source(m) \in store
    /\ store' = store \cup {Target(m)}
    /\ moves' = (moves \ {m}) \cup {[m EXCEPT !.stage = "delete"]}
    /\ UNCHANGED <<productLive, rows, request>>

\* NoSuchKey: nobody handles the rejected promise, so the process exits.
CopySourceMissing(m) ==
    /\ m.stage = "copy"
    /\ Source(m) \notin store
    /\ Restart({})

\* Mutant: nothing is deleted.
DeleteSourceSkipped(m) ==
    /\ m.stage = "delete"
    /\ moves' = moves \ {m}
    /\ UNCHANGED <<productLive, rows, store, request>>

DeleteSource(m) ==
    /\ m.stage = "delete"
    /\ store' = store \ {Source(m)}
    /\ moves' = moves \ {m}
    /\ UNCHANGED <<productLive, rows, request>>

(***************************************************************************)
(* Failures                                                                *)
(***************************************************************************)

\* A call of the storage fails in the middle of a new image. That a failed
\* upload did store the object is covered by a failure right after it.
UploadFails(r) ==
    /\ "storage" \in Faults
    /\ pc[r] = "thumbnail" \/ (AtItem(r) /\ CurrentItem(r).file)
    /\ Fail(r)

\* The file is no image a thumbnail can be made of (422).
ThumbnailFails(r) ==
    /\ "thumbnail" \in Faults
    /\ pc[r] = "thumbnail"
    /\ Fail(r)

\* A query or the transaction of save() fails.
QueryFails(r) ==
    /\ "database" \in Faults
    /\ \/ pc[r] \in {"load", "write"}
       \/ pc[r] = "items" /\ next[r] = Len(payload[r]) + 1
    /\ Fail(r)

\* Requests, answered or not, with moves under way.
Moving == {m.by : m \in moves}

\* A call of the storage fails in a move: again an unhandled rejection.
MoveFails(m) == "storage" \in Faults /\ Restart(Moving)

Crash ==
    /\ "crash" \in Faults
    /\ moves # {} \/ \E r \in Requests : pc[r] \in Steps
    /\ Restart(Moving)

\* ProductService.delete, in another request.
DeleteProduct ==
    /\ productLive
    /\ productLive' = FALSE
    /\ UNCHANGED <<rows, store, moves, request>>

-----------------------------------------------------------------------------
(***************************************************************************)
(* Specifications                                                          *)
(***************************************************************************)
Arrive(r) == \E p \in Payloads : Receive(r, p) \/ Reject(r, p)

Serve(r) ==
    \/ Load(r) \/ LoadRefused(r)
    \/ UploadImage(r) \/ UploadThumbnail(r)
    \/ UpdateItem(r) \/ ImageNotFound(r)
    \/ BeginSave(r) \/ Write(r)

ServeMove(m) == CopyObject(m) \/ CopySourceMissing(m) \/ DeleteSource(m)

Disturb ==
    \/ \E r \in Requests : UploadFails(r) \/ ThumbnailFails(r) \/ QueryFails(r)
    \/ \E m \in moves : MoveFails(m)
    \/ Crash
    \/ DeleteProduct

Progress == (\E r \in Requests : Serve(r)) \/ (\E m \in moves : ServeMove(m))

\* Requests arrive whenever they like, as the server lets them.
Next == (\E r \in Requests : Arrive(r)) \/ Progress \/ Disturb
Spec == Init /\ [][Next]_vars

\* Nothing is in progress: no request and no move.
Quiescent == moves = {} /\ \A r \in Requests : pc[r] \notin Steps

\* The product's editors take turns: a request is sent only when the one
\* before it has been answered and its moves have ended.
SerialArrive(r) == Quiescent /\ Arrive(r)
SerialNext == (\E r \in Requests : SerialArrive(r)) \/ Progress \/ Disturb
SerialSpec == Init /\ [][SerialNext]_vars

\* Whatever was received is carried on: the event loop resumes every handler
\* whose promise settled, and the database and the storage answer every call.
Fairness == WF_vars(\E m \in moves : ServeMove(m)) /\ \A r \in Requests : WF_vars(Serve(r))
FairSpec       == Spec /\ Fairness
SerialFairSpec == SerialSpec /\ Fairness

-----------------------------------------------------------------------------
(***************************************************************************)
(* Properties                                                              *)
(***************************************************************************)

\* The type of every variable; an image being uploaded has an id and an item,
\* and every item in progress names either a file or an image.
TypeOK ==
    /\ productLive \in BOOLEAN
    /\ rows \in Table
    /\ store \subseteq Object
    /\ moves \subseteq Move
    /\ pc \in [Requests -> {"idle"} \cup Steps \cup Finished]
    /\ payload \in [Requests -> Seq(Item)]
    /\ next \in [Requests -> Nat \ {0}]
    /\ draft \in [Requests -> ImageIds \cup {None}]
    /\ mem \in [Requests -> Table]
    /\ base \in [Requests -> Table]
    /\ \A r \in Requests : pc[r] = "thumbnail" =>
         draft[r] \in ImageIds /\ next[r] \in DOMAIN payload[r]
    /\ \A r \in Requests : \A n \in DOMAIN payload[r] :
         payload[r][n].file <=> payload[r][n].id = None

\* A row is inserted only when both of its files are already stored where it
\* says: bulkSave uploads before it saves, and nothing a concurrent request,
\* a move or a failure does in between takes the files away.
InsertedAfterUpload ==
    [][\A i \in ImageIds : rows[i] = None /\ rows[i]' # None =>
         \A k \in Kinds : StoredAt(i, k, rows[i]') \in store]_vars

\* When editors take turns, a row's paths are in the directory that its
\* active and deleted flags call for (comment above the call of move()); checked
\* as a part of TurnsInv.
DirectoryAgreesWithFlags ==
    \A i \in Existing(rows) : rows[i].dir = DirOf(rows[i])

\* When editors take turns, both files of every row are stored somewhere, in
\* the middle of a move, after a failure or a crash as well.
NoImageLost ==
    \A i \in Existing(rows), k \in Kinds : \E o \in store : o.id = i /\ o.kind = k

\* When editors take turns, a product never has more images than
\* validateImageDataCount allows.
CountWithinMax == Cardinality(Live(rows)) <= MaxImages

\* When editors take turns, a deleted image stays as it was deleted.
DeletedIsFinal ==
    [][\A i \in Existing(rows) : rows[i].deleted => rows[i]' = rows[i]]_vars

\* However two editors race, each call that counts too early brings no more above
\* the limit than the new files of one list: the limit of validateImageDataCount
\* is exceeded when calls race, but never by all they add together.
ExcessBounded ==
    \E p \in Payloads :
        Cardinality(Live(rows))
            <= MaxImages + (Cardinality(Requests) - 1) * Cardinality(Files(p))

\* When editors take turns and nothing they sent was refused half-way or cut off
\* by a restart, the bucket holds exactly the files the rows name, once the moves
\* have ended.
StorageMatchesRows ==
    Quiescent /\ (\A r \in Requests : pc[r] # "failed") => store = ObjectsOf(rows)

\* Every request that was received is answered, and every move ends, however
\* the handlers interleave.
Answered == \A r \in Requests : pc[r] = "load" ~> pc[r] \in Finished
MovesEnd == []<>(moves = {})

\* When editors take turns and no call fails or is cut off, what was saved takes
\* effect: again and again the bucket is as the rows say, so no change is left
\* half-moved.
TakesEffect == []<>((\A r \in Requests : pc[r] # "failed") => store = ObjectsOf(rows))

\* While editors take turns the service implements the gallery.
Gallery == INSTANCE ImageGallery WITH held <- {<<o.id, o.kind>> : o \in store}
ImplementsGallery == Gallery!Spec
=============================================================================
