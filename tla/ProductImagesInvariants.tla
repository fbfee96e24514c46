----------------------- MODULE ProductImagesInvariants -----------------------
(***************************************************************************)
(* The inductive invariants the properties of ProductImages follow from.   *)
(* The first group holds however requests interleave, the second when      *)
(* editors take turns.                                                     *)
(***************************************************************************)
EXTENDS ProductImages

Stored(i, k) == \E d \in Dirs : [id |-> i, kind |-> k, dir |-> d] \in store

Named(r) == {payload[r][n].id : n \in DOMAIN payload[r]}

(***************************************************************************)
(* However requests interleave                                             *)
(***************************************************************************)

\* Moves are only ever started for images that have a row.
MovesOfRows == \A m \in moves : rows[m.id] # None

\* The files of a row that is only in memory are where the row says.
PendingRowsStored ==
    \A r \in Requests, i \in ImageIds : mem[r][i] # None /\ rows[i] = None =>
        \A k \in Kinds : StoredAt(i, k, mem[r][i]) \in store

\* save() found no row that is not there.
LoadedRowsExist ==
    \A r \in Requests, i \in ImageIds : base[r][i] # None => rows[i] # None

\* An image a client names is not one the request is creating.
NamedRowsExist ==
    \A r \in Requests : \A i \in Named(r) \ {None} : mem[r][i] # None => rows[i] # None

\* An image whose upload has begun is nobody else's yet.
DraftIsNew(r) ==
    /\ rows[draft[r]] = None
    /\ StoredAt(draft[r], "image", NewRow(CurrentItem(r))) \in store
    /\ draft[r] \notin Named(r)
    /\ \A q \in Requests : mem[q][draft[r]] = None
    /\ \A q \in Requests \ {r} : pc[q] = "thumbnail" => draft[q] # draft[r]

DraftsAreNew == \A r \in Requests : pc[r] = "thumbnail" => DraftIsNew(r)

\* A request outside the loop holds no rows, and outside bulkSave no items.
IdleHoldsNothing ==
    \A r \in Requests :
        /\ pc[r] \notin {"items", "thumbnail", "write"} => mem[r] = NoRows
        /\ pc[r] \notin Steps => payload[r] = <<>>

UploadInv ==
    /\ TypeOK
    /\ MovesOfRows
    /\ PendingRowsStored
    /\ LoadedRowsExist
    /\ NamedRowsExist
    /\ DraftsAreNew
    /\ IdleHoldsNothing

(***************************************************************************)
(* When editors take turns                                                 *)
(***************************************************************************)

OneAtATime == \A r, q \in Requests : pc[r] \in Steps /\ pc[q] \in Steps => r = q

\* Rows in memory name the directory their flags call for as well.
MemoryAgreesWithFlags ==
    \A r \in Requests, i \in ImageIds : mem[r][i] # None => mem[r][i].dir = DirOf(mem[r][i])

\* What save() loaded is still what is stored when it writes.
SaveUpToDate ==
    \A r \in Requests : pc[r] = "write" =>
        \A i \in ImageIds : mem[r][i] # None => base[r][i] = rows[i]

\* A request holds no image that is deleted in the database.
HoldsLiveRows ==
    \A r \in Requests, i \in ImageIds : mem[r][i] # None /\ rows[i] # None => ~rows[i].deleted

SerialInv ==
    /\ UploadInv
    /\ OneAtATime
    /\ MemoryAgreesWithFlags
    /\ SaveUpToDate
    /\ HoldsLiveRows
    /\ DirectoryAgreesWithFlags

\* The items a request has not come to name images that no move is about, that
\* it has not deleted and that no later item names.
ItemsAhead(r) == {n \in DOMAIN payload[r] : n >= next[r] /\ ~payload[r][n].file}

AheadUntouched ==
    \A r \in Requests : \A n \in ItemsAhead(r) :
        LET i == payload[r][n].id
        IN  /\ \A m \in moves : m.id # i
            /\ mem[r][i] # None => ~mem[r][i].deleted
            /\ \A l \in ItemsAhead(r) : payload[r][l].id = i => l = n

\* A file is moved by one move at a time, to another place, and the source is
\* deleted only when there is a copy.
MovesSafe ==
    /\ \A m \in moves : m.from # m.to /\ (m.stage = "delete" => Target(m) \in store)
    /\ \A m, l \in moves : m.id = l.id /\ m.kind = l.kind => m = l

\* The files of rows, stored or in memory, are kept somewhere.
FilesKept ==
    /\ \A i \in Existing(rows), k \in Kinds : Stored(i, k)
    /\ \A r \in Requests, i \in ImageIds : mem[r][i] # None => \A k \in Kinds : Stored(i, k)

KeepInv ==
    /\ SerialInv
    /\ AheadUntouched
    /\ MovesSafe
    /\ FilesKept

(***************************************************************************)
(* The number of images, when editors take turns                           *)
(***************************************************************************)
Holding == {"items", "thumbnail", "write"}

\* The new images and the deletions a request has not come to.
FilesAhead(r)   == {n \in Files(payload[r]) : n >= next[r]}
DeletesAhead(r) == {n \in Deletes(payload[r]) : n >= next[r]}

\* A request that has read the product has a copy of every live row.
HoldsAllLive ==
    \A r \in Requests : pc[r] \in Holding => Live(rows) \subseteq Existing(mem[r])

\* However far a request is, what it holds and what it has yet to add is
\* within the limit once its remaining deletions are carried out.
WithinBudget ==
    \A r \in Requests : pc[r] \in Holding =>
        /\ IsFiniteSet(Live(mem[r]))
        /\ Cardinality(Live(mem[r])) + Cardinality(FilesAhead(r))
             <= MaxImages + Cardinality(DeletesAhead(r))

\* A request starts at the first item, uploads only items with a file, and
\* reaches save() after the last one.
StepsFitItems ==
    \A r \in Requests :
        /\ pc[r] \in {"idle", "load"} => next[r] = 1
        /\ pc[r] = "thumbnail" => CurrentItem(r).file
        /\ pc[r] = "write" => next[r] = Len(payload[r]) + 1

CountInv ==
    /\ HoldsAllLive
    /\ WithinBudget
    /\ StepsFitItems
    /\ IsFiniteSet(Live(rows))
    /\ CountWithinMax

\* All that holds while editors take turns, whatever fails.
TurnsInv == KeepInv /\ CountInv

(***************************************************************************)
(* The bucket, when editors take turns and nothing was refused half-way    *)
(***************************************************************************)
NoneFailed == \A r \in Requests : pc[r] # "failed"

\* The row that is to come true: the copy of the request that holds one,
\* otherwise what is stored.
InForceOf(held, table, i) ==
    IF \E r \in Requests : held[r][i] # None
    THEN held[CHOOSE r \in Requests : held[r][i] # None][i]
    ELSE table[i]

RowInForce(i) == InForceOf(mem, rows, i)

IsAt(i, k, d)  == [id |-> i, kind |-> k, dir |-> d] \in store
About(m, i, k) == m.id = i /\ m.kind = k

Uploading(i, d) ==
    \E r \in Requests : pc[r] = "thumbnail" /\ draft[r] = i /\ d = NewRow(CurrentItem(r)).dir

\* A move leads to where the row in force says.
MovesLeadToRows ==
    \A m \in moves : RowInForce(m.id) # None /\ m.to = RowInForce(m.id).dir

\* A file that is being moved is at the source, and from the copy on at both places.
MovedFilesExact ==
    \A m \in moves, d \in Dirs :
        IsAt(m.id, m.kind, d) <=> d = m.from \/ (m.stage = "delete" /\ d = m.to)

\* A file that is at rest is where the row in force says and nowhere else.
RestingFilesExact ==
    \A i \in ImageIds, k \in Kinds :
        RowInForce(i) # None /\ (\A m \in moves : ~About(m, i, k)) =>
            \A d \in Dirs : IsAt(i, k, d) <=> d = RowInForce(i).dir

\* Of an image without a row only the upload in progress is stored.
UploadedFilesExact ==
    \A i \in ImageIds, k \in Kinds, d \in Dirs :
        RowInForce(i) = None => (IsAt(i, k, d) <=> k = "image" /\ Uploading(i, d))

FilesExact ==
    /\ MovesLeadToRows
    /\ MovedFilesExact
    /\ RestingFilesExact
    /\ UploadedFilesExact

SettleInv == NoneFailed => FilesExact
===============================================================================
