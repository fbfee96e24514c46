---------------------------- MODULE ImageGallery ----------------------------
(***************************************************************************)
(* What the images of a product promise to those who edit them, whatever   *)
(* fails on the way: saving is atomic, a row is only ever added once both  *)
(* of its files are kept, what is kept stays kept, a deleted image stays   *)
(* as it is, and a row names the directory its state calls for.            *)
(***************************************************************************)
CONSTANTS ImageIds, Kinds, InitialRows, None

VARIABLES
    rows,  \* the rows of the product's images, None where there is none
    held   \* the files there is a copy of, as <<image id, kind>>

galleryVars == <<rows, held>>

AllFiles(i) == {<<i, k>> : k \in Kinds}

Init ==
    /\ rows \in InitialRows
    /\ held = UNION {AllFiles(i) : i \in {j \in ImageIds : rows[j] # None}}

\* A file of an image is stored, whether or not a row will ever name it.
KeepFile ==
    /\ \E i \in ImageIds, k \in Kinds : held' = held \cup {<<i, k>>}
    /\ UNCHANGED rows

\* A deleted image is nobody's to see, an active one everybody's.
Well(row) ==
    row.dir = IF row.deleted THEN "deleted" ELSE IF row.active THEN "public" ELSE "private"

Added(i)   == rows[i] = None /\ AllFiles(i) \subseteq held /\ Well(rows[i]')
Updated(i) == rows[i] # None /\ ~rows[i].deleted /\ rows[i]' # None /\ Well(rows[i]')

\* The rows of one request are saved together.
SaveRows ==
    /\ \A i \in ImageIds : rows[i]' = rows[i] \/ Added(i) \/ Updated(i)
    /\ DOMAIN rows' = ImageIds
    /\ UNCHANGED held

Next == KeepFile \/ SaveRows

Spec == Init /\ [][Next]_galleryVars
=============================================================================
