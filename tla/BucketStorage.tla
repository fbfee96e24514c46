---------------------------- MODULE BucketStorage ----------------------------
(***************************************************************************)
(* CloudStorageService: save, copy, move, delete, get and list over a      *)
(* bucket that is made by the first call that finds none, one step per     *)
(* request to the store.                                                   *)
(*                                                                         *)
(* The store answers each request by itself, or fails, with or without     *)
(* having done what it was asked.  Whether it refuses to make a bucket     *)
(* that exists is the store's choice: MinIO refuses, the test double does  *)
(* not.  The process may stop at any moment.                               *)
(*                                                                         *)
(* Abstracted: contents; a name is the sequence of its path segments.      *)
(* Calls with missing or malformed names are refused before any request.   *)
(***************************************************************************)
EXTENDS Naturals, Sequences

CONSTANTS
    Names,        \* names of objects
    Directories,  \* directories that are listed
    Contents,     \* what is stored in objects
    Requests,     \* calls that may be served at the same time
    None          \* no object; a parameter the call does not have

VARIABLES
    bucket,     \* the bucket exists
    policy,     \* its policy lets everybody read /public
    objects,    \* the content of each object, or None
    pc,         \* the next request to the store of each call
    call,       \* its parameters
    result,     \* of list: the entries the store has sent so far
    rest,       \* of list: the names the store has not come to yet
    abandoned,  \* history: a call made the bucket and did not go on to the policy
    touched     \* history: objects other calls changed since a list began, or a
                \* move made its copy

store == <<bucket, policy, objects>>
vars  == <<bucket, policy, objects, pc, call, result, rest, abandoned, touched>>

Kinds == {"save", "copy", "move", "delete", "get", "list"}
Steps == {"exists", "make", "policy", "put", "copy", "remove", "get",
          "listExists", "listMake", "list", "listing"}

Parameters ==
    [kind: Kinds, name: Names \cup {None}, source: Names \cup {None}, content: Contents \cup {None},
     names: SUBSET Names, directory: Directories \cup {None}]

ASSUME NamesAssumption ==
    /\ \A n \in Names \cup Directories : n \in Seq(STRING)
    /\ None \notin Names \cup Directories \cup Contents
    /\ None \notin Parameters

\* What the store lists for an object below a directory: its name, or the next
\* directory on the way to it.
Below(n, d) == Len(d) < Len(n) /\ SubSeq(n, 1, Len(d)) = d
Entry(n, d) == SubSeq(n, 1, Len(d) + 1)

\* Mutant: only what is directly in the directory is listed.
EntriesOfFiles(S, d) == {Entry(n, d) : n \in {m \in S : Below(m, d) /\ Len(m) = Len(d) + 1}}

Entries(S, d) == {Entry(n, d) : n \in {m \in S : Below(m, d)}}

Stored == {n \in Names : objects[n] # None}

Init ==
    /\ bucket = FALSE
    /\ policy = FALSE
    /\ objects = [n \in Names |-> None]
    /\ pc = [r \in Requests |-> "idle"]
    /\ call = [r \in Requests |-> None]
    /\ result = [r \in Requests |-> {}]
    /\ rest = [r \in Requests |-> {}]
    /\ abandoned = FALSE
    /\ touched = [r \in Requests |-> {}]

(***************************************************************************)
(* Calls                                                                   *)
(***************************************************************************)
Begin(r, step, parameters) ==
    /\ pc[r] = "idle"
    /\ pc' = [pc EXCEPT ![r] = step]
    /\ call' = [call EXCEPT ![r] = parameters]
    /\ UNCHANGED <<store, result, rest, abandoned, touched>>

Continue(r, step) == pc' = [pc EXCEPT ![r] = step] /\ UNCHANGED <<call, result, rest>>

Answer(r) ==
    /\ pc' = [pc EXCEPT ![r] = "idle"]
    /\ call' = [call EXCEPT ![r] = None]
    /\ result' = [result EXCEPT ![r] = {}]
    /\ rest' = [rest EXCEPT ![r] = {}]

\* Lists, and moves after their copy.
Watches(r) ==
    \/ pc[r] \in {"listExists", "listMake", "list", "listing"}
    \/ pc[r] = "remove" /\ call[r].kind = "move"

\* Call r makes the objects what new says.
Become(r, new) ==
    /\ objects' = new
    /\ touched' = [q \in Requests |->
                     IF q # r /\ Watches(q)
                     THEN touched[q] \cup {n \in Names : objects[n] # new[n]}
                     ELSE {}]

\* The objects stay; call r watches nothing from now on.
Leave(r) == touched' = [touched EXCEPT ![r] = {}] /\ UNCHANGED objects

\* A parameter that a call does not have.
Blank == [kind |-> "get", name |-> None, source |-> None, content |-> None,
          names |-> {}, directory |-> None]

Arrive(r) ==
    \/ \E n \in Names, c \in Contents :
         Begin(r, "exists", [Blank EXCEPT !.kind = "save", !.name = n, !.content = c])
    \/ \E n, m \in Names, k \in {"copy", "move"} :
         \* The caller moves files between directories, never onto themselves.
         /\ n # m
         /\ Begin(r, "exists", [Blank EXCEPT !.kind = k, !.name = n, !.source = m])
    \/ \E S \in SUBSET Names : Begin(r, "remove", [Blank EXCEPT !.kind = "delete", !.names = S])
    \/ \E n \in Names : Begin(r, "get", [Blank EXCEPT !.name = n])
    \/ \E d \in Directories \cup {None} :
         Begin(r, "listExists", [Blank EXCEPT !.kind = "list", !.directory = d])

(***************************************************************************)
(* manageBucket                                                            *)
(***************************************************************************)

\* Mutant: a move has a step of its own, which there is none of.
AfterBucketByKind(r) ==
    CASE call[r].kind = "save" -> "put" [] call[r].kind = "copy" -> "copy" [] OTHER -> "move"

AfterBucket(r) == IF call[r].kind = "save" THEN "put" ELSE "copy"

BucketExists(r) ==
    /\ pc[r] = "exists"
    /\ Continue(r, IF bucket THEN AfterBucket(r) ELSE "make")
    /\ UNCHANGED <<store, abandoned, touched>>

\* Mutant: the policy is left for later.
MakeBucketOnly(r) ==
    /\ pc[r] = "make"
    /\ bucket' = TRUE
    /\ Continue(r, AfterBucket(r))
    /\ UNCHANGED <<policy, objects, abandoned, touched>>

\* A bucket that exists by now is made again, to no effect, or the call fails.
MakeBucket(r) ==
    /\ pc[r] = "make"
    /\ \/ bucket' = TRUE /\ Continue(r, "policy")
       \/ bucket /\ UNCHANGED bucket /\ Answer(r)
    /\ UNCHANGED <<policy, objects, abandoned, touched>>

SetPolicy(r) ==
    /\ pc[r] = "policy"
    /\ policy' = TRUE
    /\ Continue(r, AfterBucket(r))
    /\ UNCHANGED <<bucket, objects, abandoned, touched>>

(***************************************************************************)
(* save, copy, move, delete, get                                           *)
(***************************************************************************)
PutObject(r) ==
    /\ pc[r] = "put"
    /\ Become(r, [objects EXCEPT ![call[r].name] = call[r].content])
    /\ Answer(r)
    /\ UNCHANGED <<bucket, policy, abandoned>>

\* A copy is a call of its own, or the first half of a move.
AfterCopy(r) == IF call[r].kind = "move" THEN Continue(r, "remove") ELSE Answer(r)

\* Mutant: a source that is missing is not an error.
CopyObjectAnyway(r) ==
    /\ pc[r] = "copy"
    /\ Become(r, [objects EXCEPT ![call[r].name] =
                    IF objects[call[r].source] = None THEN @ ELSE objects[call[r].source]])
    /\ AfterCopy(r)
    /\ UNCHANGED <<bucket, policy, abandoned>>

CopyObject(r) ==
    /\ pc[r] = "copy"
    /\ LET source == objects[call[r].source]
       IN  \/ source = None /\ Answer(r) /\ Leave(r)
           \/ /\ source # None
              /\ Become(r, [objects EXCEPT ![call[r].name] = source])
              /\ AfterCopy(r)
    /\ UNCHANGED <<bucket, policy, abandoned>>

\* What a delete, or the second half of a move, removes.
Removed(r) == IF call[r].kind = "move" THEN {call[r].source} ELSE call[r].names

Without(S) == [n \in Names |-> IF n \in S THEN None ELSE objects[n]]

\* Objects that are not there are no error; a bucket that is not is.
RemoveObjects(r) ==
    /\ pc[r] = "remove"
    /\ Answer(r)
    /\ \/ bucket /\ Become(r, Without(Removed(r)))
       \/ ~bucket /\ Leave(r)
    /\ UNCHANGED <<bucket, policy, abandoned>>

\* The content, 404, or an error if there is no bucket.
GetObject(r) ==
    /\ pc[r] = "get"
    /\ Answer(r)
    /\ UNCHANGED <<store, abandoned, touched>>

(***************************************************************************)
(* list                                                                    *)
(***************************************************************************)

\* Mutant: the bucket is taken for granted.
ListBucketUnchecked(r) ==
    /\ pc[r] = "listExists"
    /\ Continue(r, "list")
    /\ UNCHANGED <<store, abandoned, touched>>

ListBucketExists(r) ==
    /\ pc[r] = "listExists"
    /\ Continue(r, IF bucket THEN "list" ELSE "listMake")
    /\ UNCHANGED <<store, abandoned, touched>>

\* list makes the bucket, but sets no policy.
ListMakeBucket(r) ==
    /\ pc[r] = "listMake"
    /\ \/ /\ bucket' = TRUE
          /\ abandoned' = (abandoned \/ ~bucket)
          /\ Continue(r, "list")
          /\ UNCHANGED touched
       \/ /\ bucket
          /\ UNCHANGED <<bucket, abandoned>>
          /\ Answer(r)
          /\ touched' = [touched EXCEPT ![r] = {}]
    /\ UNCHANGED <<policy, objects>>

ListObjects(r) ==
    /\ pc[r] = "list"
    /\ IF call[r].directory = None
       THEN Answer(r) /\ Leave(r)
       ELSE /\ pc' = [pc EXCEPT ![r] = "listing"]
            /\ rest' = [rest EXCEPT ![r] = Names]
            /\ UNCHANGED <<objects, call, result, touched>>
    /\ UNCHANGED <<bucket, policy, abandoned>>

\* The store sends what it has below the directory in pages: each is about the
\* objects that are there by then.
ListPage(r) ==
    /\ pc[r] = "listing"
    /\ \E S \in SUBSET rest[r] \ {{}} :
         /\ rest' = [rest EXCEPT ![r] = @ \ S]
         /\ result' = [result EXCEPT ![r] = @ \cup Entries(Stored \cap S, call[r].directory)]
    /\ UNCHANGED <<store, pc, call, abandoned, touched>>

\* The stream of entries ends.
ListEnds(r) ==
    /\ pc[r] = "listing"
    /\ rest[r] = {}
    /\ Answer(r)
    /\ Leave(r)
    /\ UNCHANGED <<bucket, policy, abandoned>>

(***************************************************************************)
(* Faults                                                                  *)
(***************************************************************************)

\* A request to the store fails, or its answer is lost after it was done.
StoreFails(r) ==
    /\ pc[r] # "idle"
    /\ Answer(r)
    /\ \/ /\ abandoned' = (abandoned \/ pc[r] = "policy")
          /\ Leave(r)
          /\ UNCHANGED <<bucket, policy>>
       \/ /\ pc[r] \in {"make", "listMake"}
          /\ bucket' = TRUE
          /\ abandoned' = (abandoned \/ ~bucket)
          /\ Leave(r)
          /\ UNCHANGED policy
       \/ /\ pc[r] = "policy"
          /\ policy' = TRUE
          /\ Leave(r)
          /\ UNCHANGED <<bucket, abandoned>>
       \/ /\ pc[r] = "put"
          /\ Become(r, [objects EXCEPT ![call[r].name] = call[r].content])
          /\ UNCHANGED <<bucket, policy, abandoned>>
       \/ /\ pc[r] = "copy"
          /\ objects[call[r].source] # None
          /\ Become(r, [objects EXCEPT ![call[r].name] = objects[call[r].source]])
          /\ UNCHANGED <<bucket, policy, abandoned>>
       \/ /\ pc[r] = "remove"
          /\ \E S \in SUBSET Removed(r) : Become(r, Without(S))
          /\ UNCHANGED <<bucket, policy, abandoned>>

\* The process stops: calls under way are forgotten, the store is not.
Crash ==
    /\ pc' = [r \in Requests |-> "idle"]
    /\ call' = [r \in Requests |-> None]
    /\ result' = [r \in Requests |-> {}]
    /\ rest' = [r \in Requests |-> {}]
    /\ touched' = [r \in Requests |-> {}]
    /\ abandoned' = (abandoned \/ \E r \in Requests : pc[r] = "policy")
    /\ UNCHANGED store

-----------------------------------------------------------------------------
Serve(r) ==
    \/ BucketExists(r) \/ MakeBucket(r) \/ SetPolicy(r)
    \/ PutObject(r) \/ CopyObject(r) \/ RemoveObjects(r) \/ GetObject(r)
    \/ ListBucketExists(r) \/ ListMakeBucket(r) \/ ListObjects(r) \/ ListPage(r)
    \/ ListEnds(r)

Next ==
    \/ \E r \in Requests : Arrive(r) \/ Serve(r) \/ StoreFails(r)
    \/ Crash

Spec == Init /\ [][Next]_vars

-----------------------------------------------------------------------------
(***************************************************************************)
(* Properties                                                              *)
(***************************************************************************)

\* The type of every variable.
TypeOK ==
    /\ bucket \in BOOLEAN
    /\ policy \in BOOLEAN
    /\ objects \in [Names -> Contents \cup {None}]
    /\ pc \in [Requests -> Steps \cup {"idle"}]
    /\ call \in [Requests -> Parameters \cup {None}]
    /\ result \in [Requests -> SUBSET UNION {Entries(Names, d) : d \in Directories}]
    /\ rest \in [Requests -> SUBSET Names]
    /\ abandoned \in BOOLEAN
    /\ touched \in [Requests -> SUBSET Names]
    /\ \A r \in Requests : pc[r] # "idle" <=> call[r] # None

\* However first calls race and whatever fails, nothing is put into, copied in
\* or listed from a bucket that does not exist (manageBucket and list make it
\* first), and there are no objects without it.
BucketBeforeUse ==
    /\ \A r \in Requests : pc[r] \in {"policy", "put", "copy", "list"} => bucket
    /\ Stored # {} => bucket

\* The bucket that manageBucket makes gets its policy: one without it is about
\* to get it, unless list made it, or the store or the process failed between.
PublicInTheEnd ==
    bucket /\ ~policy /\ ~abandoned => \E r \in Requests : pc[r] = "policy"

\* A move that is about to delete its source has made a copy of it: whatever
\* was in the source is in the new place, unless another call changed either.
MoveKeepsContent ==
    \A r \in Requests :
        pc[r] = "remove" /\ call[r].kind = "move" =>
          \/ {call[r].name, call[r].source} \cap touched[r] # {}
          \/ objects[call[r].name] = objects[call[r].source]

\* However saves, moves and deletions go on while a directory is listed: what
\* was below it all the time is listed once the store came to it, and what is
\* listed was below it at some moment of the call; a directory is listed for
\* what is in it.
ListIsRegular ==
    \A r \in Requests :
        pc[r] = "listing" =>
          LET d == call[r].directory
          IN  /\ \A n \in Stored \ (rest[r] \cup touched[r]) : Below(n, d) => Entry(n, d) \in result[r]
              /\ \A e \in result[r] :
                   \E n \in Stored \cup touched[r] : Below(n, d) /\ Entry(n, d) = e
=============================================================================
