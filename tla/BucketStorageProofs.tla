------------------------ MODULE BucketStorageProofs ------------------------
(***************************************************************************)
(* Theorems about the object store client, for any number of objects,      *)
(* directories and calls at the same time.                                 *)
(***************************************************************************)
EXTENDS BucketStorage, TLAPS

USE NamesAssumption

(***************************************************************************)
(* Types                                                                   *)
(***************************************************************************)

\* What is listed are entries of a directory.
Listable == UNION {Entries(Names, d) : d \in Directories}

\* A call has the parameters its requests to the store need, and no entries before
\* it lists some.
CallFits ==
    \A r \in Requests :
        /\ pc[r] \in {"exists", "make", "policy"} => call[r].kind \in {"save", "copy", "move"}
        /\ pc[r] = "put" => call[r].kind = "save"
        /\ pc[r] = "copy" => call[r].kind \in {"copy", "move"}
        /\ pc[r] = "remove" => call[r].kind \in {"delete", "move"}
        /\ pc[r] \in {"listExists", "listMake", "list", "listing"} => call[r].kind = "list"
        /\ pc[r] = "listing" => call[r].directory \in Directories
        /\ pc[r] # "listing" => result[r] = {}
        /\ pc[r] # "idle" /\ call[r].kind = "save" => call[r].name \in Names /\ call[r].content \in Contents
        /\ pc[r] # "idle" /\ call[r].kind \in {"copy", "move"} =>
             call[r].name \in Names /\ call[r].source \in Names /\ call[r].name # call[r].source

Types == TypeOK /\ CallFits

\* The two halves of the types.
StoreTypes ==
    /\ bucket \in BOOLEAN
    /\ policy \in BOOLEAN
    /\ objects \in [Names -> Contents \cup {None}]
    /\ abandoned \in BOOLEAN
    /\ touched \in [Requests -> SUBSET Names]

CallTypes ==
    /\ pc \in [Requests -> Steps \cup {"idle"}]
    /\ call \in [Requests -> Parameters \cup {None}]
    /\ result \in [Requests -> SUBSET Listable]
    /\ rest \in [Requests -> SUBSET Names]
    /\ \A r \in Requests : pc[r] # "idle" <=> call[r] # None
    /\ CallFits

LEMMA TypesHalves == /\ Types <=> StoreTypes /\ CallTypes
                     /\ Types' <=> StoreTypes' /\ CallTypes'
  BY DEF Types, TypeOK, StoreTypes, CallTypes, CallFits, Listable

LEMMA InitTypes == Init => Types
  BY ZenonT(30) DEF Init, Types, TypeOK, CallFits

LEMMA AnswerTypes ==
    ASSUME CallTypes, NEW r \in Requests, Answer(r)
    PROVE  CallTypes'
  BY DEF Answer, CallTypes, CallFits

LEMMA ContinueTypes ==
    ASSUME CallTypes, NEW r \in Requests, NEW step \in Steps, pc[r] \notin {"idle", "listing"},
           Continue(r, step),
           step \in {"exists", "make", "policy"} => call[r].kind \in {"save", "copy", "move"},
           step = "put" => call[r].kind = "save",
           step = "copy" => call[r].kind \in {"copy", "move"},
           step = "remove" => call[r].kind \in {"delete", "move"},
           step \in {"listExists", "listMake", "list"} => call[r].kind = "list",
           step # "listing"
    PROVE  CallTypes'
  BY DEF Continue, CallTypes, CallFits, Steps

LEMMA BeginTypes ==
    ASSUME CallTypes, NEW r \in Requests, NEW step \in Steps, NEW parameters \in Parameters,
           Begin(r, step, parameters),
           step \in {"exists", "make", "policy"} => parameters.kind \in {"save", "copy", "move"},
           step \notin {"put", "copy", "listMake", "list", "listing"},
           step = "remove" => parameters.kind \in {"delete", "move"},
           step = "listExists" => parameters.kind = "list",
           parameters.kind = "save" => parameters.name \in Names /\ parameters.content \in Contents,
           parameters.kind \in {"copy", "move"} =>
             parameters.name \in Names /\ parameters.source \in Names /\ parameters.name # parameters.source
    PROVE  CallTypes'
  <1>1. /\ parameters # None
        /\ pc[r] = "idle"
        /\ pc' = [pc EXCEPT ![r] = step]
        /\ call' = [call EXCEPT ![r] = parameters]
        /\ UNCHANGED <<result, rest>>
    BY DEF Begin
  <1> HIDE DEF Parameters
  <1> QED
    BY <1>1 DEF CallTypes, CallFits, Steps

\* What a call begins with.
LEMMA ArriveSteps ==
    ASSUME CallTypes, NEW r \in Requests, Arrive(r)
    PROVE  /\ UNCHANGED <<store, abandoned, touched>>
           /\ pc[r] = "idle"
           /\ \E step \in {"exists", "remove", "get", "listExists"} : pc' = [pc EXCEPT ![r] = step]
           /\ pc'[r] = "remove" => call'[r].kind = "delete"
  <1>1. ASSUME NEW step \in {"exists", "remove", "get", "listExists"}, NEW parameters,
               Begin(r, step, parameters), step = "remove" => parameters.kind = "delete"
        PROVE  /\ UNCHANGED <<store, abandoned, touched>>
               /\ pc[r] = "idle"
               /\ \E s \in {"exists", "remove", "get", "listExists"} : pc' = [pc EXCEPT ![r] = s]
               /\ pc'[r] = "remove" => call'[r].kind = "delete"
    BY <1>1 DEF Begin, CallTypes
  <1>2. \A S : [Blank EXCEPT !.kind = "delete", !.names = S].kind = "delete"
    BY DEF Blank
  <1> QED
    BY <1>1, <1>2 DEF Arrive

LEMMA BecomeTypes ==
    ASSUME StoreTypes, NEW r \in Requests, NEW new \in [Names -> Contents \cup {None}], Become(r, new)
    PROVE  /\ objects' = new
           /\ touched' \in [Requests -> SUBSET Names]
  BY DEF Become, StoreTypes

LEMMA LeaveTypes ==
    ASSUME StoreTypes, NEW r \in Requests, Leave(r)
    PROVE  /\ objects' = objects
           /\ touched' \in [Requests -> SUBSET Names]
  BY DEF Leave, StoreTypes

LEMMA NextTypes == Types /\ [Next]_vars => Types'
  <1> SUFFICES ASSUME StoreTypes, CallTypes, [Next]_vars
               PROVE  StoreTypes' /\ CallTypes'
    BY TypesHalves
  <1>1. ASSUME NEW r \in Requests, Arrive(r)
        PROVE  StoreTypes' /\ CallTypes'
    <2>1. StoreTypes'
      BY <1>1 DEF Arrive, Begin, StoreTypes, store
    <2>2. Blank \in Parameters
      BY DEF Blank, Parameters, Kinds
    <2>3. CASE \E n \in Names, c \in Contents :
                 Begin(r, "exists", [Blank EXCEPT !.kind = "save", !.name = n, !.content = c])
      <3>1. PICK n \in Names, c \in Contents :
              Begin(r, "exists", [Blank EXCEPT !.kind = "save", !.name = n, !.content = c])
        BY <2>3
      <3> QED
        BY <2>1, <3>1, BeginTypes DEF Blank, Parameters, Kinds, Steps
    <2>4. CASE \E n, m \in Names, k \in {"copy", "move"} :
                 n # m /\ Begin(r, "exists", [Blank EXCEPT !.kind = k, !.name = n, !.source = m])
      <3>1. PICK n \in Names, m \in Names, k \in {"copy", "move"} :
              n # m /\ Begin(r, "exists", [Blank EXCEPT !.kind = k, !.name = n, !.source = m])
        BY <2>4
      <3> QED
        BY <2>1, <3>1, BeginTypes DEF Blank, Parameters, Kinds, Steps
    <2>5. CASE \E S \in SUBSET Names : Begin(r, "remove", [Blank EXCEPT !.kind = "delete", !.names = S])
      <3>1. PICK S \in SUBSET Names : Begin(r, "remove", [Blank EXCEPT !.kind = "delete", !.names = S])
        BY <2>5
      <3> QED
        BY <2>1, <3>1, BeginTypes DEF Blank, Parameters, Kinds, Steps
    <2>6. CASE \E n \in Names : Begin(r, "get", [Blank EXCEPT !.name = n])
      <3>1. PICK n \in Names : Begin(r, "get", [Blank EXCEPT !.name = n])
        BY <2>6
      <3> QED
        BY <2>1, <3>1, BeginTypes DEF Blank, Parameters, Kinds, Steps
    <2>7. CASE \E d \in Directories \cup {None} :
                 Begin(r, "listExists", [Blank EXCEPT !.kind = "list", !.directory = d])
      <3>1. PICK d \in Directories \cup {None} :
              Begin(r, "listExists", [Blank EXCEPT !.kind = "list", !.directory = d])
        BY <2>7
      <3> QED
        BY <2>1, <3>1, BeginTypes DEF Blank, Parameters, Kinds, Steps
    <2> QED
      BY <1>1, <2>3, <2>4, <2>5, <2>6, <2>7 DEF Arrive
  <1>2. ASSUME NEW r \in Requests, BucketExists(r) \/ SetPolicy(r)
        PROVE  StoreTypes' /\ CallTypes'
    <2>1. StoreTypes'
      BY <1>2 DEF BucketExists, SetPolicy, StoreTypes, store
    <2> QED
      BY <1>2, <2>1, ContinueTypes DEF BucketExists, SetPolicy, AfterBucket, CallTypes, CallFits, Steps
  <1>3. ASSUME NEW r \in Requests, MakeBucket(r)
        PROVE  StoreTypes' /\ CallTypes'
    <2>1. StoreTypes'
      BY <1>3 DEF MakeBucket, StoreTypes
    <2> QED
      BY <1>3, <2>1, ContinueTypes, AnswerTypes DEF MakeBucket, CallTypes, CallFits, Steps
  <1>4. ASSUME NEW r \in Requests, PutObject(r)
        PROVE  StoreTypes' /\ CallTypes'
    <2>1. call[r].content \in Contents
      BY <1>4 DEF PutObject, CallTypes, CallFits
    <2>2. [objects EXCEPT ![call[r].name] = call[r].content] \in [Names -> Contents \cup {None}]
      BY <2>1 DEF StoreTypes
    <2> QED
      BY <1>4, <2>2, BecomeTypes, AnswerTypes DEF PutObject, StoreTypes
  <1>5. ASSUME NEW r \in Requests, CopyObject(r)
        PROVE  StoreTypes' /\ CallTypes'
    <2>1. call[r].source \in Names /\ call[r].kind \in {"copy", "move"} /\ pc[r] = "copy"
      BY <1>5 DEF CopyObject, CallTypes, CallFits
    <2>2. [objects EXCEPT ![call[r].name] = objects[call[r].source]] \in [Names -> Contents \cup {None}]
      BY <2>1 DEF StoreTypes
    <2>3. CASE Answer(r) /\ Leave(r)
      BY <1>5, <2>3, LeaveTypes, AnswerTypes DEF CopyObject, StoreTypes
    <2>4. CASE /\ Become(r, [objects EXCEPT ![call[r].name] = objects[call[r].source]])
               /\ AfterCopy(r)
      <3>1. StoreTypes'
        BY <1>5, <2>2, <2>4, BecomeTypes DEF CopyObject, StoreTypes
      <3>2. CallTypes'
        BY <2>1, <2>4, ContinueTypes, AnswerTypes DEF AfterCopy, Steps
      <3> QED
        BY <3>1, <3>2
    <2> QED
      BY <1>5, <2>3, <2>4 DEF CopyObject
  <1>6. ASSUME NEW r \in Requests, RemoveObjects(r)
        PROVE  StoreTypes' /\ CallTypes'
    <2>1. Without(Removed(r)) \in [Names -> Contents \cup {None}]
      BY DEF Without, StoreTypes
    <2> QED
      BY <1>6, <2>1, BecomeTypes, LeaveTypes, AnswerTypes DEF RemoveObjects, StoreTypes
  <1>7. ASSUME NEW r \in Requests, GetObject(r)
        PROVE  StoreTypes' /\ CallTypes'
    BY <1>7, AnswerTypes DEF GetObject, StoreTypes, store
  <1>8. ASSUME NEW r \in Requests, ListBucketExists(r)
        PROVE  StoreTypes' /\ CallTypes'
    <2>1. StoreTypes'
      BY <1>8 DEF ListBucketExists, StoreTypes, store
    <2> QED
      BY <1>8, <2>1, ContinueTypes DEF ListBucketExists, CallTypes, CallFits, Steps
  <1>9. ASSUME NEW r \in Requests, ListMakeBucket(r)
        PROVE  StoreTypes' /\ CallTypes'
    <2>1. StoreTypes'
      BY <1>9 DEF ListMakeBucket, StoreTypes
    <2> QED
      BY <1>9, <2>1, ContinueTypes, AnswerTypes DEF ListMakeBucket, CallTypes, CallFits, Steps
  <1>10. ASSUME NEW r \in Requests, ListObjects(r)
         PROVE  StoreTypes' /\ CallTypes'
    <2>1. CASE call[r].directory = None
      BY <1>10, <2>1, LeaveTypes, AnswerTypes DEF ListObjects, StoreTypes
    <2>2. CASE call[r].directory # None
      <3>1. StoreTypes'
        BY <1>10, <2>2 DEF ListObjects, StoreTypes
      <3>2. call[r] \in Parameters /\ call[r].kind = "list"
        BY <1>10 DEF ListObjects, CallTypes, CallFits
      <3>3. call[r].directory \in Directories
        BY <2>2, <3>2 DEF Parameters
      <3>4. /\ pc' = [pc EXCEPT ![r] = "listing"]
            /\ rest' = [rest EXCEPT ![r] = Names]
            /\ UNCHANGED <<call, result>>
            /\ pc[r] = "list"
        BY <1>10, <2>2 DEF ListObjects
      <3>5. CallTypes'
        BY <3>2, <3>3, <3>4 DEF CallTypes, CallFits, Steps
      <3> QED
        BY <3>1, <3>5
    <2> QED
      BY <2>1, <2>2
  <1>11. ASSUME NEW r \in Requests, ListPage(r)
         PROVE  StoreTypes' /\ CallTypes'
    <2>1. StoreTypes'
      BY <1>11 DEF ListPage, StoreTypes, store
    <2>2. PICK S \in SUBSET rest[r] :
            /\ rest' = [rest EXCEPT ![r] = @ \ S]
            /\ result' = [result EXCEPT ![r] = @ \cup Entries(Stored \cap S, call[r].directory)]
      BY <1>11 DEF ListPage
    <2>3. call[r].directory \in Directories
      BY <1>11 DEF ListPage, CallTypes, CallFits
    <2>4. Entries(Stored \cap S, call[r].directory) \subseteq Listable
      BY <2>3 DEF Entries, Listable, Stored
    <2>5. CallTypes'
      BY <1>11, <2>2, <2>4 DEF ListPage, CallTypes, CallFits
    <2> QED
      BY <2>1, <2>5
  <1>12. ASSUME NEW r \in Requests, ListEnds(r)
         PROVE  StoreTypes' /\ CallTypes'
    BY <1>12, LeaveTypes, AnswerTypes DEF ListEnds, StoreTypes
  <1>13. ASSUME NEW r \in Requests, StoreFails(r)
         PROVE  StoreTypes' /\ CallTypes'
    <2>1. CallTypes'
      BY <1>13, AnswerTypes DEF StoreFails
    <2>2. CASE Leave(r)
      BY <1>13, <2>1, <2>2, LeaveTypes DEF StoreFails, StoreTypes
    <2>3. ASSUME NEW new \in [Names -> Contents \cup {None}], Become(r, new),
                 UNCHANGED <<bucket, policy, abandoned>>
          PROVE  StoreTypes'
      BY <2>3, BecomeTypes DEF StoreTypes
    <2>4. CASE pc[r] = "put" /\ Become(r, [objects EXCEPT ![call[r].name] = call[r].content])
               /\ UNCHANGED <<bucket, policy, abandoned>>
      <3>1. call[r].content \in Contents
        BY <2>4 DEF CallTypes, CallFits
      <3>2. [objects EXCEPT ![call[r].name] = call[r].content] \in [Names -> Contents \cup {None}]
        BY <3>1 DEF StoreTypes
      <3> QED
        BY <2>1, <2>3, <2>4, <3>2
    <2>5. CASE pc[r] = "copy" /\ Become(r, [objects EXCEPT ![call[r].name] = objects[call[r].source]])
               /\ UNCHANGED <<bucket, policy, abandoned>>
      <3>1. call[r].source \in Names
        BY <2>5 DEF CallTypes, CallFits
      <3>2. [objects EXCEPT ![call[r].name] = objects[call[r].source]] \in [Names -> Contents \cup {None}]
        BY <3>1 DEF StoreTypes
      <3> QED
        BY <2>1, <2>3, <2>5, <3>2
    <2>6. ASSUME NEW S, Become(r, Without(S)), UNCHANGED <<bucket, policy, abandoned>>
          PROVE  StoreTypes'
      <3>1. Without(S) \in [Names -> Contents \cup {None}]
        BY DEF Without, StoreTypes
      <3> QED
        BY <2>3, <2>6, <3>1
    <2>7. StoreTypes'
      BY <1>13, <2>2, <2>4, <2>5, <2>6 DEF StoreFails
    <2> QED
      BY <2>1, <2>7
  <1>14. CASE Crash
    BY <1>14 DEF Crash, StoreTypes, CallTypes, CallFits, store
  <1>15. CASE UNCHANGED vars
    BY <1>15 DEF vars, store, StoreTypes, CallTypes, CallFits
  <1> QED
    BY <1>1, <1>2, <1>3, <1>4, <1>5, <1>6, <1>7, <1>8, <1>9, <1>10, <1>11, <1>12, <1>13, <1>14,
       <1>15 DEF Next, Serve

LEMMA TypesInvariant == Spec => []Types
  BY InitTypes, NextTypes, PTL DEF Spec

\* Every variable keeps its type, however calls, failures of the store and
\* restarts interleave.
THEOREM TypeCorrect == Spec => []TypeOK
  <1>1. Types => TypeOK
    BY DEF Types
  <1> QED
    BY <1>1, TypesInvariant, PTL

(***************************************************************************)
(* The bucket                                                              *)
(***************************************************************************)
LEMMA InitBucketBeforeUse == Init => BucketBeforeUse
  BY DEF Init, BucketBeforeUse, Stored

\* Objects that are put, copied in or removed are written only where there is a
\* bucket; all other requests leave the objects alone.
LEMMA NextBucketBeforeUse == Types /\ BucketBeforeUse /\ [Next]_vars => BucketBeforeUse'
  <1> SUFFICES ASSUME StoreTypes, CallTypes, BucketBeforeUse, [Next]_vars
               PROVE  BucketBeforeUse'
    BY TypesHalves
  <1> USE DEF BucketBeforeUse, Stored, StoreTypes, CallTypes
  <1>1. ASSUME NEW r \in Requests, Arrive(r)
        PROVE  BucketBeforeUse'
    BY <1>1, ArriveSteps DEF store
  <1>2. ASSUME NEW r \in Requests, BucketExists(r) \/ MakeBucket(r) \/ SetPolicy(r)
        PROVE  BucketBeforeUse'
    BY <1>2 DEF BucketExists, MakeBucket, SetPolicy, Continue, Answer, store
  <1>3. ASSUME NEW r \in Requests, PutObject(r)
        PROVE  BucketBeforeUse'
    BY <1>3 DEF PutObject, Answer
  <1>4. ASSUME NEW r \in Requests, CopyObject(r)
        PROVE  BucketBeforeUse'
    BY <1>4 DEF CopyObject, AfterCopy, Continue, Answer
  <1>5. ASSUME NEW r \in Requests, RemoveObjects(r)
        PROVE  BucketBeforeUse'
    BY <1>5 DEF RemoveObjects, Answer, Leave
  <1>6. ASSUME NEW r \in Requests, GetObject(r) \/ ListBucketExists(r) \/ ListPage(r)
        PROVE  BucketBeforeUse'
    BY <1>6 DEF GetObject, ListBucketExists, ListPage, Continue, Answer, store
  <1>7. ASSUME NEW r \in Requests, ListMakeBucket(r) \/ ListObjects(r) \/ ListEnds(r)
        PROVE  BucketBeforeUse'
    BY <1>7 DEF ListMakeBucket, ListObjects, ListEnds, Continue, Answer, Leave
  <1>8. ASSUME NEW r \in Requests, StoreFails(r)
        PROVE  BucketBeforeUse'
    BY <1>8 DEF StoreFails, Answer, Leave, Become, Without
  <1>9. CASE Crash
    BY <1>9 DEF Crash, store
  <1>10. CASE UNCHANGED vars
    BY <1>10 DEF vars, store
  <1> QED
    BY <1>1, <1>2, <1>3, <1>4, <1>5, <1>6, <1>7, <1>8, <1>9, <1>10 DEF Next, Serve

\* However first calls race and whatever fails, nothing is put into, copied in or
\* listed from a bucket that does not exist.
THEOREM BucketComesFirst == Spec => []BucketBeforeUse
  <1>1. Types /\ BucketBeforeUse /\ [Next]_vars => BucketBeforeUse'
    BY NextBucketBeforeUse
  <1> QED
    BY <1>1, InitBucketBeforeUse, TypesInvariant, PTL DEF Spec

LEMMA NextPublicInTheEnd == Types /\ PublicInTheEnd /\ [Next]_vars => PublicInTheEnd'
  <1> SUFFICES ASSUME StoreTypes, CallTypes, PublicInTheEnd, [Next]_vars
               PROVE  PublicInTheEnd'
    BY TypesHalves
  <1> USE DEF PublicInTheEnd, StoreTypes, CallTypes
  <1>1. ASSUME NEW r \in Requests, Arrive(r)
        PROVE  PublicInTheEnd'
    BY <1>1, ArriveSteps DEF store
  <1>2. ASSUME NEW r \in Requests, BucketExists(r) \/ MakeBucket(r) \/ SetPolicy(r)
        PROVE  PublicInTheEnd'
    BY <1>2 DEF BucketExists, MakeBucket, SetPolicy, Continue, Answer, store
  <1>3. ASSUME NEW r \in Requests, PutObject(r) \/ CopyObject(r) \/ RemoveObjects(r)
        PROVE  PublicInTheEnd'
    BY <1>3 DEF PutObject, CopyObject, RemoveObjects, AfterCopy, Continue, Answer
  <1>4. ASSUME NEW r \in Requests, GetObject(r) \/ ListBucketExists(r) \/ ListPage(r)
        PROVE  PublicInTheEnd'
    BY <1>4 DEF GetObject, ListBucketExists, ListPage, Continue, Answer, store
  <1>5. ASSUME NEW r \in Requests, ListMakeBucket(r) \/ ListObjects(r) \/ ListEnds(r)
        PROVE  PublicInTheEnd'
    BY <1>5 DEF ListMakeBucket, ListObjects, ListEnds, Continue, Answer
  <1>6. ASSUME NEW r \in Requests, StoreFails(r)
        PROVE  PublicInTheEnd'
    <2>1. \A q \in Requests \ {r} : pc'[q] = pc[q]
      BY <1>6 DEF StoreFails, Answer
    <2>2. CASE pc[r] = "policy"
      <3>1. abandoned' \/ policy'
        BY <1>6, <2>2 DEF StoreFails
      <3> QED
        BY <3>1
    <2>3. CASE pc[r] # "policy"
      <3>1. bucket' /\ ~policy' /\ ~abandoned' => bucket /\ ~policy /\ ~abandoned
        BY <1>6, <2>3 DEF StoreFails
      <3> QED
        BY <2>1, <2>3, <3>1
    <2> QED
      BY <2>2, <2>3
  <1>7. CASE Crash
    BY <1>7 DEF Crash, store
  <1>8. CASE UNCHANGED vars
    BY <1>8 DEF vars, store
  <1> QED
    BY <1>1, <1>2, <1>3, <1>4, <1>5, <1>6, <1>7, <1>8 DEF Next, Serve

\* A bucket without its policy is about to get it, unless list made it, or the
\* store or the process failed between the two requests.
THEOREM PolicyFollows == Spec => []PublicInTheEnd
  <1>1. Init => PublicInTheEnd
    BY DEF Init, PublicInTheEnd
  <1>2. Types /\ PublicInTheEnd /\ [Next]_vars => PublicInTheEnd'
    BY NextPublicInTheEnd
  <1> QED
    BY <1>1, <1>2, TypesInvariant, PTL DEF Spec

(***************************************************************************)
(* Objects                                                                 *)
(***************************************************************************)

\* Call q does not move, and what changed among the objects is noted.
Undisturbed(q) ==
    /\ pc'[q] = pc[q]
    /\ call'[q] = call[q]
    /\ result'[q] = result[q]
    /\ rest'[q] = rest[q]
    /\ touched[q] \subseteq touched'[q]
    /\ \A n \in Names : objects'[n] = objects[n] \/ n \in touched'[q]

LEMMA BecomeNoted ==
    ASSUME StoreTypes, NEW r \in Requests, NEW q \in Requests \ {r}, Watches(q), NEW new, Become(r, new)
    PROVE  /\ touched[q] \subseteq touched'[q]
           /\ \A n \in Names : objects'[n] = objects[n] \/ n \in touched'[q]
  BY DEF Become, StoreTypes

LEMMA LeaveNoted ==
    ASSUME StoreTypes, NEW r \in Requests, NEW q \in Requests \ {r}, Leave(r)
    PROVE  touched[q] = touched'[q] /\ objects' = objects
  BY DEF Leave, StoreTypes

\* Whatever another call does, a list and a move after its copy take note.
LEMMA OthersUndisturbed ==
    ASSUME StoreTypes, CallTypes, NEW r \in Requests, NEW q \in Requests \ {r}, Watches(q),
           Arrive(r) \/ Serve(r) \/ StoreFails(r)
    PROVE  Undisturbed(q)
  <1>1. /\ pc'[q] = pc[q]
        /\ call'[q] = call[q]
        /\ result'[q] = result[q]
        /\ rest'[q] = rest[q]
    <2>1. CASE Arrive(r)
      BY <2>1 DEF Arrive, Begin, CallTypes
    <2>2. CASE Serve(r)
      BY <2>2 DEF Serve, BucketExists, MakeBucket, SetPolicy, PutObject, CopyObject, RemoveObjects,
                  GetObject, ListBucketExists, ListMakeBucket, ListObjects, ListPage, ListEnds,
                  AfterCopy, Continue, Answer, CallTypes
    <2>3. CASE StoreFails(r)
      BY <2>3 DEF StoreFails, Answer, CallTypes
    <2> QED
      BY <2>1, <2>2, <2>3
  <1>2. \/ UNCHANGED <<objects, touched>>
        \/ Leave(r)
        \/ \E new : Become(r, new)
        \/ UNCHANGED objects /\ touched' = [touched EXCEPT ![r] = {}]
    <2>1. CASE Arrive(r)
      BY <2>1 DEF Arrive, Begin, store
    <2>2. CASE Serve(r)
      BY <2>2 DEF Serve, BucketExists, MakeBucket, SetPolicy, PutObject, CopyObject, RemoveObjects,
                  GetObject, ListBucketExists, ListMakeBucket, ListObjects, ListPage, ListEnds, store
    <2>3. CASE StoreFails(r)
      BY <2>3 DEF StoreFails
    <2> QED
      BY <2>1, <2>2, <2>3
  <1>3. /\ touched[q] \subseteq touched'[q]
        /\ \A n \in Names : objects'[n] = objects[n] \/ n \in touched'[q]
    BY <1>2, BecomeNoted, LeaveNoted DEF Leave
  <1> QED
    BY <1>1, <1>3 DEF Undisturbed

\* What a move that is about to delete its source may rely on.
Kept(q) ==
    pc[q] = "remove" /\ call[q].kind = "move" =>
      \/ {call[q].name, call[q].source} \cap touched[q] # {}
      \/ objects[call[q].name] = objects[call[q].source]

LEMMA NextMoveKeepsContent == Types /\ MoveKeepsContent /\ [Next]_vars => MoveKeepsContent'
  <1> SUFFICES ASSUME StoreTypes, CallTypes, MoveKeepsContent, [Next]_vars, NEW q \in Requests
               PROVE  Kept(q)'
    BY TypesHalves DEF MoveKeepsContent, Kept
  <1>1. Kept(q)
    BY DEF MoveKeepsContent, Kept
  <1>2. ASSUME NEW r \in Requests \ {q}, Arrive(r) \/ Serve(r) \/ StoreFails(r)
        PROVE  Kept(q)'
    <2>1. CASE Watches(q)
      <3>1. Undisturbed(q)
        BY <1>2, <2>1, OthersUndisturbed
      <3>2. pc[q] = "remove" /\ call[q].kind = "move" => call[q].name \in Names /\ call[q].source \in Names
        BY DEF CallTypes, CallFits
      <3> QED
        BY <1>1, <3>1, <3>2 DEF Kept, Undisturbed
    <2>2. CASE ~Watches(q)
      <3>1. pc'[q] = pc[q] /\ call'[q] = call[q]
        <4>1. CASE Arrive(r)
          BY <1>2, <4>1 DEF Arrive, Begin, CallTypes
        <4>2. CASE Serve(r)
          BY <1>2, <4>2
          DEF Serve, BucketExists, MakeBucket, SetPolicy, PutObject, CopyObject, RemoveObjects,
              GetObject, ListBucketExists, ListMakeBucket, ListObjects, ListPage, ListEnds,
              AfterCopy, Continue, Answer, CallTypes
        <4>3. CASE StoreFails(r)
          BY <1>2, <4>3 DEF StoreFails, Answer, CallTypes
        <4> QED
          BY <1>2, <4>1, <4>2, <4>3
      <3> QED
        BY <2>2, <3>1 DEF Kept, Watches
    <2> QED
      BY <2>1, <2>2
  <1>3. CASE Arrive(q)
    <2>1. pc'[q] = "remove" => call'[q].kind = "delete"
      BY <1>3, ArriveSteps
    <2> QED
      BY <2>1 DEF Kept
  <1>4. CASE CopyObject(q)
    <2>1. /\ call[q].name \in Names
          /\ call[q].source \in Names
          /\ call[q].name # call[q].source
      BY <1>4 DEF CopyObject, CallTypes, CallFits
    <2>2. CASE Answer(q)
      BY <2>2 DEF Answer, Kept, CallTypes
    <2>3. CASE /\ Become(q, [objects EXCEPT ![call[q].name] = objects[call[q].source]])
               /\ AfterCopy(q)
               /\ ~Answer(q)
      <3>1. call' = call
        BY <2>3 DEF AfterCopy, Continue
      <3>2. objects' = [objects EXCEPT ![call[q].name] = objects[call[q].source]]
        BY <2>3 DEF Become
      <3>3. objects'[call[q].name] = objects'[call[q].source]
        BY <2>1, <3>2 DEF StoreTypes
      <3> QED
        BY <3>1, <3>3 DEF Kept
    <2> QED
      BY <1>4, <2>2, <2>3 DEF CopyObject
  <1>5. CASE \/ BucketExists(q) \/ MakeBucket(q) \/ SetPolicy(q)
             \/ PutObject(q) \/ RemoveObjects(q) \/ GetObject(q)
             \/ ListBucketExists(q) \/ ListMakeBucket(q) \/ ListObjects(q) \/ ListPage(q) \/ ListEnds(q)
             \/ StoreFails(q)
    <2>1. pc'[q] # "remove"
      BY <1>5 DEF BucketExists, MakeBucket, SetPolicy, PutObject, RemoveObjects, GetObject,
                  ListBucketExists, ListMakeBucket, ListObjects, ListPage, ListEnds, StoreFails,
                  AfterBucket, Continue, Answer, CallTypes
    <2> QED
      BY <2>1 DEF Kept
  <1>6. CASE Crash
    BY <1>6 DEF Crash, Kept
  <1>7. CASE UNCHANGED vars
    BY <1>1, <1>7 DEF vars, store, Kept
  <1> QED
    BY <1>2, <1>3, <1>4, <1>5, <1>6, <1>7 DEF Next, Serve

\* A move deletes its source only when it has made a copy of it, unless another
\* call changed either object in between.
THEOREM MovesKeepContent == Spec => []MoveKeepsContent
  <1>1. Init => MoveKeepsContent
    BY DEF Init, MoveKeepsContent
  <1>2. Types /\ MoveKeepsContent /\ [Next]_vars => MoveKeepsContent'
    BY NextMoveKeepsContent
  <1> QED
    BY <1>1, <1>2, TypesInvariant, PTL DEF Spec

\* What a list has sent and has not come to yet.
Regular(q) ==
    pc[q] = "listing" =>
      LET d == call[q].directory
      IN  /\ \A n \in Stored \ (rest[q] \cup touched[q]) : Below(n, d) => Entry(n, d) \in result[q]
          /\ \A e \in result[q] : \E n \in Stored \cup touched[q] : Below(n, d) /\ Entry(n, d) = e

LEMMA NextListIsRegular == Types /\ ListIsRegular /\ [Next]_vars => ListIsRegular'
  <1> SUFFICES ASSUME StoreTypes, CallTypes, ListIsRegular, [Next]_vars, NEW q \in Requests
               PROVE  Regular(q)'
    BY TypesHalves DEF ListIsRegular, Regular
  <1>1. Regular(q)
    BY DEF ListIsRegular, Regular
  <1>2. ASSUME NEW r \in Requests \ {q}, Arrive(r) \/ Serve(r) \/ StoreFails(r)
        PROVE  Regular(q)'
    <2>1. CASE pc[q] = "listing"
      <3>1. Undisturbed(q)
        BY <1>2, <2>1, OthersUndisturbed DEF Watches
      <3>2. \A n \in Stored \cup touched[q] : n \in Stored' \cup touched'[q]
        BY <3>1 DEF Undisturbed, Stored
      <3>3. \A n \in Stored' \ (rest'[q] \cup touched'[q]) : n \in Stored \ (rest[q] \cup touched[q])
        BY <3>1 DEF Undisturbed, Stored
      <3> QED
        BY <1>1, <3>1, <3>2, <3>3 DEF Regular, Undisturbed
    <2>2. CASE pc[q] # "listing"
      <3>1. pc'[q] = pc[q]
        <4>1. CASE Arrive(r)
          BY <1>2, <4>1 DEF Arrive, Begin, CallTypes
        <4>2. CASE Serve(r)
          BY <1>2, <4>2
          DEF Serve, BucketExists, MakeBucket, SetPolicy, PutObject, CopyObject, RemoveObjects,
              GetObject, ListBucketExists, ListMakeBucket, ListObjects, ListPage, ListEnds,
              AfterCopy, Continue, Answer, CallTypes
        <4>3. CASE StoreFails(r)
          BY <1>2, <4>3 DEF StoreFails, Answer, CallTypes
        <4> QED
          BY <1>2, <4>1, <4>2, <4>3
      <3> QED
        BY <2>2, <3>1 DEF Regular
    <2> QED
      BY <2>1, <2>2
  <1>3. CASE ListObjects(q)
    <2>1. CASE call[q].directory = None
      BY <1>3, <2>1 DEF ListObjects, Answer, Regular, CallTypes
    <2>2. CASE call[q].directory # None
      <3>1. rest'[q] = Names /\ result'[q] = {}
        BY <1>3, <2>2 DEF ListObjects, CallTypes, CallFits
      <3> QED
        BY <3>1 DEF Regular, Stored
    <2> QED
      BY <2>1, <2>2
  <1>4. CASE ListPage(q)
    <2>1. PICK S \in SUBSET rest[q] :
            /\ rest' = [rest EXCEPT ![q] = @ \ S]
            /\ result' = [result EXCEPT ![q] = @ \cup Entries(Stored \cap S, call[q].directory)]
      BY <1>4 DEF ListPage
    <2>2. /\ pc[q] = "listing"
          /\ UNCHANGED <<objects, pc, call, touched>>
      BY <1>4 DEF ListPage, store
    <2>3. /\ rest'[q] = rest[q] \ S
          /\ result'[q] = result[q] \cup Entries(Stored \cap S, call[q].directory)
      BY <2>1 DEF CallTypes
    <2>4. Stored' = Stored
      BY <2>2 DEF Stored
    <2> DEFINE d == call[q].directory
    <2>5. \A n \in Stored \ ((rest[q] \ S) \cup touched[q]) : Below(n, d) => Entry(n, d) \in result'[q]
      BY <1>1, <2>2, <2>3 DEF Regular, Entries
    <2>6. \A e \in result'[q] : \E n \in Stored \cup touched[q] : Below(n, d) /\ Entry(n, d) = e
      BY <1>1, <2>2, <2>3 DEF Regular, Entries
    <2> QED
      BY <2>2, <2>3, <2>4, <2>5, <2>6 DEF Regular
  <1>5. CASE \/ Arrive(q) \/ BucketExists(q) \/ MakeBucket(q) \/ SetPolicy(q)
             \/ PutObject(q) \/ CopyObject(q) \/ RemoveObjects(q) \/ GetObject(q)
             \/ ListBucketExists(q) \/ ListMakeBucket(q) \/ ListEnds(q) \/ StoreFails(q)
    <2>1. pc'[q] # "listing"
      BY <1>5 DEF Arrive, Begin, BucketExists, MakeBucket, SetPolicy, PutObject, CopyObject,
                  RemoveObjects, GetObject, ListBucketExists, ListMakeBucket, ListEnds, StoreFails,
                  AfterBucket, AfterCopy, Continue, Answer, CallTypes
    <2> QED
      BY <2>1 DEF Regular
  <1>6. CASE Crash
    BY <1>6 DEF Crash, Regular
  <1>7. CASE UNCHANGED vars
    BY <1>1, <1>7 DEF vars, store, Regular, Stored
  <1> QED
    BY <1>2, <1>3, <1>4, <1>5, <1>6, <1>7 DEF Next, Serve

\* However objects change while a directory is listed, what was below it all the
\* time is listed, and what is listed was below it at some moment.
THEOREM ListsAreRegular == Spec => []ListIsRegular
  <1>1. Init => ListIsRegular
    BY DEF Init, ListIsRegular
  <1>2. Types /\ ListIsRegular /\ [Next]_vars => ListIsRegular'
    BY NextListIsRegular
  <1> QED
    BY <1>1, <1>2, TypesInvariant, PTL DEF Spec
=============================================================================
