---------------------------- MODULE CategoryTree ----------------------------
(***************************************************************************)
(* The tree of categories: CategoryService.create, update and delete over  *)
(* TypeORM's closure-table tree repository.                                *)
(*                                                                         *)
(* A category's place is stored twice: in its parent column, and in the    *)
(* rows of categories_closure, pairs of an ancestor and a descendant.      *)
(* Saving a new category writes both; update() is a plain UPDATE that      *)
(* writes the column only.  Every query is a step, so calls interleave     *)
(* between any two of them.                                                *)
(*                                                                         *)
(* Abstracted: names and the active flag, which update() writes without    *)
(* looking at the tree; the rows a call returns.  An id no category ever   *)
(* had is refused like that of a deleted one.                              *)
(***************************************************************************)
EXTENDS Naturals, FiniteSets

CONSTANTS
    CategoryIds,  \* ids categories get (bound on their number)
    Requests,     \* calls that may be served at the same time
    Calls,        \* the calls clients make, a subset of CallKinds
    None,         \* parentId: null, no category
    Unset         \* parentId: undefined

CallKinds == {"create", "rename", "detach", "move", "delete"}

ASSUME NoneAssumption == None \notin CategoryIds /\ Unset \notin CategoryIds /\ None # Unset
ASSUME CallsAssumption == Calls \subseteq CallKinds

VARIABLES
    created,  \* categories that have a row
    deleted,  \* those whose deletedAt is set
    parent,   \* the parent column
    closure,  \* table categories_closure: pairs <<ancestor, descendant>>
    pc,       \* the query each request is about to make
    subject,  \* the category it is about
    target,   \* the parentId it was sent
    gone      \* history, read by no action: what was deleted when it arrived

tree    == <<created, deleted, parent, closure>>
request == <<pc, subject, target, gone>>
vars    == <<created, deleted, parent, closure, pc, subject, target, gone>>

Queries == {"findParent", "insert", "findCategory", "findDescendants", "findTarget",
            "update", "findDeleted", "softDelete"}

\* What findOne({ where: { id } }) finds.
Live == created \ deleted

Init ==
    /\ created = {}
    /\ deleted = {}
    /\ parent = [c \in CategoryIds |-> None]
    /\ closure = {}
    /\ pc = [r \in Requests |-> "idle"]
    /\ subject = [r \in Requests |-> None]
    /\ target = [r \in Requests |-> None]
    /\ gone = [r \in Requests |-> {}]

(***************************************************************************)
(* Requests                                                                *)
(***************************************************************************)
Begin(r, query, c, p) ==
    /\ pc[r] = "idle"
    /\ pc' = [pc EXCEPT ![r] = query]
    /\ subject' = [subject EXCEPT ![r] = c]
    /\ target' = [target EXCEPT ![r] = p]
    /\ gone' = [gone EXCEPT ![r] = deleted]
    /\ UNCHANGED tree

Continue(r, query) ==
    /\ pc' = [pc EXCEPT ![r] = query]
    /\ UNCHANGED <<tree, subject, target, gone>>

\* The request is answered, with success or with an error.
Answer(r) ==
    /\ pc' = [pc EXCEPT ![r] = "idle"]
    /\ subject' = [subject EXCEPT ![r] = None]
    /\ target' = [target EXCEPT ![r] = None]
    /\ gone' = [gone EXCEPT ![r] = {}]

Refuse(r) == Answer(r) /\ UNCHANGED tree

\* Clients name categories they were told of. A category is created only while
\* there are ids left for every request in progress (bound).
Arrive(r) ==
    \/ /\ "create" \in Calls
       /\ Cardinality(created) + Cardinality({q \in Requests : pc[q] # "idle"})
            < Cardinality(CategoryIds)
       /\ \/ Begin(r, "insert", None, None)
          \/ \E p \in created : Begin(r, "findParent", None, p)
    \/ \E c \in created :
         \/ "rename" \in Calls /\ Begin(r, "findCategory", c, Unset)
         \/ "detach" \in Calls /\ Begin(r, "findCategory", c, None)
         \/ "move" \in Calls /\ \E p \in created : Begin(r, "findCategory", c, p)
         \/ "delete" \in Calls /\ Begin(r, "findDeleted", c, None)

(***************************************************************************)
(* create                                                                  *)
(***************************************************************************)
FindParent(r) ==
    /\ pc[r] = "findParent"
    /\ \/ target[r] \in Live /\ Continue(r, "insert")
       \/ target[r] \notin Live /\ Refuse(r)

Ancestors(c) == {a \in CategoryIds : <<a, c>> \in closure}

\* The closure rows of a new category: itself, and what its parent is below.
ClosureRows(c, p) == {<<c, c>>} \cup {<<a, c>> : a \in Ancestors(p)}

\* save(): the row and its closure rows, in one transaction.
Insert(r) ==
    /\ pc[r] = "insert"
    /\ \E c \in CategoryIds \ created :
         /\ created' = created \cup {c}
         /\ parent' = [parent EXCEPT ![c] = target[r]]
         /\ closure' = closure \cup ClosureRows(c, target[r])
    /\ Answer(r)
    /\ UNCHANGED deleted

(***************************************************************************)
(* update                                                                  *)
(***************************************************************************)

\* The parent the query joins: none if it is deleted.
JoinedParent(c) == IF parent[c] \in Live THEN parent[c] ELSE None

\* Mutant: a move goes on to look up the new parent, whichever it is.
FindCategorySelf(r) ==
    /\ pc[r] = "findCategory"
    /\ \/ subject[r] \notin Live /\ Refuse(r)
       \/ subject[r] \in Live /\ target[r] \in {None, Unset} /\ Continue(r, "update")
       \/ subject[r] \in Live /\ target[r] \in CategoryIds /\ Continue(r, "findTarget")

FindCategory(r) ==
    /\ pc[r] = "findCategory"
    /\ LET found    == subject[r] \in Live
           moves    == target[r] \in CategoryIds
           itself   == target[r] = subject[r]
           asBefore == target[r] = JoinedParent(subject[r])
       IN  \/ ~found /\ Refuse(r)
           \/ found /\ ~moves /\ Continue(r, "update")
           \/ found /\ moves /\ itself /\ Refuse(r)
           \/ found /\ moves /\ ~itself /\ ~asBefore /\ Continue(r, "findDescendants")
           \/ /\ found /\ moves /\ ~itself /\ asBefore
              /\ target' = [target EXCEPT ![r] = Unset]
              /\ pc' = [pc EXCEPT ![r] = "update"]
              /\ UNCHANGED <<tree, subject, gone>>

\* findDescendants joins the closure table; deleted categories are left out.
Descendants(c) == {d \in Live : <<c, d>> \in closure}

FindDescendants(r) ==
    /\ pc[r] = "findDescendants"
    /\ \/ target[r] \in Descendants(subject[r]) /\ Refuse(r)
       \/ target[r] \notin Descendants(subject[r]) /\ Continue(r, "findTarget")

\* Mutant: the new parent is not looked up.
FindTargetUnchecked(r) == pc[r] = "findTarget" /\ Continue(r, "update")

FindTarget(r) ==
    /\ pc[r] = "findTarget"
    /\ \/ target[r] \in Live /\ Continue(r, "update")
       \/ target[r] \notin Live /\ Refuse(r)

\* Mutant: a parentId that was not sent is written too.
UpdateUnset(r) ==
    /\ pc[r] = "update"
    /\ parent' = [parent EXCEPT ![subject[r]] = target[r]]
    /\ Answer(r)
    /\ UNCHANGED <<created, deleted, closure>>

\* Mutant: the category is saved below its new parent, and what is below it is not.
UpdateEnters(r) ==
    /\ pc[r] = "update"
    /\ parent' = IF target[r] = Unset THEN parent
                 ELSE [parent EXCEPT ![subject[r]] = target[r]]
    /\ closure' = closure \cup ClosureRows(subject[r], target[r])
    /\ Answer(r)
    /\ UNCHANGED <<created, deleted>>

\* update(): one UPDATE of the row, deleted or not. The closure table is not
\* touched.
Update(r) ==
    /\ pc[r] = "update"
    /\ parent' = IF target[r] = Unset THEN parent
                 ELSE [parent EXCEPT ![subject[r]] = target[r]]
    /\ Answer(r)
    /\ UNCHANGED <<created, deleted, closure>>

(***************************************************************************)
(* delete                                                                  *)
(***************************************************************************)
FindDeleted(r) ==
    /\ pc[r] = "findDeleted"
    /\ \/ subject[r] \in Live /\ Continue(r, "softDelete")
       \/ subject[r] \notin Live /\ Refuse(r)

\* softDelete(): only this row; its children keep it as their parent.
SoftDelete(r) ==
    /\ pc[r] = "softDelete"
    /\ deleted' = deleted \cup {subject[r]}
    /\ Answer(r)
    /\ UNCHANGED <<created, parent, closure>>

-----------------------------------------------------------------------------
Serve(r) ==
    \/ FindParent(r) \/ Insert(r)
    \/ FindCategory(r) \/ FindDescendants(r) \/ FindTarget(r) \/ Update(r)
    \/ FindDeleted(r) \/ SoftDelete(r)

\* A query fails, or the process stops.
Fail(r) == pc[r] # "idle" /\ Refuse(r)

Next == \E r \in Requests : Arrive(r) \/ Serve(r) \/ Fail(r)

Spec == Init /\ [][Next]_vars

-----------------------------------------------------------------------------
(***************************************************************************)
(* Properties                                                              *)
(***************************************************************************)

\* The type of every variable; a request that is about a category, or about a
\* new place for one, names categories that exist.
TypeOK ==
    /\ created \subseteq CategoryIds
    /\ deleted \subseteq created
    /\ parent \in [CategoryIds -> created \cup {None}]
    /\ closure \subseteq created \X created
    /\ pc \in [Requests -> Queries \cup {"idle"}]
    /\ subject \in [Requests -> created \cup {None}]
    /\ target \in [Requests -> created \cup {None, Unset}]
    /\ gone \in [Requests -> SUBSET deleted]
    /\ \A r \in Requests :
         /\ pc[r] \in {"findCategory", "findDescendants", "findTarget", "update", "softDelete"} =>
              subject[r] \in created
         /\ pc[r] \in {"findParent", "findDescendants", "findTarget"} => target[r] \in created
         /\ pc[r] = "insert" => target[r] # Unset

\* Whatever is created, moved and deleted at the same time, the closure table
\* stays an order of the categories: each is below itself, no two are below
\* each other, and what is below a descendant is below its ancestors.
ClosureIsOrder ==
    /\ \A c \in created : <<c, c>> \in closure
    /\ \A c, d \in created : <<c, d>> \in closure /\ <<d, c>> \in closure => c = d
    /\ \A c, d, e \in created :
         <<c, d>> \in closure /\ <<d, e>> \in closure => <<c, e>> \in closure

\* However calls interleave, no category is moved below itself or below a
\* category that was created below it (comment above findDescendants).
NeverUnderOwnOffspring ==
    \A c \in created : parent[c] # None => <<c, parent[c]>> \notin closure

\* A move that passed findDescendants is not below the category's offspring,
\* unless its target is deleted and will be refused.
MoveChecked ==
    \A r \in Requests :
        \/ pc[r] = "findTarget" /\ target[r] \in Live
        \/ pc[r] = "update" /\ target[r] \in created
        => <<subject[r], target[r]>> \notin closure

\* While no category changes its parent, the closure table says what the
\* parents say: a category's ancestors are itself and those of its parent.
ClosureFollowsParents ==
    \A a, d \in created :
        <<a, d>> \in closure <=> a = d \/ (parent[d] # None /\ <<a, parent[d]>> \in closure)

\* The look-up of a parent and the write that attaches a category to it are two
\* queries, between which the parent may be deleted. Still, no call attaches a
\* category to one that was deleted already when the call arrived.
AttachedToLive ==
    [][\A c \in CategoryIds :
         parent[c]' # parent[c] /\ parent[c]' # None =>
           \E r \in Requests :
             /\ pc[r] \in {"insert", "update"} /\ pc[r]' = "idle"
             /\ parent[c]' \notin gone[r]]_vars

(***************************************************************************)
(* What a comment says and the code does not do                            *)
(***************************************************************************)

\* "cannot move element to its descendant": the parents form no cycle.
Acyclic == \A S \in SUBSET created : S # {} => \E c \in S : parent[c] \notin S
=============================================================================
