------------------------- MODULE CategoryTreeProofs -------------------------
(***************************************************************************)
(* Theorems about the tree of categories, for any number of categories and *)
(* of calls at the same time.                                              *)
(***************************************************************************)
EXTENDS CategoryTree, TLAPS

USE NoneAssumption

\* A step inserts one category, writes one parent, deletes one category, or
\* leaves the tree as it is.
LEMMA TreeSteps ==
    ASSUME [Next]_vars
    PROVE  \/ \E r \in Requests : Insert(r) \/ Update(r) \/ SoftDelete(r)
           \/ UNCHANGED tree
  BY ZenonT(30) DEF Next, Arrive, Begin, Serve, FindParent, FindCategory, FindDescendants, FindTarget,
         FindDeleted, Fail, Refuse, Continue, vars, tree

(***************************************************************************)
(* Types                                                                   *)
(***************************************************************************)
LEMMA InitTypeOK == Init => TypeOK
  BY DEF Init, TypeOK

LEMMA NextTypeOK == TypeOK /\ [Next]_vars => TypeOK'
  <1> SUFFICES ASSUME TypeOK, [Next]_vars
               PROVE  TypeOK'
    OBVIOUS
  <1> USE DEF TypeOK, Queries
  <1>1. ASSUME NEW r \in Requests, Arrive(r)
        PROVE  TypeOK'
    BY <1>1 DEF Arrive, Begin, tree
  <1>2. ASSUME NEW r \in Requests, FindParent(r) \/ FindCategory(r) \/ FindDescendants(r)
                                   \/ FindTarget(r) \/ FindDeleted(r) \/ Fail(r)
        PROVE  TypeOK'
    BY <1>2 DEF FindParent, FindCategory, FindDescendants, FindTarget, FindDeleted, Fail,
                Refuse, Answer, Continue, Live, tree
  <1>3. ASSUME NEW r \in Requests, Insert(r)
        PROVE  TypeOK'
    <2>1. PICK c \in CategoryIds \ created :
            /\ created' = created \cup {c}
            /\ parent' = [parent EXCEPT ![c] = target[r]]
            /\ closure' = closure \cup ClosureRows(c, target[r])
      BY <1>3 DEF Insert
    <2>2. ClosureRows(c, target[r]) \subseteq created' \X created'
      <3>1. \A a \in Ancestors(target[r]) : a \in created
        BY DEF Ancestors
      <3> QED
        BY <2>1, <3>1 DEF ClosureRows
    <2>3. target[r] \in created \cup {None}
      BY <1>3 DEF Insert
    <2>4. closure' \subseteq created' \X created'
      BY <2>1, <2>2
    <2> QED
      BY <1>3, <2>1, <2>3, <2>4 DEF Insert, Answer
  <1>4. ASSUME NEW r \in Requests, Update(r)
        PROVE  TypeOK'
    BY <1>4 DEF Update, Answer
  <1>5. ASSUME NEW r \in Requests, SoftDelete(r)
        PROVE  TypeOK'
    BY <1>5 DEF SoftDelete, Answer
  <1>6. CASE UNCHANGED vars
    BY <1>6 DEF vars
  <1> QED
    BY <1>1, <1>2, <1>3, <1>4, <1>5, <1>6 DEF Next, Serve

\* Every variable keeps its type, however calls interleave.
THEOREM TypeCorrect == Spec => []TypeOK
  BY InitTypeOK, NextTypeOK, PTL DEF Spec

(***************************************************************************)
(* The closure table                                                       *)
(***************************************************************************)

\* What the insertion of a category adds to the closure table.
LEMMA InsertedRows ==
    ASSUME TypeOK, NEW r \in Requests, Insert(r)
    PROVE  \E c \in CategoryIds \ created :
             /\ created' = created \cup {c}
             /\ parent' = [parent EXCEPT ![c] = target[r]]
             /\ target[r] \in created \cup {None}
             /\ \A a, d : <<a, d>> \in closure' <=>
                  \/ <<a, d>> \in closure
                  \/ d = c /\ a = c
                  \/ d = c /\ target[r] \in created /\ <<a, target[r]>> \in closure
  <1>1. PICK c \in CategoryIds \ created :
          /\ created' = created \cup {c}
          /\ parent' = [parent EXCEPT ![c] = target[r]]
          /\ closure' = closure \cup ClosureRows(c, target[r])
    BY DEF Insert
  <1>2. target[r] \in created \cup {None}
    BY DEF Insert, TypeOK
  <1>3. \A a, d : <<a, d>> \in closure => a \in created /\ d \in created
    BY DEF TypeOK
  <1>4. created \subseteq CategoryIds
    BY DEF TypeOK
  <1>5. \A a, d : <<a, d>> \in ClosureRows(c, target[r]) <=>
          \/ d = c /\ a = c
          \/ d = c /\ target[r] \in created /\ <<a, target[r]>> \in closure
    BY <1>3, <1>4 DEF ClosureRows, Ancestors
  <1> QED
    BY <1>1, <1>2, <1>5

\* Between categories that exist, the closure table never changes.
LEMMA ClosureIsFixed ==
    ASSUME TypeOK, [Next]_vars
    PROVE  \A a, d \in created : <<a, d>> \in closure' <=> <<a, d>> \in closure
  <1>1. ASSUME NEW r \in Requests, Insert(r)
        PROVE  \A a, d \in created : <<a, d>> \in closure' <=> <<a, d>> \in closure
    <2>1. PICK c \in CategoryIds \ created : closure' = closure \cup ClosureRows(c, target[r])
      BY <1>1 DEF Insert
    <2> TAKE a \in created, d \in created
    <2>2. <<a, d>> \notin ClosureRows(c, target[r])
      BY <2>1 DEF ClosureRows
    <2> QED
      BY <2>1, <2>2
  <1>2. CASE closure' = closure
    BY <1>2
  <1> QED
    BY <1>1, <1>2, TreeSteps DEF Update, SoftDelete, tree

LEMMA NextClosureIsOrder == TypeOK /\ ClosureIsOrder /\ [Next]_vars => ClosureIsOrder'
  <1> SUFFICES ASSUME TypeOK, ClosureIsOrder, [Next]_vars
               PROVE  ClosureIsOrder'
    OBVIOUS
  <1>1. ASSUME NEW r \in Requests, Insert(r)
        PROVE  ClosureIsOrder'
    <2>1. PICK c \in CategoryIds \ created :
             /\ created' = created \cup {c}
             /\ target[r] \in created \cup {None}
             /\ \A a, d : <<a, d>> \in closure' <=>
                  \/ <<a, d>> \in closure
                  \/ d = c /\ a = c
                  \/ d = c /\ target[r] \in created /\ <<a, target[r]>> \in closure
      BY <1>1, InsertedRows
    <2>2. \A a, d : <<a, d>> \in closure => a \in created /\ d \in created
      BY DEF TypeOK
    <2>3. \A a \in created' : <<a, a>> \in closure'
      BY <2>1 DEF ClosureIsOrder
    <2>4. \A a, d \in created' : <<a, d>> \in closure' /\ <<d, a>> \in closure' => a = d
      BY ZenonT(30), <2>1, <2>2 DEF ClosureIsOrder
    <2>5. ASSUME NEW a \in created', NEW d \in created', NEW e \in created',
                 <<a, d>> \in closure', <<d, e>> \in closure'
          PROVE  <<a, e>> \in closure'
      <3>1. CASE e # c
        BY <2>1, <2>2, <2>5, <3>1 DEF ClosureIsOrder
      <3>2. CASE e = c /\ d = c
        BY <2>5, <3>2
      <3>3. CASE e = c /\ d # c
        <4>1. target[r] \in created /\ <<d, target[r]>> \in closure /\ <<a, d>> \in closure
          BY <2>1, <2>2, <2>5, <3>3
        <4>2. <<a, target[r]>> \in closure
          BY <2>2, <4>1 DEF ClosureIsOrder
        <4> QED
          BY <2>1, <3>3, <4>1, <4>2
      <3> QED
        BY <3>1, <3>2, <3>3
    <2> QED
      BY <2>3, <2>4, <2>5 DEF ClosureIsOrder
  <1>2. CASE UNCHANGED <<created, closure>>
    BY <1>2 DEF ClosureIsOrder
  <1> QED
    BY <1>1, <1>2, TreeSteps DEF Update, SoftDelete, tree

\* Whatever is created, moved and deleted at the same time, the closure table
\* stays an order of the categories.
THEOREM ClosureStaysOrder == Spec => []ClosureIsOrder
  <1>1. Init => ClosureIsOrder
    BY DEF Init, ClosureIsOrder
  <1> QED
    BY <1>1, InitTypeOK, NextTypeOK, NextClosureIsOrder, PTL DEF Spec

(***************************************************************************)
(* Moves                                                                   *)
(***************************************************************************)
LEMMA NextMoveChecked == TypeOK /\ MoveChecked /\ [Next]_vars => MoveChecked'
  <1> SUFFICES ASSUME TypeOK, MoveChecked, [Next]_vars, NEW q \in Requests,
                      \/ pc'[q] = "findTarget" /\ target'[q] \in Live'
                      \/ pc'[q] = "update" /\ target'[q] \in created'
               PROVE  <<subject'[q], target'[q]>> \notin closure'
    BY DEF MoveChecked
  <1>1. ASSUME subject'[q] \in created, target'[q] \in created,
               <<subject'[q], target'[q]>> \notin closure
        PROVE  <<subject'[q], target'[q]>> \notin closure'
    BY <1>1, ClosureIsFixed
  <1>2. ASSUME pc'[q] = pc[q], subject'[q] = subject[q], target'[q] = target[q],
               Live' \cap created \subseteq Live
        PROVE  <<subject'[q], target'[q]>> \notin closure'
    <2>1. subject[q] \in created
      BY <1>2 DEF TypeOK
    <2>2. target[q] \in created
      <3>1. created' \subseteq CategoryIds /\ deleted' \subseteq created'
        BY NextTypeOK DEF TypeOK
      <3>2. target'[q] \in CategoryIds
        BY <3>1 DEF Live
      <3> QED
        BY <1>2, <3>2 DEF TypeOK
    <2>3. pc[q] = "findTarget" => target[q] \in Live
      BY <1>2, <2>2
    <2>4. pc[q] = "findTarget" \/ pc[q] = "update"
      BY <1>2
    <2>5. <<subject[q], target[q]>> \notin closure
      BY <2>2, <2>3, <2>4 DEF MoveChecked
    <2> QED
      BY <1>1, <1>2, <2>1, <2>2, <2>5
  <1>3. ASSUME NEW r \in Requests, FindDescendants(r), q = r
        PROVE  <<subject'[q], target'[q]>> \notin closure'
    <2>1. subject[r] \in created /\ target[r] \in created
      BY <1>3 DEF FindDescendants, TypeOK
    <2>2. target[r] \notin Descendants(subject[r]) /\ pc'[r] = "findTarget" /\ Live' = Live
          /\ subject' = subject /\ target' = target
      BY <1>3 DEF FindDescendants, Continue, Refuse, Answer, TypeOK, tree, Live
    <2>3. <<subject[r], target[r]>> \notin closure
      BY <1>3, <2>2 DEF Descendants
    <2> QED
      BY <1>1, <1>3, <2>1, <2>2, <2>3
  <1>4. ASSUME NEW r \in Requests, FindTarget(r), q = r
        PROVE  <<subject'[q], target'[q]>> \notin closure'
    <2>1. subject[r] \in created /\ target[r] \in created
      BY <1>4 DEF FindTarget, TypeOK
    <2>2. target[r] \in Live /\ subject' = subject /\ target' = target
      BY <1>4 DEF FindTarget, Continue, Refuse, Answer, TypeOK, tree, Live
    <2>3. <<subject[r], target[r]>> \notin closure
      BY <1>4, <2>2 DEF FindTarget, MoveChecked
    <2> QED
      BY <1>1, <1>4, <2>1, <2>2, <2>3
  <1>5. ASSUME NEW r \in Requests, FindCategory(r), q = r
        PROVE  FALSE
    BY <1>5 DEF FindCategory, Continue, Refuse, Answer, TypeOK, JoinedParent, tree
  <1>6. ASSUME NEW r \in Requests, FindParent(r) \/ FindDeleted(r) \/ Fail(r) \/ Arrive(r)
                                   \/ Insert(r) \/ Update(r) \/ SoftDelete(r), q = r
        PROVE  FALSE
    BY <1>6 DEF FindParent, FindDeleted, Fail, Arrive, Begin, Insert, Update, SoftDelete,
                Continue, Refuse, Answer, TypeOK
  <1>7. ASSUME NEW r \in Requests, Arrive(r) \/ Serve(r) \/ Fail(r), q # r
        PROVE  <<subject'[q], target'[q]>> \notin closure'
    <2>1. CASE Arrive(r)
      <3>1. pc'[q] = pc[q] /\ subject'[q] = subject[q] /\ target'[q] = target[q] /\ Live' = Live
        BY <1>7, <2>1 DEF Arrive, Begin, TypeOK, Live, tree
      <3> QED
        BY <1>2, <3>1
    <2>2. CASE Serve(r) \/ Fail(r)
      <3>1. pc'[q] = pc[q] /\ subject'[q] = subject[q] /\ target'[q] = target[q]
        BY <1>7, <2>2
        DEF Serve, FindParent, Insert, FindCategory, FindDescendants, FindTarget, Update,
            FindDeleted, SoftDelete, Fail, Continue, Refuse, Answer, TypeOK
      <3>2. deleted \subseteq deleted'
        BY <2>2
        DEF Serve, FindParent, Insert, FindCategory, FindDescendants, FindTarget, Update,
            FindDeleted, SoftDelete, Fail, Continue, Refuse, tree
      <3> QED
        BY <1>2, <3>1, <3>2 DEF Live
    <2> QED
      BY <1>7, <2>1, <2>2
  <1>8. CASE UNCHANGED vars
    BY <1>2, <1>8 DEF vars, Live
  <1> QED
    BY <1>3, <1>4, <1>5, <1>6, <1>7, <1>8 DEF Next, Serve

LEMMA NextNeverUnder ==
    ASSUME TypeOK, MoveChecked, NeverUnderOwnOffspring, [Next]_vars
    PROVE  NeverUnderOwnOffspring'
  <1>1. ASSUME NEW r \in Requests, Insert(r)
        PROVE  NeverUnderOwnOffspring'
    <2>1. PICK c \in CategoryIds \ created :
             /\ created' = created \cup {c}
             /\ parent' = [parent EXCEPT ![c] = target[r]]
             /\ closure' = closure \cup ClosureRows(c, target[r])
      BY <1>1 DEF Insert
    <2>2. target[r] \in created \cup {None} /\ parent \in [CategoryIds -> created \cup {None}]
      BY <1>1 DEF Insert, TypeOK
    <2>3. \A a, d : <<a, d>> \in closure => a \in created /\ d \in created
      BY DEF TypeOK
    <2>4. \A a : \A d \in created : <<a, d>> \notin ClosureRows(c, target[r])
      BY <2>1 DEF ClosureRows
    <2>5. ASSUME NEW d \in created, parent'[d] # None
          PROVE  <<d, parent'[d]>> \notin closure'
      <3>1. parent'[d] = parent[d] /\ parent[d] \in created
        BY <2>1, <2>2, <2>5 DEF TypeOK
      <3>2. <<d, parent[d]>> \notin closure
        BY <2>5, <3>1 DEF NeverUnderOwnOffspring
      <3> QED
        BY <2>1, <2>4, <3>1, <3>2
    <2>6. ASSUME parent'[c] # None
          PROVE  <<c, parent'[c]>> \notin closure'
      <3>1. parent'[c] = target[r] /\ target[r] \in created
        BY <2>1, <2>2, <2>6
      <3> QED
        BY <2>1, <2>3, <2>4, <3>1
    <2> QED
      BY <2>1, <2>5, <2>6 DEF NeverUnderOwnOffspring
  <1>2. ASSUME NEW r \in Requests, Update(r)
        PROVE  NeverUnderOwnOffspring'
    <2>1. target[r] \in created => <<subject[r], target[r]>> \notin closure
      BY <1>2 DEF Update, MoveChecked
    <2>2. target[r] \in created \cup {None, Unset} /\ parent \in [CategoryIds -> created \cup {None}]
      BY DEF TypeOK
    <2> QED
      BY <1>2, <2>1, <2>2 DEF Update, NeverUnderOwnOffspring
  <1>3. CASE UNCHANGED <<created, parent, closure>>
    BY <1>3 DEF NeverUnderOwnOffspring
  <1> QED
    BY <1>1, <1>2, <1>3, TreeSteps DEF SoftDelete, tree

\* However calls interleave, no category is moved below itself or below a
\* category that was created below it.
THEOREM NeverMovedUnderOffspring == Spec => []NeverUnderOwnOffspring
  <1>1. Init => MoveChecked /\ NeverUnderOwnOffspring
    BY DEF Init, MoveChecked, NeverUnderOwnOffspring
  <1> QED
    BY <1>1, InitTypeOK, NextTypeOK, NextMoveChecked, NextNeverUnder, PTL DEF Spec

(***************************************************************************)
(* Without moves                                                           *)
(***************************************************************************)

\* No request is about to change a parent.
NoMoveAhead ==
    \A r \in Requests :
        /\ pc[r] \in {"findCategory", "update"} => target[r] = Unset
        /\ pc[r] \notin {"findDescendants", "findTarget"}

LEMMA NextNoMoveAhead ==
    ASSUME "detach" \notin Calls, "move" \notin Calls, TypeOK, NoMoveAhead, [Next]_vars
    PROVE  NoMoveAhead'
  <1>1. ASSUME NEW r \in Requests, Arrive(r)
        PROVE  NoMoveAhead'
    BY <1>1 DEF Arrive, Begin, NoMoveAhead, TypeOK
  <1>2. ASSUME NEW r \in Requests, FindCategory(r)
        PROVE  NoMoveAhead'
    BY <1>2 DEF FindCategory, Continue, Refuse, Answer, NoMoveAhead, TypeOK
  <1>3. ASSUME NEW r \in Requests, FindDescendants(r) \/ FindTarget(r)
        PROVE  FALSE
    BY <1>3 DEF FindDescendants, FindTarget, NoMoveAhead
  <1>4. ASSUME NEW r \in Requests, FindParent(r) \/ Insert(r) \/ Update(r) \/ FindDeleted(r)
                                   \/ SoftDelete(r) \/ Fail(r)
        PROVE  NoMoveAhead'
    BY <1>4 DEF FindParent, Insert, Update, FindDeleted, SoftDelete, Fail, Continue, Refuse,
                Answer, NoMoveAhead, TypeOK
  <1>5. CASE UNCHANGED vars
    BY <1>5 DEF vars, NoMoveAhead
  <1> QED
    BY <1>1, <1>2, <1>3, <1>4, <1>5 DEF Next, Serve

LEMMA NextClosureFollows ==
    ASSUME TypeOK, NoMoveAhead, ClosureFollowsParents, [Next]_vars
    PROVE  ClosureFollowsParents'
  <1>1. ASSUME NEW r \in Requests, Insert(r)
        PROVE  ClosureFollowsParents'
    <2>1. PICK c \in CategoryIds \ created :
             /\ created' = created \cup {c}
             /\ parent' = [parent EXCEPT ![c] = target[r]]
             /\ closure' = closure \cup ClosureRows(c, target[r])
      BY <1>1 DEF Insert
    <2>2. target[r] \in created \cup {None} /\ parent \in [CategoryIds -> created \cup {None}]
      BY <1>1 DEF Insert, TypeOK
    <2>3. \A a, d : <<a, d>> \in closure => a \in created /\ d \in created
      BY DEF TypeOK
    <2>4. \A a : \A d \in created : <<a, d>> \notin ClosureRows(c, target[r])
      BY <2>1 DEF ClosureRows
    <2>5. ASSUME NEW a \in created', NEW d \in created
          PROVE  <<a, d>> \in closure' <=> a = d \/ (parent'[d] # None /\ <<a, parent'[d]>> \in closure')
      <3>1. parent'[d] = parent[d] /\ parent[d] \in created \cup {None}
        BY <2>1, <2>2 DEF TypeOK
      <3>2. <<a, d>> \in closure' <=> <<a, d>> \in closure
        BY <2>1, <2>4
      <3>3. parent[d] # None => (<<a, parent[d]>> \in closure' <=> <<a, parent[d]>> \in closure)
        BY <2>1, <2>4, <3>1
      <3>4. CASE a \in created
        BY <3>1, <3>2, <3>3, <3>4 DEF ClosureFollowsParents
      <3>5. CASE a \notin created
        BY <2>3, <3>1, <3>2, <3>3, <3>5
      <3> QED
        BY <3>4, <3>5
    <2>6. ASSUME NEW a \in created'
          PROVE  <<a, c>> \in closure' <=> a = c \/ (parent'[c] # None /\ <<a, parent'[c]>> \in closure')
      <3>1. parent'[c] = target[r] /\ a \in CategoryIds /\ None \notin created
        BY <2>1, <2>2 DEF TypeOK
      <3>2. <<a, c>> \notin closure
        BY <2>1, <2>3
      <3>3. <<a, c>> \in closure' <=> <<a, c>> \in ClosureRows(c, target[r])
        BY <2>1, <3>2
      <3>4. <<a, c>> \in ClosureRows(c, target[r]) <=> a = c \/ <<a, target[r]>> \in closure
        BY <3>1 DEF ClosureRows, Ancestors
      <3>5. target[r] # None => (<<a, target[r]>> \in closure' <=> <<a, target[r]>> \in closure)
        BY <2>1, <2>2, <2>4
      <3>6. target[r] = None => <<a, target[r]>> \notin closure
        BY <2>3, <3>1
      <3> QED
        BY <3>1, <3>3, <3>4, <3>5, <3>6
    <2> QED
      BY <2>1, <2>5, <2>6 DEF ClosureFollowsParents
  <1>2. ASSUME NEW r \in Requests, Update(r)
        PROVE  UNCHANGED <<created, parent, closure>>
    BY <1>2 DEF Update, NoMoveAhead
  <1>3. CASE UNCHANGED <<created, parent, closure>>
    BY <1>3 DEF ClosureFollowsParents
  <1> QED
    BY <1>1, <1>2, <1>3, TreeSteps DEF SoftDelete, tree

\* While no category changes its parent, the closure table says what the
\* parents say, however many calls create, rename and delete at the same time.
THEOREM ClosureFollows ==
    ASSUME "detach" \notin Calls, "move" \notin Calls
    PROVE  Spec => []ClosureFollowsParents
  <1>1. Init => TypeOK /\ NoMoveAhead /\ ClosureFollowsParents
    BY InitTypeOK DEF Init, NoMoveAhead, ClosureFollowsParents
  <1>2. TypeOK /\ NoMoveAhead /\ ClosureFollowsParents /\ [Next]_vars =>
          TypeOK' /\ NoMoveAhead' /\ ClosureFollowsParents'
    BY NextTypeOK, NextNoMoveAhead, NextClosureFollows
  <1> QED
    BY <1>1, <1>2, PTL DEF Spec

(***************************************************************************)
(* Deleted parents                                                         *)
(***************************************************************************)

\* A parent that was found had not been deleted when the call arrived.
FoundNotGone ==
    \A r \in Requests :
        pc[r] \in {"insert", "update"} /\ target[r] \in created => target[r] \notin gone[r]

LEMMA NextFoundNotGone ==
    ASSUME TypeOK, FoundNotGone, [Next]_vars
    PROVE  FoundNotGone'
  <1> USE DEF TypeOK
  <1>1. ASSUME NEW r \in Requests, Arrive(r)
        PROVE  FoundNotGone'
    BY <1>1 DEF Arrive, Begin, FoundNotGone, tree
  <1>2. ASSUME NEW r \in Requests, FindParent(r) \/ FindTarget(r)
        PROVE  FoundNotGone'
    BY <1>2 DEF FindParent, FindTarget, Continue, Refuse, Answer, Live, FoundNotGone, tree
  <1>3. ASSUME NEW r \in Requests, FindCategory(r)
        PROVE  FoundNotGone'
    BY <1>3 DEF FindCategory, Continue, Refuse, Answer, FoundNotGone, tree
  <1>4. ASSUME NEW r \in Requests, FindDescendants(r) \/ FindDeleted(r) \/ Fail(r)
        PROVE  FoundNotGone'
    BY <1>4 DEF FindDescendants, FindDeleted, Fail, Continue, Refuse, Answer, FoundNotGone, tree
  <1>5. ASSUME NEW r \in Requests, Insert(r)
        PROVE  FoundNotGone'
    <2>1. PICK c \in CategoryIds \ created : created' = created \cup {c}
      BY <1>5 DEF Insert
    <2>2. ASSUME NEW q \in Requests, pc'[q] \in {"insert", "update"}, target'[q] \in created'
          PROVE  target'[q] \notin gone'[q]
      <3>1. q # r /\ pc'[q] = pc[q] /\ target'[q] = target[q] /\ gone'[q] = gone[q]
        BY <1>5, <2>2 DEF Insert, Answer
      <3>2. target[q] \in created \/ target[q] \notin gone[q]
        BY <2>1, <3>1
      <3> QED
        BY <2>2, <3>1, <3>2 DEF FoundNotGone
    <2> QED
      BY <2>2 DEF FoundNotGone
  <1>6. ASSUME NEW r \in Requests, Update(r) \/ SoftDelete(r)
        PROVE  FoundNotGone'
    BY <1>6 DEF Update, SoftDelete, Answer, FoundNotGone
  <1>7. CASE UNCHANGED vars
    BY <1>7 DEF vars, FoundNotGone
  <1> QED
    BY <1>1, <1>2, <1>3, <1>4, <1>5, <1>6, <1>7 DEF Next, Serve

\* However deletions interleave with it, no call attaches a category to a parent
\* that was deleted already when the call arrived.
THEOREM AttachesToLive == Spec => AttachedToLive
  <1>1. Init => TypeOK /\ FoundNotGone
    BY InitTypeOK DEF Init, FoundNotGone
  <1>2. TypeOK /\ FoundNotGone /\ [Next]_vars => TypeOK' /\ FoundNotGone'
    BY NextTypeOK, NextFoundNotGone
  <1>3. ASSUME TypeOK, FoundNotGone, [Next]_vars, NEW c \in CategoryIds,
               parent'[c] # parent[c], parent'[c] # None
        PROVE  \E r \in Requests :
                 /\ pc[r] \in {"insert", "update"} /\ pc'[r] = "idle"
                 /\ parent'[c] \notin gone[r]
    <2>1. PICK r \in Requests : Insert(r) \/ Update(r)
      BY <1>3, TreeSteps DEF SoftDelete, tree
    <2>2. /\ pc[r] \in {"insert", "update"} /\ pc'[r] = "idle"
          /\ target[r] \in created \cup {None, Unset}
      BY <1>3, <2>1 DEF Insert, Update, Answer, TypeOK
    <2>3. parent'[c] = target[r] /\ parent'[c] # Unset
      BY <1>3, <2>1, <2>2 DEF Insert, Update, TypeOK
    <2> QED
      BY <1>3, <2>2, <2>3 DEF FoundNotGone
  <1>4. TypeOK /\ FoundNotGone /\ [Next]_vars =>
          [\A c \in CategoryIds :
             parent[c]' # parent[c] /\ parent[c]' # None =>
               \E r \in Requests :
                 /\ pc[r] \in {"insert", "update"} /\ pc[r]' = "idle"
                 /\ parent[c]' \notin gone[r]]_vars
    BY <1>3
  <1> QED
    BY <1>1, <1>2, <1>4, PTL DEF Spec, AttachedToLive
=============================================================================
