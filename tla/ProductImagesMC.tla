--------------------------- MODULE ProductImagesMC ---------------------------
(***************************************************************************)
(* Instances of ProductImages for TLC: the item lists clients send and the *)
(* tables the service starts with.                                         *)
(***************************************************************************)
EXTENDS ProductImagesInvariants, TLC

CONSTANTS i1, i2, i3, i4, i5

CONSTANTS r1, r2, r3

\* Requests are alike, and so are the ids that are not generated yet; no list or
\* table below names i3, i4 or i5. Each is used only after the one before it: a
\* constraint that, unlike a symmetry set, leaves liveness sound.
InUse == {i \in ImageIds : rows[i] # None \/ \E o \in store : o.id = i}
Sent  == {r \in Requests : pc[r] # "idle"}
InOrder == /\ r2 \in Sent => r1 \in Sent
           /\ r3 \in Sent => r2 \in Sent
           /\ i4 \in InUse => i3 \in InUse
           /\ i5 \in InUse => i4 \in InUse

New(active, delete, main) ==
    [file |-> TRUE, id |-> None, active |-> active, delete |-> delete, main |-> main]
Update(i, active, delete, main) ==
    [file |-> FALSE, id |-> i, active |-> active, delete |-> delete, main |-> main]

StoredRow(active, deleted) ==
    LET row == [active |-> active, deleted |-> deleted, main |-> FALSE, dir |-> "private"]
    IN  [row EXCEPT !.dir = DirOf(row)]

\* One image, public or private, and a second one that is deleted.
OneLive == {[NoRows EXCEPT ![i1] = StoredRow(a, FALSE), ![i2] = StoredRow(TRUE, TRUE)] : a \in BOOLEAN}

\* The private one alone: a first list may publish it.
OnePrivate == {t \in OneLive : ~t[i1].active}

\* Two live images, as many as the limit of two allows.
AtLimit == {[NoRows EXCEPT ![i1] = StoredRow(TRUE, FALSE), ![i2] = StoredRow(FALSE, FALSE)]}

RaceRows == OneLive \cup AtLimit

Publish(i) == Update(i, TRUE, None, None)
Hide(i)    == Update(i, FALSE, None, None)
Remove(i)  == Update(i, None, TRUE, None)
MakeMain(i) == Update(i, None, FALSE, TRUE)

\* Every way of changing i1, a new image alone and with others, an image that
\* is deleted or unknown in first and in second place, and lists that are refused.
EditorPayloads ==
    {<<Publish(i1)>>, <<Hide(i1)>>, <<Remove(i1)>>, <<MakeMain(i1)>>,
     <<New(TRUE, TRUE, None)>>, <<Publish(i1), New(TRUE, None, TRUE)>>, <<Hide(i1), Remove(i2)>>,
     <<New(None, None, None), Remove(i1)>>,
     <<Hide(i2)>>, <<>>, <<Publish(i1), Remove(i1)>>, <<MakeMain(i1), New(TRUE, None, TRUE)>>}

\* The lists two editors send at the same time; the last is refused.
RacePayloads ==
    {<<Publish(i1)>>, <<Hide(i1)>>, <<Remove(i1)>>, <<New(TRUE, None, None)>>,
     <<New(None, None, None), Remove(i1)>>, <<Publish(i1), Remove(i1)>>}
=============================================================================
