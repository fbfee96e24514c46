---------------------- MODULE ProductImagesSettleProofs ----------------------
(***************************************************************************)
(* Theorems about what a turn of an editor comes to: the number of images  *)
(* it leaves, and the files the bucket holds once its moves have ended.    *)
(* They rest on the invariant of ProductImagesProofs, and on two of their  *)
(* own from ProductImagesInvariants.                                       *)
(***************************************************************************)
EXTENDS ProductImagesProofs, FiniteSetTheorems

USE NoneAssumption

(***************************************************************************)
(* Items ahead                                                             *)
(***************************************************************************)

LEMMA SubsetsAreFinite ==
    ASSUME NEW S, IsFiniteSet(S)
    PROVE  \A T : T \subseteq S => IsFiniteSet(T) /\ Cardinality(T) \in Nat
  <1> SUFFICES ASSUME NEW T, T \subseteq S
               PROVE  IsFiniteSet(T) /\ Cardinality(T) \in Nat
    OBVIOUS
  <1>1. IsFiniteSet(T)
    BY FS_Subset
  <1> QED
    BY <1>1, FS_CardinalityType

LEMMA ItemSetsFinite ==
    ASSUME TypeOK, NEW r \in Requests
    PROVE  /\ IsFiniteSet(Files(payload[r])) /\ IsFiniteSet(Deletes(payload[r]))
           /\ IsFiniteSet(FilesAhead(r)) /\ IsFiniteSet(DeletesAhead(r))
           /\ Cardinality(FilesAhead(r)) \in Nat /\ Cardinality(DeletesAhead(r)) \in Nat
  <1>1. payload[r] \in Seq(Item)
    BY DEF TypeOK
  <1>2. DOMAIN payload[r] = 1..Len(payload[r]) /\ Len(payload[r]) \in Nat
    BY <1>1
  <1>3. \A n \in Nat : IsFiniteSet(1..n)
    <2> TAKE n \in Nat
    <2>1. 1 \in Int /\ n \in Int
      OBVIOUS
    <2> QED
      BY <2>1, FS_Interval
  <1>4. IsFiniteSet(DOMAIN payload[r])
    BY <1>2, <1>3
  <1>5. /\ Files(payload[r]) \subseteq DOMAIN payload[r]
        /\ Deletes(payload[r]) \subseteq DOMAIN payload[r]
        /\ FilesAhead(r) \subseteq DOMAIN payload[r]
        /\ DeletesAhead(r) \subseteq DOMAIN payload[r]
    BY DEF Files, Deletes, FilesAhead, DeletesAhead
  <1> QED
    BY <1>4, <1>5, SubsetsAreFinite

\* What is ahead of a request before its first item, and after its last one.
LEMMA AheadAtTheEnds ==
    ASSUME TypeOK, NEW r \in Requests
    PROVE  /\ next[r] = 1 => FilesAhead(r) = Files(payload[r])
                          /\ DeletesAhead(r) = Deletes(payload[r])
           /\ next[r] = Len(payload[r]) + 1 => FilesAhead(r) = {} /\ DeletesAhead(r) = {}
  <1>1. payload[r] \in Seq(Item)
    BY DEF TypeOK
  <1>2. DOMAIN payload[r] = 1..Len(payload[r]) /\ Len(payload[r]) \in Nat
    BY <1>1
  <1> QED
    BY <1>2 DEF Files, Deletes, FilesAhead, DeletesAhead

\* Going on to the next item takes the current one out of what is ahead.
LEMMA AheadAdvances ==
    ASSUME TypeOK, NEW r \in Requests, next[r] \in DOMAIN payload[r],
           payload'[r] = payload[r], next'[r] = next[r] + 1
    PROVE  /\ Cardinality(FilesAhead(r)') =
                Cardinality(FilesAhead(r)) - (IF CurrentItem(r).file THEN 1 ELSE 0)
           /\ Cardinality(DeletesAhead(r)') =
                Cardinality(DeletesAhead(r)) - (IF CurrentItem(r).delete = TRUE THEN 1 ELSE 0)
  <1>1. payload[r] \in Seq(Item) /\ next[r] \in Nat
    BY DEF TypeOK
  <1>2. DOMAIN payload[r] = 1..Len(payload[r]) /\ Len(payload[r]) \in Nat
    BY <1>1
  <1>3. \A n \in DOMAIN payload[r] : n >= next[r] + 1 <=> n >= next[r] /\ n # next[r]
    BY <1>1, <1>2
  <1>4. /\ FilesAhead(r)' = FilesAhead(r) \ {next[r]}
        /\ DeletesAhead(r)' = DeletesAhead(r) \ {next[r]}
    BY <1>3 DEF FilesAhead, DeletesAhead, Files, Deletes
  <1>5. /\ next[r] \in FilesAhead(r) <=> CurrentItem(r).file
        /\ next[r] \in DeletesAhead(r) <=> CurrentItem(r).delete = TRUE
    BY <1>1 DEF FilesAhead, DeletesAhead, Files, Deletes, CurrentItem
  <1>6. IsFiniteSet(FilesAhead(r)) /\ IsFiniteSet(DeletesAhead(r))
    BY ItemSetsFinite
  <1>7. /\ Cardinality(FilesAhead(r) \ {next[r]}) =
             Cardinality(FilesAhead(r)) - (IF next[r] \in FilesAhead(r) THEN 1 ELSE 0)
        /\ Cardinality(DeletesAhead(r) \ {next[r]}) =
             Cardinality(DeletesAhead(r)) - (IF next[r] \in DeletesAhead(r) THEN 1 ELSE 0)
    <2>1. ASSUME NEW S, NEW x, IsFiniteSet(S)
          PROVE  Cardinality(S \ {x}) = Cardinality(S) - (IF x \in S THEN 1 ELSE 0)
      <3>1. Cardinality(S) \in Nat
        BY <2>1, FS_CardinalityType
      <3>2. Cardinality(S \ {x}) = IF x \in S THEN Cardinality(S) - 1 ELSE Cardinality(S)
        BY <2>1, FS_RemoveElement
      <3> QED
        BY <3>1, <3>2
    <2> QED
      BY <1>6, <2>1
  <1> QED
    BY <1>4, <1>5, <1>7

(***************************************************************************)
(* The number of images                                                    *)
(***************************************************************************)

\* What a request that holds rows may do, and what leaves it alone.
LEMMA HoldingSteps ==
    ASSUME SerialInv, [SerialNext]_vars, NEW q \in Requests, pc'[q] \in Holding
    PROVE  \/ Load(q) \/ UploadThumbnail(q) \/ UpdateItem(q)
           \/ /\ pc[q] \in Holding /\ rows' = rows /\ mem'[q] = mem[q]
              /\ payload'[q] = payload[q] /\ next'[q] = next[q]
  <1> DEFINE Same == /\ pc[q] \in Holding /\ rows' = rows /\ mem'[q] = mem[q]
                     /\ payload'[q] = payload[q] /\ next'[q] = next[q]
  <1>0. TypeOK /\ OneAtATime /\ Holding \subseteq Steps
    BY DEF SerialInv, UploadInv, Holding, Steps
  <1>1. ASSUME NEW r \in Requests, Fail(r) PROVE Same
    BY <1>0, <1>1 DEF Fail, Finish, TypeOK, Holding
  <1>2. ASSUME NEW cutOff, Restart(cutOff) PROVE Same
    BY <1>0, <1>2 DEF Restart, TypeOK, Holding, Steps
  <1>3. ASSUME NEW r \in Requests, NEW p \in Payloads, Receive(r, p) PROVE Same
    BY <1>0, <1>3 DEF Receive, TypeOK, Holding
  <1>4. ASSUME NEW r \in Requests, UploadImage(r) \/ BeginSave(r) PROVE Same
    BY <1>0, <1>4 DEF UploadImage, BeginSave, AtItem, TypeOK, Holding
  <1>5. ASSUME NEW r \in Requests, Write(r) PROVE Same
    <2>1. q # r /\ pc[q] \in Holding
      BY <1>0, <1>5 DEF Write, Finish, TypeOK, Holding
    <2>2. pc[r] \in Steps /\ pc[q] \in Steps
      BY <1>0, <1>5, <2>1 DEF Write, Steps
    <2> QED
      BY <1>0, <2>1, <2>2 DEF OneAtATime
  <1>6. ASSUME UNCHANGED <<rows, request>> PROVE Same
    BY <1>6 DEF request
  <1>7. ASSUME NEW r \in Requests, Load(r) \/ UploadThumbnail(r) \/ UpdateItem(r)
        PROVE  r = q
    <2>1. pc[r] \in Steps
      BY <1>0, <1>7 DEF Load, UploadThumbnail, UpdateItem, AtItem, Steps
    <2>2. pc'[q] = pc[q] \/ r = q
      BY <1>0, <1>7 DEF Load, UploadThumbnail, UpdateItem, TypeOK
    <2> QED
      BY <1>0, <2>1, <2>2 DEF OneAtATime
  <1> QED
    BY <1>1, <1>2, <1>3, <1>4, <1>5, <1>6, <1>7
    DEF SerialNext, SerialArrive, Arrive, Progress, Serve, ServeMove, Disturb, Reject, LoadRefused,
        ImageNotFound, CopyObject, CopySourceMissing, DeleteSource, UploadFails, ThumbnailFails,
        QueryFails, MoveFails, Crash, DeleteProduct, vars, request

\* A new image in memory: one more live row, unless it comes deleted.
LEMMA UploadCounts ==
    ASSUME UploadInv, NEW r \in Requests, UploadThumbnail(r), IsFiniteSet(Live(mem[r]))
    PROVE  /\ Existing(mem[r]) \subseteq Existing(mem[r])'
           /\ IsFiniteSet(Live(mem[r])')
           /\ Cardinality(Live(mem[r])') =
                Cardinality(Live(mem[r])) + (IF CurrentItem(r).delete = TRUE THEN 0 ELSE 1)
  <1> DEFINE item == CurrentItem(r)
             i    == draft[r]
             row  == NewRow(item)
  <1>1. TypeOK /\ i \in ImageIds /\ mem[r][i] = None /\ next[r] \in DOMAIN payload[r]
    BY DEF UploadInv, UploadThumbnail, TypeOK, DraftsAreNew, DraftIsNew
  <1>2. row \in Row /\ (row.deleted <=> item.delete = TRUE)
    BY <1>1, CurrentItemIsItem, NewRowIsRow DEF NewRow
  <1>3. \A j \in ImageIds : mem'[r][j] = IF j = i THEN row ELSE mem[r][j]
    BY <1>1 DEF UploadThumbnail, TypeOK, Table
  <1>4. row # None
    BY <1>2
  <1>5. /\ i \notin Live(mem[r])
        /\ Live(mem[r])' = IF item.delete = TRUE THEN Live(mem[r]) ELSE Live(mem[r]) \cup {i}
    BY <1>1, <1>2, <1>3, <1>4 DEF Live, Existing
  <1>6. Existing(mem[r]) \subseteq Existing(mem[r])'
    BY <1>3, <1>4 DEF Existing
  <1>7. /\ IsFiniteSet(Live(mem[r]) \cup {i}) /\ Cardinality(Live(mem[r])) \in Nat
        /\ Cardinality(Live(mem[r]) \cup {i}) = Cardinality(Live(mem[r])) + 1
    BY <1>5, FS_AddElement, FS_CardinalityType
  <1>8. CASE item.delete = TRUE
    BY <1>5, <1>6, <1>7, <1>8
  <1>9. CASE item.delete # TRUE
    BY <1>5, <1>6, <1>7, <1>9
  <1> QED
    BY <1>8, <1>9

\* An update in memory: one live row less if the image is to be deleted.
LEMMA UpdateCounts ==
    ASSUME SerialInv, AheadUntouched, NEW r \in Requests, UpdateItem(r), IsFiniteSet(Live(mem[r]))
    PROVE  /\ Existing(mem[r])' = Existing(mem[r])
           /\ IsFiniteSet(Live(mem[r])')
           /\ Cardinality(Live(mem[r])') =
                Cardinality(Live(mem[r])) - (IF CurrentItem(r).delete = TRUE THEN 1 ELSE 0)
  <1> DEFINE item == CurrentItem(r)
             i    == item.id
             old  == mem[r][i]
             new  == UpdatedRow(item, old)
  <1>0. TypeOK
    BY DEF SerialInv, UploadInv
  <1>1. /\ item \in Item /\ i \in ImageIds /\ old \in Row /\ new \in Row
        /\ \A j \in ImageIds : mem'[r][j] = IF j = i THEN new ELSE mem[r][j]
    BY <1>0, NamedRow
  <1>2. next[r] \in ItemsAhead(r)
    BY SMTT(30), <1>0 DEF UpdateItem, AtItem, CurrentItem, ItemsAhead, TypeOK
  <1>3. old # None /\ ~old.deleted
    BY <1>2 DEF AheadUntouched, CurrentItem, UpdateItem
  <1>4. new # None /\ (new.deleted <=> item.delete = TRUE)
    <2>1. new # None
      BY <1>1
    <2>2. new.deleted = IF item.delete # None /\ item.delete # old.deleted THEN TRUE ELSE old.deleted
      BY DEF UpdatedRow
    <2>3. item.delete \in BOOLEAN \cup {None} /\ old.deleted = FALSE
      BY <1>1, <1>3 DEF Item, Row
    <2> QED
      BY <2>1, <2>2, <2>3
  <1>5. Existing(mem[r])' = Existing(mem[r])
    BY <1>1, <1>3, <1>4 DEF Existing
  <1>6. /\ i \in Live(mem[r])
        /\ Live(mem[r])' = IF item.delete = TRUE THEN Live(mem[r]) \ {i} ELSE Live(mem[r])
    BY <1>1, <1>3, <1>4, <1>5 DEF Live, Existing
  <1>7. /\ IsFiniteSet(Live(mem[r]) \ {i}) /\ Cardinality(Live(mem[r])) \in Nat
        /\ Cardinality(Live(mem[r]) \ {i}) = Cardinality(Live(mem[r])) - 1
    BY <1>6, FS_RemoveElement, FS_CardinalityType
  <1>8. CASE item.delete = TRUE
    BY <1>5, <1>6, <1>7, <1>8
  <1>9. CASE item.delete # TRUE
    BY <1>5, <1>6, <1>7, <1>9
  <1> QED
    BY <1>8, <1>9

LEMMA InitCountInv == Init => CountInv
  <1> SUFFICES ASSUME Init PROVE CountInv
    OBVIOUS
  <1>1. \A r \in Requests : pc[r] = "idle"
    BY DEF Init
  <1>2. Consistent(rows)
    BY InitialAssumption DEF Init
  <1>3. Live(rows) \in SUBSET Existing(rows)
    BY DEF Live
  <1>4. IsFiniteSet(Live(rows)) /\ CountWithinMax
    BY <1>2, <1>3, FS_Subset DEF Consistent, CountWithinMax
  <1> QED
    BY <1>1, <1>4 DEF Init, CountInv, HoldsAllLive, WithinBudget, StepsFitItems, Holding

LEMMA NextHoldsAllLive ==
    ASSUME KeepInv, CountInv, [SerialNext]_vars
    PROVE  HoldsAllLive'
  <1> SUFFICES ASSUME NEW q \in Requests, pc'[q] \in Holding
               PROVE  Live(rows)' \subseteq Existing(mem[q])'
    BY DEF HoldsAllLive
  <1>0. SerialInv /\ UploadInv /\ TypeOK /\ AheadUntouched
    BY DEF KeepInv, SerialInv, UploadInv
  <1>1. CASE Load(q)
    <2>1. mem'[q] = LoadedRows(rows) /\ rows' = rows
      BY <1>0, <1>1 DEF Load, TypeOK
    <2> QED
      BY <2>1 DEF LoadedRows, Live, Existing
  <1>2. CASE UploadThumbnail(q) \/ UpdateItem(q)
    <2>1. rows' = rows /\ pc[q] \in Holding
      BY <1>2 DEF UploadThumbnail, UpdateItem, AtItem, Holding
    <2>2. Live(rows) \subseteq Existing(mem[q]) /\ IsFiniteSet(Live(mem[q]))
      BY <2>1 DEF CountInv, HoldsAllLive, WithinBudget
    <2>3. Existing(mem[q]) \subseteq Existing(mem[q])'
      BY <1>0, <1>2, <2>2, UploadCounts, UpdateCounts
    <2> QED
      BY <2>1, <2>2, <2>3 DEF Live, Existing
  <1>3. CASE pc[q] \in Holding /\ rows' = rows /\ mem'[q] = mem[q]
    BY <1>3 DEF CountInv, HoldsAllLive, Live, Existing
  <1> QED
    BY <1>0, <1>1, <1>2, <1>3, HoldingSteps

LEMMA NextWithinBudget ==
    ASSUME KeepInv, CountInv, [SerialNext]_vars
    PROVE  WithinBudget'
  <1> SUFFICES ASSUME NEW q \in Requests, pc'[q] \in Holding
               PROVE  /\ IsFiniteSet(Live(mem[q])')
                      /\ Cardinality(Live(mem[q])') + Cardinality(FilesAhead(q)')
                           <= MaxImages + Cardinality(DeletesAhead(q)')
    BY DEF WithinBudget
  <1>0. SerialInv /\ UploadInv /\ TypeOK /\ AheadUntouched
    BY DEF KeepInv, SerialInv, UploadInv
  <1>1. CASE Load(q)
    <2>1. mem'[q] = LoadedRows(rows) /\ payload' = payload /\ next' = next
      BY <1>0, <1>1 DEF Load, TypeOK
    <2>2. Live(mem[q])' = Live(rows)
      BY <2>1 DEF LoadedRows, Live, Existing
    <2>3. next[q] = 1
      BY <1>1 DEF Load, CountInv, StepsFitItems
    <2>4. FilesAhead(q)' = Files(payload[q]) /\ DeletesAhead(q)' = Deletes(payload[q])
      BY <1>0, <2>1, <2>3, AheadAtTheEnds DEF FilesAhead, DeletesAhead
    <2> QED
      BY <1>1, <2>2, <2>4 DEF Load, WithinLimit, CountInv
  <1>2. CASE UploadThumbnail(q) \/ UpdateItem(q)
    <2>1. pc[q] \in Holding
      BY <1>2 DEF UploadThumbnail, UpdateItem, AtItem, Holding
    <2>2. /\ IsFiniteSet(Live(mem[q]))
          /\ Cardinality(Live(mem[q])) + Cardinality(FilesAhead(q))
               <= MaxImages + Cardinality(DeletesAhead(q))
      BY <2>1 DEF CountInv, WithinBudget
    <2>3. /\ Cardinality(FilesAhead(q)) \in Nat /\ Cardinality(DeletesAhead(q)) \in Nat
          /\ Cardinality(Live(mem[q])) \in Nat /\ MaxImages \in Nat
      BY <1>0, <2>2, ItemSetsFinite, FS_CardinalityType, LimitAssumption
    <2>4. next[q] \in DOMAIN payload[q] /\ payload'[q] = payload[q] /\ next'[q] = next[q] + 1
      BY <1>0, <1>2 DEF UploadThumbnail, UpdateItem, AtItem, TypeOK
    <2>5. /\ Cardinality(FilesAhead(q)') =
                Cardinality(FilesAhead(q)) - (IF CurrentItem(q).file THEN 1 ELSE 0)
          /\ Cardinality(DeletesAhead(q)') =
                Cardinality(DeletesAhead(q)) - (IF CurrentItem(q).delete = TRUE THEN 1 ELSE 0)
      BY <1>0, <2>4, AheadAdvances
    <2>6. CASE UploadThumbnail(q)
      <3>1. CurrentItem(q).file
        BY <2>6 DEF UploadThumbnail, CountInv, StepsFitItems
      <3>2. /\ IsFiniteSet(Live(mem[q])')
            /\ Cardinality(Live(mem[q])') =
                 Cardinality(Live(mem[q])) + (IF CurrentItem(q).delete = TRUE THEN 0 ELSE 1)
        BY <1>0, <2>2, <2>6, UploadCounts
      <3> QED
        BY <2>2, <2>3, <2>5, <3>1, <3>2
    <2>7. CASE UpdateItem(q)
      <3>1. ~CurrentItem(q).file
        BY <2>7 DEF UpdateItem
      <3>2. /\ IsFiniteSet(Live(mem[q])')
            /\ Cardinality(Live(mem[q])') =
                 Cardinality(Live(mem[q])) - (IF CurrentItem(q).delete = TRUE THEN 1 ELSE 0)
        BY <1>0, <2>2, <2>7, UpdateCounts
      <3> QED
        BY <2>2, <2>3, <2>5, <3>1, <3>2
    <2> QED
      BY <1>2, <2>6, <2>7
  <1>3. CASE /\ pc[q] \in Holding /\ mem'[q] = mem[q]
             /\ payload'[q] = payload[q] /\ next'[q] = next[q]
    <2>1. /\ FilesAhead(q)' = FilesAhead(q) /\ DeletesAhead(q)' = DeletesAhead(q)
          /\ Live(mem[q])' = Live(mem[q])
      BY <1>3 DEF FilesAhead, DeletesAhead, Live, Existing
    <2> QED
      BY <1>3, <2>1 DEF CountInv, WithinBudget
  <1> QED
    BY <1>0, <1>1, <1>2, <1>3, HoldingSteps

LEMMA NextCountWithinMax ==
    ASSUME KeepInv, CountInv, [SerialNext]_vars
    PROVE  IsFiniteSet(Live(rows)') /\ CountWithinMax'
  <1>0. SerialInv /\ UploadInv /\ TypeOK
    BY DEF KeepInv, SerialInv, UploadInv
  <1>1. ASSUME NEW r \in Requests, Write(r)
        PROVE  IsFiniteSet(Live(rows)') /\ CountWithinMax'
    <2>1. pc[r] = "write" /\ pc[r] \in Holding
      BY <1>1 DEF Write, Holding
    <2>2. next[r] = Len(payload[r]) + 1
      BY <2>1 DEF CountInv, StepsFitItems
    <2>3. FilesAhead(r) = {} /\ DeletesAhead(r) = {}
      BY <1>0, <2>2, AheadAtTheEnds
    <2>4. /\ IsFiniteSet(Live(mem[r]))
          /\ Cardinality(Live(mem[r])) + Cardinality(FilesAhead(r))
               <= MaxImages + Cardinality(DeletesAhead(r))
      BY <2>1 DEF CountInv, WithinBudget
    <2>5. Cardinality(Live(mem[r])) <= MaxImages
      BY <2>3, <2>4, FS_EmptySet, FS_CardinalityType, LimitAssumption
    <2>6. \A i \in ImageIds : rows'[i] = IF mem[r][i] = None THEN rows[i] ELSE mem[r][i]
      BY <1>0, <1>1, WriteIsMine
    <2>7. Live(rows) \subseteq Existing(mem[r])
      BY <2>1 DEF CountInv, HoldsAllLive
    <2>8. Live(rows)' = Live(mem[r])
      BY <2>6, <2>7 DEF Live, Existing
    <2> QED
      BY <2>4, <2>5, <2>8 DEF CountWithinMax
  <1>2. CASE rows' = rows
    BY <1>2 DEF CountInv, CountWithinMax, Live, Existing
  <1> QED
    BY <1>1, <1>2, SerialNextIsNext, RowsChangeOnlyByWrite

LEMMA NextStepsFitItems ==
    ASSUME TypeOK, StepsFitItems, [Next]_vars
    PROVE  StepsFitItems'
  <1>1. ASSUME NEW r \in Requests, Fail(r) \/ Write(r)
        PROVE  StepsFitItems'
    BY <1>1 DEF Fail, Write, Finish, Finished, TypeOK, StepsFitItems, CurrentItem
  <1>2. ASSUME NEW cutOff, Restart(cutOff)
        PROVE  StepsFitItems'
    BY <1>2 DEF Restart, TypeOK, StepsFitItems, Steps
  <1>3. ASSUME NEW r \in Requests, NEW p \in Payloads, Receive(r, p)
        PROVE  StepsFitItems'
    BY <1>3 DEF Receive, TypeOK, StepsFitItems, CurrentItem
  <1>4. ASSUME NEW r \in Requests,
               Load(r) \/ UploadImage(r) \/ UploadThumbnail(r) \/ UpdateItem(r) \/ BeginSave(r)
        PROVE  StepsFitItems'
    <2>1. \A q \in Requests \ {r} : /\ pc'[q] = pc[q] /\ payload'[q] = payload[q]
                                    /\ next'[q] = next[q]
      BY <1>4 DEF Load, UploadImage, UploadThumbnail, UpdateItem, BeginSave, TypeOK
    <2>2. /\ pc'[r] \notin {"idle", "load"}
          /\ pc'[r] = "thumbnail" => CurrentItem(r).file /\ CurrentItem(r)' = CurrentItem(r)
          /\ pc'[r] = "write" => next'[r] = Len(payload'[r]) + 1
      BY <1>4 DEF Load, UploadImage, UploadThumbnail, UpdateItem, BeginSave, AtItem, CurrentItem, TypeOK
    <2> QED
      BY <2>1, <2>2 DEF StepsFitItems, CurrentItem
  <1>5. ASSUME UNCHANGED request
        PROVE  StepsFitItems'
    BY <1>5 DEF request, StepsFitItems, CurrentItem
  <1> QED
    BY <1>1, <1>2, <1>3, <1>4, <1>5
    DEF Next, Arrive, Progress, Serve, ServeMove, Disturb, Reject, LoadRefused, ImageNotFound,
        CopyObject, CopySourceMissing, DeleteSource, UploadFails, ThumbnailFails, QueryFails,
        MoveFails, Crash, DeleteProduct, vars, request

LEMMA NextCountInv == KeepInv /\ CountInv /\ [SerialNext]_vars => CountInv'
  <1> SUFFICES ASSUME KeepInv, CountInv, [SerialNext]_vars PROVE CountInv'
    OBVIOUS
  <1>1. StepsFitItems'
    BY NextStepsFitItems, SerialNextIsNext DEF KeepInv, SerialInv, UploadInv, CountInv
  <1> QED
    BY <1>1, NextHoldsAllLive, NextWithinBudget, NextCountWithinMax DEF CountInv

LEMMA CountInvariant == SerialSpec => []CountInv
  BY InitCountInv, NextCountInv, KeepInvariant, PTL DEF SerialSpec

\* While editors take turns, the inductive invariant the properties follow from
\* holds: the rows, files and moves agree, and what a request holds and has yet
\* to add is within the limit.
THEOREM TurnsInvariant == SerialSpec => []TurnsInv
  <1>1. KeepInv /\ CountInv => TurnsInv
    BY DEF TurnsInv
  <1> QED
    BY <1>1, KeepInvariant, CountInvariant, PTL

\* While editors take turns, a product never has more images than the limit
\* validateImageDataCount checks before the first file is stored: what a
\* request holds, and what it has yet to add and to delete, is within it at
\* every step.
THEOREM CountStaysWithinMax == SerialSpec => []CountWithinMax
  <1>1. CountInv => CountWithinMax
    BY DEF CountInv
  <1> QED
    BY <1>1, CountInvariant, PTL

(***************************************************************************)
(* The bucket once the moves have ended                                    *)
(***************************************************************************)

LEMMA ForceIsRow ==
    ASSUME TypeOK, NEW i \in ImageIds
    PROVE  RowInForce(i) \in Row \cup {None}
  <1>1. rows[i] \in Row \cup {None} /\ \A r \in Requests : mem[r][i] \in Row \cup {None}
    BY DEF TypeOK, Table
  <1> QED
    BY <1>1 DEF RowInForce, InForceOf

\* While one request is served, a row that is in force is its own or stored.
LEMMA ForceWhileServed ==
    ASSUME SerialInv, NEW r \in Requests, pc[r] \in Steps, NEW i \in ImageIds
    PROVE  RowInForce(i) = IF mem[r][i] # None THEN mem[r][i] ELSE rows[i]
  <1>1. \A q \in Requests \ {r} : mem[q][i] = None
    BY OneHasItemsAhead DEF NoRows
  <1>2. InForceOf(mem, rows, i) = IF mem[r][i] # None THEN mem[r][i] ELSE rows[i]
    BY <1>1 DEF InForceOf
  <1> QED
    BY <1>2 DEF RowInForce

\* What is uploading is what the request being served uploads.
LEMMA UploadingByServed ==
    ASSUME SerialInv, NEW r \in Requests, pc[r] \in Steps, NEW i, NEW d
    PROVE  Uploading(i, d) <=> /\ pc[r] = "thumbnail" /\ draft[r] = i
                               /\ d = NewRow(CurrentItem(r)).dir
  BY DEF SerialInv, OneAtATime, Uploading, Steps

\* Reading the product and saving it change no row in force.
LEMMA ForceKeptByLoadAndSave ==
    ASSUME SerialInv, NEW r \in Requests, Load(r) \/ BeginSave(r) \/ Write(r),
           NEW i \in ImageIds
    PROVE  RowInForce(i)' = RowInForce(i)
  <1>0. TypeOK /\ UploadInv
    BY DEF SerialInv, UploadInv
  <1>1. pc[r] \in Steps
    BY DEF Load, BeginSave, Write, Steps
  <1>2. RowInForce(i) = IF mem[r][i] # None THEN mem[r][i] ELSE rows[i]
    BY <1>1, ForceWhileServed
  <1>3. \A q \in Requests \ {r} : mem[q] = NoRows
    BY <1>1, OneHasItemsAhead
  <1>4. \A q \in Requests \ {r} : mem'[q] = mem[q]
    BY <1>0 DEF Load, BeginSave, Write, Finish, TypeOK
  <1>5. RowInForce(i)' = IF mem'[r][i] # None THEN mem'[r][i] ELSE rows'[i]
    <2>1. \A q \in Requests \ {r} : mem'[q][i] = None
      BY <1>3, <1>4 DEF NoRows
    <2>2. InForceOf(mem', rows', i) = IF mem'[r][i] # None THEN mem'[r][i] ELSE rows'[i]
      BY <2>1 DEF InForceOf
    <2> QED
      BY <2>2 DEF RowInForce
  <1>6. CASE Load(r)
    <2>1. mem[r] = NoRows /\ rows' = rows /\ mem'[r] = LoadedRows(rows)
      BY <1>0, <1>6 DEF Load, UploadInv, IdleHoldsNothing, TypeOK
    <2> QED
      BY <1>2, <1>5, <2>1 DEF NoRows, LoadedRows
  <1>7. CASE BeginSave(r)
    BY <1>2, <1>5, <1>7 DEF BeginSave
  <1>8. CASE Write(r)
    <2>1. mem'[r] = NoRows
      BY <1>0, <1>8 DEF Write, Finish, TypeOK
    <2>2. rows'[i] = IF mem[r][i] = None THEN rows[i] ELSE mem[r][i]
      BY <1>8, WriteIsMine
    <2> QED
      BY <1>2, <1>5, <2>1, <2>2 DEF NoRows
  <1> QED
    BY <1>6, <1>7, <1>8

\* Carrying out an item changes the row in force of its image only.
LEMMA ForceChangedByItem ==
    ASSUME SerialInv, NEW r \in Requests, NEW j \in ImageIds
    PROVE  /\ UploadThumbnail(r) =>
                RowInForce(j)' = IF j = draft[r] THEN NewRow(CurrentItem(r)) ELSE RowInForce(j)
           /\ UpdateItem(r) =>
                LET item == CurrentItem(r)
                IN  RowInForce(j)' = IF j = item.id THEN UpdatedRow(item, mem[r][item.id])
                                     ELSE RowInForce(j)
  <1>0. TypeOK /\ UploadInv
    BY DEF SerialInv, UploadInv
  <1>1. ASSUME UploadThumbnail(r)
        PROVE  RowInForce(j)' = IF j = draft[r] THEN NewRow(CurrentItem(r)) ELSE RowInForce(j)
    <2>1. pc[r] \in Steps
      BY <1>1 DEF UploadThumbnail, Steps
    <2>2. draft[r] \in ImageIds /\ next[r] \in DOMAIN payload[r]
      BY <1>0, <1>1 DEF UploadThumbnail, TypeOK
    <2>3. NewRow(CurrentItem(r)) # None
      BY <1>0, <2>2, CurrentItemIsItem, NewRowIsRow
    <2>4. \A q \in Requests, i \in ImageIds : mem'[q][i] =
            IF q = r /\ i = draft[r] THEN NewRow(CurrentItem(r)) ELSE mem[q][i]
      BY <1>0, <1>1, <2>2 DEF UploadThumbnail, TypeOK, Table
    <2>5. \A q \in Requests \ {r} : mem'[q][j] = None
      BY <2>1, <2>4, OneHasItemsAhead DEF NoRows
    <2>6. RowInForce(j)' = IF mem'[r][j] # None THEN mem'[r][j] ELSE rows'[j]
      BY <2>5 DEF RowInForce, InForceOf
    <2>7. RowInForce(j) = IF mem[r][j] # None THEN mem[r][j] ELSE rows[j]
      BY <2>1, ForceWhileServed
    <2>8. rows' = rows
      BY <1>1 DEF UploadThumbnail
    <2> QED
      BY <2>3, <2>4, <2>6, <2>7, <2>8
  <1>2. ASSUME UpdateItem(r)
        PROVE  LET item == CurrentItem(r)
               IN  RowInForce(j)' = IF j = item.id THEN UpdatedRow(item, mem[r][item.id])
                                    ELSE RowInForce(j)
    <2> DEFINE item == CurrentItem(r)
               new  == UpdatedRow(item, mem[r][item.id])
    <2>1. pc[r] \in Steps
      BY <1>2 DEF UpdateItem, AtItem, Steps
    <2>2. /\ item.id \in ImageIds /\ new \in Row
          /\ \A q \in Requests, i \in ImageIds : mem'[q][i] =
                IF q = r /\ i = item.id THEN new ELSE mem[q][i]
      BY <1>0, <1>2, NamedRow
    <2>3. \A q \in Requests \ {r} : mem'[q][j] = None
      BY <2>1, <2>2, OneHasItemsAhead DEF NoRows
    <2>4. RowInForce(j)' = IF mem'[r][j] # None THEN mem'[r][j] ELSE rows'[j]
      BY <2>3 DEF RowInForce, InForceOf
    <2>5. RowInForce(j) = IF mem[r][j] # None THEN mem[r][j] ELSE rows[j]
      BY <2>1, ForceWhileServed
    <2>6. rows' = rows
      BY <1>2 DEF UpdateItem
    <2> QED
      BY <2>2, <2>4, <2>5, <2>6
  <1> QED
    BY <1>1, <1>2

\* A step that touches neither files nor moves, nor what should become of them.
LEMMA QuietKeepsFiles ==
    ASSUME TypeOK, FilesExact, UNCHANGED <<store, moves>>,
           \A i \in ImageIds : RowInForce(i)' = RowInForce(i),
           \A i \in ImageIds, d \in Dirs : Uploading(i, d)' <=> Uploading(i, d)
    PROVE  FilesExact'
  <1>1. \A m \in moves : m.id \in ImageIds
    BY DEF TypeOK, Move
  <1>2. \A i, k, d : IsAt(i, k, d)' <=> IsAt(i, k, d)
    BY DEF IsAt
  <1>3. MovesLeadToRows'
    BY <1>1 DEF FilesExact, MovesLeadToRows
  <1>4. MovedFilesExact'
    BY <1>2 DEF FilesExact, MovedFilesExact
  <1>5. RestingFilesExact'
    BY <1>2 DEF FilesExact, RestingFilesExact, About
  <1>6. UploadedFilesExact'
    BY <1>2 DEF FilesExact, UploadedFilesExact
  <1> QED
    BY <1>3, <1>4, <1>5, <1>6 DEF FilesExact

\* Storing the file of a new image.
LEMMA UploadImageKeepsFiles ==
    ASSUME KeepInv, FilesExact, NEW r \in Requests, UploadImage(r)
    PROVE  FilesExact'
  <1>0. TypeOK /\ UploadInv /\ SerialInv /\ FilesKept
    BY DEF KeepInv, SerialInv, UploadInv
  <1> DEFINE dir == NewRow(CurrentItem(r)).dir
  <1>1. PICK i \in ImageIds : /\ Fresh(i)
                              /\ draft' = [draft EXCEPT ![r] = i]
                              /\ store' = store \cup {StoredAt(i, "image", NewRow(CurrentItem(r)))}
    BY DEF UploadImage
  <1>2. \A j, k, d : IsAt(j, k, d)' <=> IsAt(j, k, d) \/ (j = i /\ k = "image" /\ d = dir)
    BY <1>1 DEF IsAt, StoredAt
  <1>3. \A j \in ImageIds : RowInForce(j)' = RowInForce(j)
    BY DEF UploadImage, RowInForce
  <1>4. \A k, d : ~IsAt(i, k, d)
    BY <1>1 DEF Fresh, IsAt
  <1>5. RowInForce(i) = None
    <2>1. rows[i] = None
      BY <1>1 DEF Fresh
    <2>2. \A q \in Requests : mem[q][i] = None
      <3> SUFFICES ASSUME NEW q \in Requests, mem[q][i] # None PROVE FALSE
        OBVIOUS
      <3>1. Stored(i, "image")
        BY <1>0 DEF FilesKept, Kinds
      <3> QED
        BY <1>4, <3>1 DEF Stored, IsAt
    <2> QED
      BY <2>1, <2>2 DEF RowInForce, InForceOf
  <1>6. /\ pc[r] = "items" /\ pc'[r] = "thumbnail" /\ draft'[r] = i
        /\ \A q \in Requests \ {r} : pc'[q] = pc[q] /\ draft'[q] = draft[q]
        /\ \A q \in Requests : CurrentItem(q)' = CurrentItem(q)
    BY <1>0, <1>1 DEF UploadImage, AtItem, TypeOK, CurrentItem
  <1>7. \A q \in Requests : pc[q] # "thumbnail"
    BY <1>0, <1>6 DEF SerialInv, OneAtATime, Steps
  <1>8. \A j, d : Uploading(j, d)' <=> j = i /\ d = dir
    BY <1>6, <1>7 DEF Uploading
  <1>9. \A m \in moves : m.id \in ImageIds /\ m.id # i
    BY <1>0, <1>5 DEF FilesExact, MovesLeadToRows, TypeOK, Move
  <1>10. moves' = moves
    BY DEF UploadImage
  <1>11. MovesLeadToRows'
    BY <1>3, <1>9, <1>10 DEF FilesExact, MovesLeadToRows
  <1>12. MovedFilesExact'
    BY <1>2, <1>9, <1>10 DEF FilesExact, MovedFilesExact
  <1>13. RestingFilesExact'
    BY <1>2, <1>3, <1>5, <1>10 DEF FilesExact, RestingFilesExact, About
  <1>14. UploadedFilesExact'
    <2> SUFFICES ASSUME NEW j \in ImageIds, NEW k \in Kinds, NEW d \in Dirs, RowInForce(j)' = None
                 PROVE  IsAt(j, k, d)' <=> k = "image" /\ Uploading(j, d)'
      BY DEF UploadedFilesExact
    <2>1. IsAt(j, k, d) <=> k = "image" /\ Uploading(j, d)
      BY <1>3 DEF FilesExact, UploadedFilesExact
    <2>2. ~Uploading(j, d)
      BY <1>7 DEF Uploading
    <2> QED
      BY <1>2, <1>8, <2>1, <2>2
  <1> QED
    BY <1>11, <1>12, <1>13, <1>14 DEF FilesExact

\* Storing the thumbnail of a new image and adding its row.
LEMMA UploadThumbnailKeepsFiles ==
    ASSUME KeepInv, FilesExact, NEW r \in Requests, UploadThumbnail(r)
    PROVE  FilesExact'
  <1>0. TypeOK /\ UploadInv /\ SerialInv
    BY DEF KeepInv, SerialInv, UploadInv
  <1> DEFINE i   == draft[r]
             row == NewRow(CurrentItem(r))
  <1>1. pc[r] \in Steps /\ pc[r] = "thumbnail" /\ i \in ImageIds /\ DraftIsNew(r)
    BY <1>0 DEF UploadThumbnail, Steps, TypeOK, UploadInv, DraftsAreNew
  <1>2. RowInForce(i) = None
    BY <1>0, <1>1, ForceWhileServed DEF DraftIsNew
  <1>3. \A j \in ImageIds : RowInForce(j)' = IF j = i THEN row ELSE RowInForce(j)
    BY <1>0, ForceChangedByItem
  <1>4. \A j, k, d : IsAt(j, k, d)' <=> IsAt(j, k, d) \/ (j = i /\ k = "thumbnail" /\ d = row.dir)
    BY DEF UploadThumbnail, IsAt, StoredAt
  <1>5. \A j, d : Uploading(j, d) <=> j = i /\ d = row.dir
    BY <1>0, <1>1, UploadingByServed
  <1>6. \A j, d : ~Uploading(j, d)'
    <2>1. \A q \in Requests : pc'[q] # "thumbnail"
      <3>1. pc' = [pc EXCEPT ![r] = "items"]
        BY DEF UploadThumbnail
      <3>2. \A q \in Requests \ {r} : pc[q] # "thumbnail"
        BY <1>0, <1>1 DEF SerialInv, OneAtATime, Steps
      <3> QED
        BY <1>0, <3>1, <3>2 DEF TypeOK
    <2> QED
      BY <2>1 DEF Uploading
  <1>7. \A m \in moves : m.id \in ImageIds /\ m.id # i
    BY <1>0, <1>2 DEF FilesExact, MovesLeadToRows, TypeOK, Move
  <1>8. moves' = moves
    BY DEF UploadThumbnail
  <1>9. MovesLeadToRows'
    BY <1>3, <1>7, <1>8 DEF FilesExact, MovesLeadToRows
  <1>10. MovedFilesExact'
    BY <1>4, <1>7, <1>8 DEF FilesExact, MovedFilesExact
  <1>11. RestingFilesExact'
    <2> SUFFICES ASSUME NEW j \in ImageIds, NEW k \in Kinds, RowInForce(j)' # None,
                        \A m \in moves : ~About(m, j, k), NEW d \in Dirs
                 PROVE  IsAt(j, k, d)' <=> d = RowInForce(j)'.dir
      BY <1>8 DEF RestingFilesExact, About
    <2>1. CASE j = i
      <3>1. IsAt(j, k, d) <=> k = "image" /\ Uploading(j, d)
        BY <1>2, <2>1 DEF FilesExact, UploadedFilesExact
      <3>2. IsAt(j, k, d)' <=> d = row.dir
        BY <1>4, <1>5, <2>1, <3>1 DEF Kinds
      <3> QED
        BY <1>1, <1>3, <2>1, <3>2
    <2>2. CASE j # i
      <3>1. RowInForce(j)' = RowInForce(j)
        BY <1>3, <2>2
      <3>2. IsAt(j, k, d) <=> d = RowInForce(j).dir
        BY <3>1 DEF FilesExact, RestingFilesExact
      <3> QED
        BY <1>4, <2>2, <3>1, <3>2
    <2> QED
      BY <2>1, <2>2
  <1>12. UploadedFilesExact'
    <2> SUFFICES ASSUME NEW j \in ImageIds, NEW k \in Kinds, NEW d \in Dirs, RowInForce(j)' = None
                 PROVE  ~IsAt(j, k, d)'
      BY <1>6 DEF UploadedFilesExact
    <2>1. row # None
      BY <1>0, <1>1, CurrentItemIsItem, NewRowIsRow DEF TypeOK
    <2>2. j # i /\ RowInForce(j) = None
      BY <1>3, <2>1
    <2>3. ~IsAt(j, k, d)
      BY <1>5, <2>2 DEF FilesExact, UploadedFilesExact
    <2> QED
      BY <1>4, <2>2, <2>3
  <1> QED
    BY <1>9, <1>10, <1>11, <1>12 DEF FilesExact

\* Updating an image, and starting the moves of its files.
LEMMA UpdateItemKeepsFiles ==
    ASSUME KeepInv, FilesExact, NEW r \in Requests, UpdateItem(r)
    PROVE  FilesExact'
  <1>0. TypeOK /\ UploadInv /\ SerialInv /\ AheadUntouched
    BY DEF KeepInv, SerialInv, UploadInv
  <1> DEFINE item == CurrentItem(r)
  <1>1. PICK i : i = item.id
    OBVIOUS
  <1>2. PICK old : old = mem[r][i]
    OBVIOUS
  <1>3. PICK new : new = UpdatedRow(item, old)
    OBVIOUS
  <1>4. pc[r] \in Steps /\ pc[r] = "items" /\ pc' = pc
    BY DEF UpdateItem, AtItem, Steps
  <1>5. i \in ImageIds /\ item \in Item /\ old \in Row /\ new \in Row /\ old # None /\ new # None
    BY <1>0, <1>1, <1>2, <1>3, NamedRow
  <1>6. RowInForce(i) = old
    BY <1>0, <1>2, <1>4, <1>5, ForceWhileServed
  <1>7. \A j \in ImageIds : RowInForce(j)' = IF j = i THEN new ELSE RowInForce(j)
    BY <1>0, <1>1, <1>2, <1>3, ForceChangedByItem
  <1>8. \A m \in moves : m.id # i
    <2>1. next[r] \in ItemsAhead(r)
      BY SMTT(30), <1>0 DEF UpdateItem, AtItem, CurrentItem, ItemsAhead, TypeOK
    <2> QED
      BY <1>0, <1>1, <2>1 DEF AheadUntouched, CurrentItem
  <1>9. \A k \in Kinds, d \in Dirs : IsAt(i, k, d) <=> d = old.dir
    BY <1>5, <1>6, <1>8 DEF FilesExact, RestingFilesExact, About
  <1>10. \A j, k, d : IsAt(j, k, d)' <=> IsAt(j, k, d)
    BY DEF UpdateItem, IsAt
  <1>11. \A m \in moves : m.id \in ImageIds
    BY <1>0 DEF TypeOK, Move
  <1>12. UploadedFilesExact'
    <2> SUFFICES ASSUME NEW j \in ImageIds, NEW k \in Kinds, NEW d \in Dirs, RowInForce(j)' = None
                 PROVE  IsAt(j, k, d)' <=> k = "image" /\ Uploading(j, d)'
      BY DEF UploadedFilesExact
    <2>1. j # i /\ RowInForce(j) = None
      BY <1>5, <1>7
    <2>2. IsAt(j, k, d) <=> k = "image" /\ Uploading(j, d)
      BY <2>1 DEF FilesExact, UploadedFilesExact
    <2>3. \A q \in Requests : pc[q] # "thumbnail"
      BY <1>0, <1>4 DEF SerialInv, OneAtATime, Steps
    <2>4. ~Uploading(j, d) /\ ~Uploading(j, d)'
      BY <1>4, <2>3 DEF Uploading
    <2> QED
      BY <1>10, <2>2, <2>4
  <1>13. CASE ~ChangesState(item, old)
    <2>1. moves' = moves
      BY <1>1, <1>2, <1>13 DEF UpdateItem
    <2>2. new.dir = old.dir
      BY <1>3, <1>13 DEF UpdatedRow
    <2>3. MovesLeadToRows'
      BY <1>7, <1>8, <1>11, <2>1 DEF FilesExact, MovesLeadToRows
    <2>4. MovedFilesExact'
      BY <1>10, <2>1 DEF FilesExact, MovedFilesExact
    <2>5. RestingFilesExact'
      <3> SUFFICES ASSUME NEW j \in ImageIds, NEW k \in Kinds, RowInForce(j)' # None,
                          \A m \in moves : ~About(m, j, k), NEW d \in Dirs
                   PROVE  IsAt(j, k, d) <=> d = RowInForce(j)'.dir
        BY <1>10, <2>1 DEF RestingFilesExact, About
      <3>1. CASE j = i
        BY <1>7, <1>9, <2>2, <3>1
      <3>2. CASE j # i
        BY <1>7, <3>2 DEF FilesExact, RestingFilesExact
      <3> QED
        BY <3>1, <3>2
    <2> QED
      BY <1>12, <2>3, <2>4, <2>5 DEF FilesExact
  <1>14. CASE ChangesState(item, old)
    <2> DEFINE started == MovesOf(r, i, old.dir, new.dir)
    <2>1. moves' = moves \cup started
      BY <1>1, <1>2, <1>3, <1>14 DEF UpdateItem
    <2>2. \A m \in started : /\ m.id = i /\ m.kind \in Kinds /\ m.from = old.dir
                             /\ m.to = new.dir /\ m.stage = "copy"
      BY DEF MovesOf
    <2>3. \A k \in Kinds : \E m \in started : About(m, i, k)
      <3> TAKE k \in Kinds
      <3> DEFINE m == [by |-> r, id |-> i, kind |-> k, from |-> old.dir, to |-> new.dir,
                       stage |-> "copy"]
      <3>1. m \in started
        BY DEF MovesOf
      <3> QED
        BY <3>1 DEF About
    <2>4. MovesLeadToRows'
      <3> SUFFICES ASSUME NEW m \in moves'
                   PROVE  RowInForce(m.id)' # None /\ m.to = RowInForce(m.id)'.dir
        BY DEF MovesLeadToRows
      <3>1. CASE m \in moves
        BY <1>7, <1>8, <1>11, <3>1 DEF FilesExact, MovesLeadToRows
      <3>2. CASE m \in started
        <4>1. m.id = i /\ m.to = new.dir
          BY <2>2, <3>2
        <4>2. RowInForce(i)' = new
          BY <1>5, <1>7
        <4> QED
          BY <1>5, <4>1, <4>2
      <3> QED
        BY <2>1, <3>1, <3>2
    <2>5. MovedFilesExact'
      <3> SUFFICES ASSUME NEW m \in moves', NEW d \in Dirs
                   PROVE  IsAt(m.id, m.kind, d) <=> d = m.from \/ (m.stage = "delete" /\ d = m.to)
        BY <1>10 DEF MovedFilesExact
      <3>1. CASE m \in moves
        BY <3>1 DEF FilesExact, MovedFilesExact
      <3>2. CASE m \in started
        BY <1>9, <2>2, <3>2
      <3> QED
        BY <2>1, <3>1, <3>2
    <2>6. RestingFilesExact'
      <3> SUFFICES ASSUME NEW j \in ImageIds, NEW k \in Kinds, RowInForce(j)' # None,
                          \A m \in moves' : ~About(m, j, k), NEW d \in Dirs
                   PROVE  IsAt(j, k, d) <=> d = RowInForce(j)'.dir
        BY <1>10 DEF RestingFilesExact, About
      <3>1. j # i
        BY <2>1, <2>3
      <3>2. RowInForce(j)' = RowInForce(j)
        BY <1>7, <3>1
      <3>3. \A m \in moves : ~About(m, j, k)
        BY <2>1
      <3> QED
        BY <3>2, <3>3 DEF FilesExact, RestingFilesExact
    <2> QED
      BY <1>12, <2>4, <2>5, <2>6 DEF FilesExact
  <1> QED
    BY <1>13, <1>14

\* The two steps of a move leave what requests hold and the rows alone.
LEMMA MovesKeepForce ==
    ASSUME UNCHANGED <<rows, request>>
    PROVE  /\ \A i : RowInForce(i)' = RowInForce(i)
           /\ \A i, d : Uploading(i, d)' <=> Uploading(i, d)
  <1>1. /\ rows' = rows /\ mem' = mem /\ pc' = pc /\ draft' = draft
        /\ payload' = payload /\ next' = next
    BY DEF request
  <1>2. \A r : CurrentItem(r)' = CurrentItem(r)
    BY <1>1 DEF CurrentItem
  <1> QED
    BY <1>1, <1>2 DEF RowInForce, InForceOf, Uploading

LEMMA CopyObjectKeepsFiles ==
    ASSUME KeepInv, FilesExact, NEW m \in moves, CopyObject(m)
    PROVE  FilesExact'
  <1>0. TypeOK /\ MovesSafe
    BY DEF KeepInv, SerialInv, UploadInv
  <1> DEFINE copied == [m EXCEPT !.stage = "delete"]
  <1>1. /\ \A i : RowInForce(i)' = RowInForce(i)
        /\ \A i, d : Uploading(i, d)' <=> Uploading(i, d)
    BY MovesKeepForce DEF CopyObject, request
  <1>2. m \in Move /\ m.stage = "copy"
    BY <1>0 DEF TypeOK, CopyObject
  <1>3. /\ copied.id = m.id /\ copied.kind = m.kind
        /\ copied.from = m.from /\ copied.to = m.to /\ copied.stage = "delete"
    BY <1>2 DEF Move
  <1>4. moves' = (moves \ {m}) \cup {copied}
    BY DEF CopyObject
  <1>5. \A i, k, d : IsAt(i, k, d)' <=> IsAt(i, k, d) \/ (About(m, i, k) /\ d = m.to)
    BY DEF CopyObject, IsAt, About, Target
  <1>6. \A l \in moves \ {m} : ~About(m, l.id, l.kind)
    BY <1>0 DEF MovesSafe, About
  <1>7. MovesLeadToRows'
    BY <1>1, <1>3, <1>4 DEF FilesExact, MovesLeadToRows
  <1>8. MovedFilesExact'
    <2> SUFFICES ASSUME NEW l \in moves', NEW d \in Dirs
                 PROVE  IsAt(l.id, l.kind, d)' <=> d = l.from \/ (l.stage = "delete" /\ d = l.to)
      BY DEF MovedFilesExact
    <2>1. CASE l = copied
      <3>1. IsAt(m.id, m.kind, d) <=> d = m.from
        BY <1>2 DEF FilesExact, MovedFilesExact
      <3>2. IsAt(m.id, m.kind, d)' <=> d = m.from \/ d = m.to
        BY <1>5, <3>1 DEF About
      <3> QED
        BY <1>3, <2>1, <3>2
    <2>2. CASE l \in moves \ {m}
      <3>1. IsAt(l.id, l.kind, d)' <=> IsAt(l.id, l.kind, d)
        BY <1>5, <1>6, <2>2
      <3> QED
        BY <2>2, <3>1 DEF FilesExact, MovedFilesExact
    <2> QED
      BY <1>4, <2>1, <2>2
  <1>9. RestingFilesExact'
    <2> SUFFICES ASSUME NEW i \in ImageIds, NEW k \in Kinds, RowInForce(i)' # None,
                        \A l \in moves' : ~About(l, i, k), NEW d \in Dirs
                 PROVE  IsAt(i, k, d)' <=> d = RowInForce(i)'.dir
      BY DEF RestingFilesExact, About
    <2>1. ~About(m, i, k) /\ \A l \in moves : ~About(l, i, k)
      BY <1>3, <1>4 DEF About
    <2>2. IsAt(i, k, d)' <=> IsAt(i, k, d)
      BY <1>5, <2>1
    <2> QED
      BY <1>1, <2>1, <2>2 DEF FilesExact, RestingFilesExact
  <1>10. UploadedFilesExact'
    <2> SUFFICES ASSUME NEW i \in ImageIds, NEW k \in Kinds, NEW d \in Dirs, RowInForce(i)' = None
                 PROVE  IsAt(i, k, d)' <=> k = "image" /\ Uploading(i, d)'
      BY DEF UploadedFilesExact
    <2>1. RowInForce(i) = None /\ ~About(m, i, k)
      BY <1>1 DEF FilesExact, MovesLeadToRows, About
    <2>2. IsAt(i, k, d)' <=> IsAt(i, k, d)
      BY <1>5, <2>1
    <2> QED
      BY <1>1, <2>1, <2>2 DEF FilesExact, UploadedFilesExact
  <1> QED
    BY <1>7, <1>8, <1>9, <1>10 DEF FilesExact

LEMMA DeleteSourceKeepsFiles ==
    ASSUME KeepInv, FilesExact, NEW m \in moves, DeleteSource(m)
    PROVE  FilesExact'
  <1>0. TypeOK /\ MovesSafe
    BY DEF KeepInv, SerialInv, UploadInv
  <1>1. /\ \A i : RowInForce(i)' = RowInForce(i)
        /\ \A i, d : Uploading(i, d)' <=> Uploading(i, d)
    BY MovesKeepForce DEF DeleteSource, request
  <1>2. m.stage = "delete" /\ m.from # m.to /\ moves' = moves \ {m}
    BY <1>0 DEF DeleteSource, MovesSafe
  <1>3. \A i, k, d : IsAt(i, k, d)' <=> IsAt(i, k, d) /\ ~(About(m, i, k) /\ d = m.from)
    BY DEF DeleteSource, IsAt, About, Source
  <1>4. \A l \in moves \ {m} : ~About(m, l.id, l.kind)
    BY <1>0 DEF MovesSafe, About
  <1>5. MovesLeadToRows'
    BY <1>1, <1>2 DEF FilesExact, MovesLeadToRows
  <1>6. MovedFilesExact'
    BY <1>2, <1>3, <1>4 DEF FilesExact, MovedFilesExact
  <1>7. RestingFilesExact'
    <2> SUFFICES ASSUME NEW i \in ImageIds, NEW k \in Kinds, RowInForce(i)' # None,
                        \A l \in moves' : ~About(l, i, k), NEW d \in Dirs
                 PROVE  IsAt(i, k, d)' <=> d = RowInForce(i)'.dir
      BY DEF RestingFilesExact, About
    <2>1. CASE About(m, i, k)
      <3>1. IsAt(i, k, d) <=> d = m.from \/ d = m.to
        BY <1>2, <2>1 DEF FilesExact, MovedFilesExact, About
      <3>2. m.to = RowInForce(i).dir
        BY <2>1 DEF FilesExact, MovesLeadToRows, About
      <3> QED
        BY <1>1, <1>2, <1>3, <2>1, <3>1, <3>2
    <2>2. CASE ~About(m, i, k)
      <3>1. \A l \in moves : ~About(l, i, k)
        BY <1>2, <2>2
      <3> QED
        BY <1>1, <1>3, <2>2, <3>1 DEF FilesExact, RestingFilesExact
    <2> QED
      BY <2>1, <2>2
  <1>8. UploadedFilesExact'
    <2> SUFFICES ASSUME NEW i \in ImageIds, NEW k \in Kinds, NEW d \in Dirs, RowInForce(i)' = None
                 PROVE  IsAt(i, k, d)' <=> k = "image" /\ Uploading(i, d)'
      BY DEF UploadedFilesExact
    <2>1. RowInForce(i) = None /\ ~About(m, i, k)
      BY <1>1 DEF FilesExact, MovesLeadToRows, About
    <2> QED
      BY <1>1, <1>3, <2>1 DEF FilesExact, UploadedFilesExact
  <1> QED
    BY <1>5, <1>6, <1>7, <1>8 DEF FilesExact

\* A step after which no request has failed or was cut off is an arrival, a step
\* of serving or a step of a move, and no move finds its source gone.
LEMMA NoneFailedSteps ==
    ASSUME TypeOK, SettleInv, [SerialNext]_vars, NoneFailed'
    PROVE  /\ NoneFailed
           /\ \/ \E r \in Requests, p \in Payloads : Quiescent /\ Receive(r, p)
              \/ \E r \in Requests : \/ Load(r) \/ BeginSave(r) \/ Write(r)
                                     \/ UploadImage(r) \/ UploadThumbnail(r) \/ UpdateItem(r)
              \/ \E m \in moves : CopyObject(m) \/ DeleteSource(m)
              \/ UNCHANGED <<rows, store, moves, request>>
  <1>1. ASSUME NEW r \in Requests, Fail(r) PROVE FALSE
    BY <1>1 DEF Fail, Finish, TypeOK, NoneFailed
  <1>2. NoneFailed
    <2> SUFFICES ASSUME NEW q \in Requests, pc[q] = "failed" PROVE pc'[q] = "failed"
      BY DEF NoneFailed
    <2>1. ASSUME NEW cutOff, Restart(cutOff) PROVE pc'[q] = "failed"
      BY <2>1 DEF Restart, Steps
    <2>2. ASSUME NEW r \in Requests, NEW p \in Payloads, Receive(r, p) PROVE pc'[q] = "failed"
      BY <2>2 DEF Receive, TypeOK
    <2>3. ASSUME NEW r \in Requests,
                 \/ Load(r) \/ UploadImage(r) \/ UploadThumbnail(r)
                 \/ UpdateItem(r) \/ BeginSave(r) \/ Write(r)
          PROVE  pc'[q] = "failed"
      BY <2>3 DEF Load, UploadImage, UploadThumbnail, UpdateItem, BeginSave, Write, Finish, AtItem, TypeOK
    <2>4. CASE UNCHANGED request
      BY <2>4 DEF request
    <2> QED
      BY <1>1, <2>1, <2>2, <2>3, <2>4
      DEF SerialNext, SerialArrive, Arrive, Progress, Serve, ServeMove, Disturb, Reject, LoadRefused,
          ImageNotFound, CopyObject, CopySourceMissing, DeleteSource, UploadFails, ThumbnailFails,
          QueryFails, MoveFails, Crash, DeleteProduct, vars, request
  <1>3. ASSUME NEW m \in moves, CopySourceMissing(m) PROVE FALSE
    <2>1. m.from \in Dirs
      BY DEF TypeOK, Move
    <2>2. IsAt(m.id, m.kind, m.from)
      BY <1>2, <2>1 DEF SettleInv, FilesExact, MovedFilesExact
    <2> QED
      BY <1>3, <2>2 DEF CopySourceMissing, Source, IsAt
  <1>4. ASSUME Restart(Moving), moves # {} \/ \E r \in Requests : pc[r] \in Steps
        PROVE  FALSE
    <2>1. \A m \in moves : m.by \in Requests /\ m.by \in Moving
      BY DEF TypeOK, Move, Moving
    <2>2. PICK r \in Requests : pc[r] \in Steps \/ r \in Moving
      BY <1>4, <2>1
    <2>3. pc'[r] = "failed"
      BY <1>4, <2>2 DEF Restart
    <2> QED
      BY <2>3 DEF NoneFailed
  <1> QED
    BY <1>1, <1>2, <1>3, <1>4
    DEF SerialNext, SerialArrive, Arrive, Progress, Serve, ServeMove, Disturb, Reject, LoadRefused,
        ImageNotFound, UploadFails, ThumbnailFails, QueryFails, MoveFails, Crash, DeleteProduct,
        vars, request

LEMMA InitSettleInv == Init => SettleInv
  <1> SUFFICES ASSUME Init PROVE FilesExact
    BY DEF SettleInv
  <1>1. TypeOK
    BY InitTypeOK
  <1>2. moves = {} /\ \A r \in Requests : pc[r] = "idle" /\ mem[r] = NoRows
    BY DEF Init
  <1>3. \A i \in ImageIds : RowInForce(i) = rows[i]
    BY <1>2 DEF NoRows, RowInForce, InForceOf
  <1>4. \A i \in ImageIds, k \in Kinds, d \in Dirs :
          IsAt(i, k, d) <=> rows[i] # None /\ d = rows[i].dir
    <2> TAKE i \in ImageIds, k \in Kinds, d \in Dirs
    <2> DEFINE file == [id |-> i, kind |-> k, dir |-> d]
    <2>1. store = {[id |-> j, kind |-> l, dir |-> rows[j].dir] : j \in Existing(rows), l \in Kinds}
      BY DEF Init, ObjectsOf
    <2>2. ASSUME file \in store
          PROVE  rows[i] # None /\ d = rows[i].dir
      <3>0. \A o \in store : \E j \in Existing(rows), l \in Kinds :
              o.id = j /\ o.dir = rows[j].dir
        BY <2>1
      <3>1. PICK j \in Existing(rows), l \in Kinds : file.id = j /\ file.dir = rows[j].dir
        <4> HIDE DEF file
        <4> QED
          BY <2>2, <3>0
      <3>2. i = j /\ d = rows[j].dir
        BY <3>1
      <3> QED
        BY <3>1, <3>2 DEF Existing
    <2>3. ASSUME rows[i] # None, d = rows[i].dir
          PROVE  file \in store
      BY <2>1, <2>3 DEF Existing
    <2> QED
      BY <2>2, <2>3 DEF IsAt
  <1>5. \A i, d : ~Uploading(i, d)
    BY <1>2 DEF Uploading
  <1> QED
    BY <1>2, <1>3, <1>4, <1>5
    DEF FilesExact, MovesLeadToRows, MovedFilesExact, RestingFilesExact, UploadedFilesExact

LEMMA NextSettleInv == KeepInv /\ SettleInv /\ [SerialNext]_vars => SettleInv'
  <1> SUFFICES ASSUME KeepInv, SettleInv, [SerialNext]_vars, NoneFailed'
               PROVE  FilesExact'
    BY DEF SettleInv
  <1>0. SerialInv /\ UploadInv /\ TypeOK
    BY DEF KeepInv, SerialInv, UploadInv
  <1>1. FilesExact
    BY <1>0, NoneFailedSteps DEF SettleInv
  <1>2. ASSUME NEW r \in Requests, NEW p \in Payloads, Quiescent, Receive(r, p)
        PROVE  FilesExact'
    <2>1. \A q \in Requests : pc[q] # "thumbnail" /\ pc'[q] # "thumbnail"
      BY <1>0, <1>2 DEF Quiescent, Receive, TypeOK, Steps
    <2>2. \A i, d : ~Uploading(i, d) /\ ~Uploading(i, d)'
      BY <2>1 DEF Uploading
    <2>3. \A i : RowInForce(i)' = RowInForce(i)
      BY <1>2 DEF Receive, RowInForce, InForceOf
    <2> QED
      BY <1>0, <1>1, <1>2, <2>2, <2>3, QuietKeepsFiles DEF Receive
  <1>3. ASSUME NEW r \in Requests, Load(r) \/ BeginSave(r) \/ Write(r)
        PROVE  FilesExact'
    <2>1. pc[r] \in Steps /\ pc[r] # "thumbnail" /\ pc'[r] # "thumbnail"
      BY <1>0, <1>3 DEF Load, BeginSave, Write, Finish, TypeOK, Steps
    <2>2. \A q \in Requests : pc[q] # "thumbnail"
      BY <1>0, <2>1 DEF SerialInv, OneAtATime, Steps
    <2>3. \A q \in Requests : pc'[q] # "thumbnail"
      BY <1>0, <1>3, <2>1, <2>2 DEF Load, BeginSave, Write, Finish, TypeOK
    <2>4. \A i, d : ~Uploading(i, d) /\ ~Uploading(i, d)'
      BY <2>2, <2>3 DEF Uploading
    <2>5. \A i \in ImageIds : RowInForce(i)' = RowInForce(i)
      BY <1>0, <1>3, ForceKeptByLoadAndSave
    <2>6. UNCHANGED <<store, moves>>
      BY <1>3 DEF Load, BeginSave, Write
    <2> QED
      BY <1>0, <1>1, <2>4, <2>5, <2>6, QuietKeepsFiles
  <1>4. ASSUME UNCHANGED <<rows, store, moves, request>>
        PROVE  FilesExact'
    BY <1>0, <1>1, <1>4, MovesKeepForce, QuietKeepsFiles
  <1> QED
    BY <1>0, <1>1, <1>2, <1>3, <1>4, NoneFailedSteps, UploadImageKeepsFiles, UploadThumbnailKeepsFiles,
       UpdateItemKeepsFiles, CopyObjectKeepsFiles, DeleteSourceKeepsFiles

\* While editors take turns, every file is where the row in force and its move
\* say, in every state in which no request has been refused, failed or cut off.
THEOREM SettleInvariant == SerialSpec => []SettleInv
  BY InitSettleInv, NextSettleInv, KeepInvariant, PTL DEF SerialSpec

\* Under the same conditions the bucket holds exactly the files the rows name
\* whenever nothing is in progress: the moves bulkSave never waits for leave no
\* copy behind and take nothing that is needed, and every upload gets its row.
THEOREM StorageSettles == SerialSpec => []StorageMatchesRows
  <1>1. KeepInv /\ SettleInv => StorageMatchesRows
    <2> SUFFICES ASSUME KeepInv, SettleInv, Quiescent, NoneFailed
                 PROVE  store = ObjectsOf(rows)
      BY DEF StorageMatchesRows, NoneFailed
    <2>1. TypeOK /\ IdleHoldsNothing
      BY DEF KeepInv, SerialInv, UploadInv
    <2>2. FilesExact /\ moves = {} /\ \A r \in Requests : pc[r] \notin Steps
      BY DEF SettleInv, Quiescent
    <2>3. \A r \in Requests : mem[r] = NoRows /\ pc[r] # "thumbnail"
      BY <2>1, <2>2 DEF IdleHoldsNothing, Steps
    <2>4. \A i \in ImageIds : RowInForce(i) = rows[i]
      BY <2>3 DEF NoRows, RowInForce, InForceOf
    <2>5. \A i, d : ~Uploading(i, d)
      BY <2>3 DEF Uploading
    <2>6. \A i \in ImageIds, k \in Kinds, d \in Dirs :
            IsAt(i, k, d) <=> rows[i] # None /\ d = rows[i].dir
      BY <2>2, <2>4, <2>5 DEF FilesExact, RestingFilesExact, UploadedFilesExact
    <2>7. \A i \in Existing(rows) : rows[i].dir \in Dirs
      BY <2>1 DEF TypeOK, Table, Existing, Row
    <2>8. ObjectsOf(rows) \subseteq store
      BY <2>6, <2>7 DEF ObjectsOf, IsAt, Existing
    <2>9. store \subseteq ObjectsOf(rows)
      <3> SUFFICES ASSUME NEW o \in store PROVE o \in ObjectsOf(rows)
        OBVIOUS
      <3>1. o \in Object
        BY <2>1 DEF TypeOK
      <3>2. /\ o.id \in ImageIds /\ o.kind \in Kinds /\ o.dir \in Dirs
            /\ o = [id |-> o.id, kind |-> o.kind, dir |-> o.dir]
        BY <3>1 DEF Object
      <3>3. rows[o.id] # None /\ o.dir = rows[o.id].dir
        BY <2>6, <3>2 DEF IsAt
      <3> QED
        BY <3>2, <3>3 DEF ObjectsOf, Existing
    <2> QED
      BY <2>8, <2>9
  <1> QED
    BY <1>1, KeepInvariant, SettleInvariant, PTL

===============================================================================
