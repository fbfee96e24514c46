---------------------------- MODULE QueriesProofs ----------------------------
(***************************************************************************)
(* Theorems about the reading of products, brands, categories and users,   *)
(* for any number of rows, any calls and any page size.                    *)
(***************************************************************************)
EXTENDS Queries, FiniteSetTheorems, SequenceTheorems, TLAPS

(***************************************************************************)
(* Pages                                                                   *)
(***************************************************************************)

LEMMA FiniteRows ==
    ASSUME NEW S \in SUBSET Rows
    PROVE  IsFiniteSet(S) /\ Cardinality(S) \in Nat
  BY RelationsAssumption, FS_Subset, FS_CardinalityType

LEMMA SortedType ==
    ASSUME NEW S \in SUBSET Rows, NEW keys, NEW s \in Sorted(S, keys)
    PROVE  s \in Seq(S) /\ Len(s) = Cardinality(S)
  <1>1. Cardinality(S) \in Nat
    BY FiniteRows
  <1> QED
    BY <1>1 DEF Sorted

\* A page holds selected rows, and no more than it may.
LEMMA PagesType ==
    ASSUME NEW S \in SUBSET Rows, NEW d, d.page \in Nat \ {0}, d.size \in Nat, NEW ids \in Pages(S, d)
    PROVE  ids \in Seq(S) /\ Len(ids) <= d.size
  <1> DEFINE last(s) == IF Skip(d) + d.size < Len(s) THEN Skip(d) + d.size ELSE Len(s)
  <1>1. PICK s \in Sorted(S, d.orderBy) : ids = SubSeq(s, Skip(d) + 1, last(s))
    BY DEF Pages
  <1>2. s \in Seq(S) /\ Len(s) \in Nat
    BY SortedType
  <1>3. Skip(d) \in Nat
    BY DEF Skip
  <1>4. last(s) \in Int /\ last(s) <= Len(s) /\ last(s) <= Skip(d) + d.size
    BY <1>2, <1>3
  <1>5. \A i \in Skip(d) + 1 .. last(s) : s[i] \in S
    BY <1>2, <1>3, <1>4
  <1> HIDE DEF last
  <1>6. /\ ids \in Seq(S)
        /\ Len(ids) = IF Skip(d) + 1 <= last(s) THEN last(s) - (Skip(d) + 1) + 1 ELSE 0
    BY <1>1, <1>3, <1>4, <1>5, SubSeqProperties
  <1> QED
    BY <1>3, <1>4, <1>6

(***************************************************************************)
(* Transformed and valid queries                                           *)
(***************************************************************************)

\* Every filter of a DTO is a value of its enumeration.
LEMMA FiltersValid ==
    ASSUME NEW c \in Call, ~ValidationRefuses(c), c.query.form = "object", NEW f \in FieldsOf(c.kind)
    PROVE  LET v == Transformed(c.query.filters[f], Defaults[f])
           IN  /\ f \in ActiveFields(c.kind) => v \in ActiveValues
               /\ f \in DeletedFields(c.kind) => v \in DeletedValues
  BY DEF ValidationRefuses

LEMMA FieldsKnown ==
    ASSUME NEW kind \in Kinds
    PROVE  /\ ActiveFields(kind) \subseteq ActiveFields("products")
           /\ DeletedFields(kind) \subseteq DeletedFields("products")
           /\ ActiveFields("products") \cap DeletedFields("products") = {}
           /\ FilterFields = ActiveFields("products") \cup DeletedFields("products")
  BY DEF ActiveFields, DeletedFields, FilterFields, FieldsOf

LEMMA DefaultsValid ==
    \A f \in FilterFields : /\ f \in ActiveFields("products") => Defaults[f] = "active"
                            /\ f \in DeletedFields("products") => Defaults[f] = "not_deleted"
  BY FieldsKnown DEF Defaults, FilterFields, FieldsOf, ActiveFields, DeletedFields

LEMMA DtoFilters ==
    ASSUME NEW c \in Call, ~ValidationRefuses(c)
    PROVE  Dto(c.kind, c.query).filters \in Filters
  <1> DEFINE filters == Dto(c.kind, c.query).filters
  <1>1. filters = [f \in FilterFields |->
                     IF c.query.form = "object" /\ f \in FieldsOf(c.kind)
                     THEN Transformed(c.query.filters[f], Defaults[f]) ELSE Defaults[f]]
    BY DEF Dto
  <1>2. c.kind \in Kinds
    BY DEF Call
  <1>3. ASSUME NEW f \in FilterFields
        PROVE  /\ f \in ActiveFields("products") => filters[f] \in ActiveValues
               /\ f \in DeletedFields("products") => filters[f] \in DeletedValues
    <2>1. CASE c.query.form = "object" /\ f \in FieldsOf(c.kind)
      <3>1. filters[f] = Transformed(c.query.filters[f], Defaults[f])
        BY <1>1, <2>1
      <3>2. /\ f \in ActiveFields("products") => f \in ActiveFields(c.kind)
            /\ f \in DeletedFields("products") => f \in DeletedFields(c.kind)
        BY <1>2, <2>1, FieldsKnown DEF FieldsOf
      <3> HIDE DEF filters
      <3> QED
        BY <2>1, <3>1, <3>2, FiltersValid
    <2>2. CASE ~(c.query.form = "object" /\ f \in FieldsOf(c.kind))
      <3>1. filters[f] = Defaults[f]
        BY <1>1, <2>2
      <3> HIDE DEF filters
      <3> QED
        BY <3>1, DefaultsValid DEF ActiveValues, DeletedValues
    <2> QED
      BY <2>1, <2>2
  <1> HIDE DEF filters
  <1> QED
    BY <1>1, <1>2, <1>3, FieldsKnown DEF Filters, filters

LEMMA NumbersValid ==
    ASSUME NEW raw \in Int \cup {None}
    PROVE  PageOf(raw) \in Nat \ {0} /\ SizeOf(raw) \in 1..MaxSize
  BY SizesAssumption DEF PageOf, SizeOf, AtLeastOne

LEMMA OrderValid ==
    ASSUME NEW raw \in Seq(Keys) \cup {None}
    PROVE  OrderOf(raw) \in Seq(Keys)
  <1>1. DefaultOrder \in Seq(Keys)
    BY DEF DefaultOrder, Keys
  <1> QED
    BY <1>1 DEF OrderOf

\* The ids in a valid list are ids of rows; None is null.
LEMMA IdsValid ==
    ASSUME NEW raw \in RawIds, NEW allow \in BOOLEAN, ~IdsInvalid(raw, allow)
    PROVE  IdsOf(raw) \subseteq Rows \cup (IF allow THEN {None} ELSE {})
  <1>1. raw.items \in Seq(Rows \cup {None, "malformed"}) /\ raw.form \in {"absent", "list", "other"}
    BY DEF RawIds
  <1>2. \A k \in DOMAIN raw.items : raw.items[k] \in Rows \cup {None, "malformed"}
    BY <1>1
  <1> QED
    BY <1>2 DEF IdsInvalid, IdsOf

\* What a call that is let through is transformed to.
LEMMA DtoValid ==
    ASSUME NEW c \in Call, ~ValidationRefuses(c)
    PROVE  Dto(c.kind, c.query) \in Dtos
  <1> DEFINE d == Dto(c.kind, c.query)
             given == c.query.form = "object"
  <1>1. /\ c.kind \in Kinds
        /\ c.query.brandIds \in RawIds /\ c.query.categoryIds \in RawIds /\ c.query.parentIds \in RawIds
        /\ c.query.page \in Int \cup {None} /\ c.query.pageSize \in Int \cup {None}
        /\ c.query.orderBy \in Seq(Keys) \cup {None}
    BY DEF Call, RawQuery
  <1>2. d.filters \in Filters
    BY DtoFilters
  <1>3. d.brandIds \in SUBSET Rows /\ d.categoryIds \in SUBSET Rows
    <2>1. CASE given /\ c.kind = "products"
      <3>1. ~IdsInvalid(c.query.brandIds, FALSE) /\ ~IdsInvalid(c.query.categoryIds, FALSE)
        BY <2>1 DEF ValidationRefuses
      <3> QED
        BY <1>1, <2>1, <3>1, IdsValid DEF Dto
    <2>2. CASE ~(given /\ c.kind = "products")
      BY <2>2 DEF Dto
    <2> QED
      BY <2>1, <2>2
  <1>4. d.parentIds \in SUBSET (Rows \cup {None})
    <2>1. CASE given /\ c.kind = "categories"
      <3>1. ~IdsInvalid(c.query.parentIds, TRUE)
        BY <2>1 DEF ValidationRefuses
      <3> QED
        BY <1>1, <2>1, <3>1, IdsValid DEF Dto
    <2>2. CASE ~(given /\ c.kind = "categories")
      BY <2>2 DEF Dto
    <2> QED
      BY <2>1, <2>2
  <1>5. d.page \in Nat \ {0} /\ d.size \in 1..MaxSize
    <2>1. CASE given
      BY <1>1, <2>1, NumbersValid DEF Dto
    <2>2. CASE ~given
      BY <2>2, SizesAssumption DEF Dto
    <2> QED
      BY <2>1, <2>2
  <1>6. d.orderBy \in Seq(Keys)
    <2>1. DefaultOrder \in Seq(Keys)
      BY DEF DefaultOrder, Keys
    <2> QED
      BY <1>1, <2>1, OrderValid DEF Dto
  <1>7. d.text \in BOOLEAN
    BY DEF Dto
  <1>8. d = [filters |-> d.filters, text |-> d.text, brandIds |-> d.brandIds, categoryIds |-> d.categoryIds,
             parentIds |-> d.parentIds, page |-> d.page, size |-> d.size, orderBy |-> d.orderBy]
    BY DEF Dto
  <1> HIDE DEF d
  <1> QED
    BY <1>2, <1>3, <1>4, <1>5, <1>6, <1>7, <1>8 DEF Dtos, d

(***************************************************************************)
(* Types                                                                   *)
(***************************************************************************)

\* A call that is being answered was let through, and its DTO is its query.
LetThrough ==
    /\ stage \in {"page", "entities", "count"} => ~Refused(call) /\ dto = Dto(call.kind, call.query)
    /\ stage = "byId" => ~Refused(call)
    /\ stage \in {"idle", "received", "byId"} => dto = None
    /\ call \in Sent \cup {None}

Types == TypeOK /\ LetThrough

LEMMA CallType == call # None /\ TypeOK => call \in Call
  BY DEF TypeOK

LEMMA SelectedType ==
    ASSUME NEW kind \in Kinds, NEW d
    PROVE  Selected(kind, d) \in SUBSET Rows
  BY DEF Kinds, Selected, SelectedProducts, SelectedCategories, SelectedBrands, SelectedUsers, Rows

\* The rows that the query of a kind selects are of the kind.
LEMMA SelectedOfKind ==
    ASSUME NEW kind \in Kinds, NEW d, NEW x \in Selected(kind, d)
    PROVE  x \in RowsOf(kind)
  BY DEF Kinds, Selected, SelectedProducts, SelectedCategories, SelectedBrands, SelectedUsers, RowsOf

LEMMA EntryType ==
    ASSUME NEW kind \in Kinds, NEW d, NEW x \in RowsOf(kind)
    PROVE  Entry(x, Relations(kind, d, x)) \in EntriesOf
  <1>1. x \in Rows
    BY DEF Kinds, RowsOf, Rows
  <1>2. CASE kind = "products"
    <2>1. BrandOf[x] \in Brands /\ CategoryOf[x] \in Categories
      BY <1>2, RelationsAssumption DEF RowsOf
    <2>2. Relations(kind, d, x) = JoinedToProduct(d, x)
      BY <1>2 DEF Relations
    <2>3. JoinedToProduct(d, x).images \in SUBSET Images
      BY RelationsAssumption DEF JoinedToProduct
    <2>4. /\ JoinedToProduct(d, x).brand \in Brands \cup {None}
          /\ JoinedToProduct(d, x).category \in Categories \cup {None}
          /\ JoinedToProduct(d, x).parent = None
      BY <2>1 DEF JoinedToProduct, JoinedTo
    <2> QED
      BY <1>1, <2>2, <2>3, <2>4 DEF Entry, EntriesOf
  <1>3. CASE kind = "categories"
    <2>1. ParentOf[x] \in Categories \cup {None}
      BY <1>3, RelationsAssumption DEF RowsOf
    <2>2. Relations(kind, d, x) = JoinedToCategory(x)
      BY <1>3 DEF Relations
    <2> QED
      BY <1>1, <2>1, <2>2 DEF JoinedToCategory, JoinedTo, Nothing, Entry, EntriesOf
  <1>4. CASE kind \in {"brands", "users"}
    <2>1. Relations(kind, d, x) = Nothing
      BY <1>4 DEF Relations
    <2> QED
      BY <1>1, <2>1 DEF Nothing, Entry, EntriesOf
  <1> QED
    BY <1>2, <1>3, <1>4 DEF Kinds

LEMMA EntriesType ==
    ASSUME NEW kind \in Kinds, NEW d, NEW ids \in Seq(Selected(kind, d))
    PROVE  /\ Entries(kind, d, ids) \in Seq(EntriesOf)
           /\ DOMAIN Entries(kind, d, ids) = DOMAIN ids
           /\ \A k \in DOMAIN ids : ids[k] \in Selected(kind, d)
  <1>1. \A k \in DOMAIN ids : ids[k] \in Selected(kind, d)
    OBVIOUS
  <1>2. \A k \in DOMAIN ids : Entry(ids[k], Relations(kind, d, ids[k])) \in EntriesOf
    BY <1>1, SelectedOfKind, EntryType
  <1>3. DOMAIN ids = 1..Len(ids) /\ Len(ids) \in Nat
    OBVIOUS
  <1> QED
    BY <1>1, <1>2, <1>3 DEF Entries

LEMMA InitTypes == Init => Types
  <1>1. SUFFICES ASSUME Init PROVE Types
    OBVIOUS
  <1>2. page \in Seq(Rows) /\ results \in Seq(EntriesOf)
    BY <1>1 DEF Init
  <1>3. rows \in [Rows -> Row]
    BY <1>1 DEF Init, Row
  <1>4. changes \in 0..MaxChanges /\ total \in Nat
    BY <1>1, SizesAssumption DEF Init
  <1> QED
    BY <1>1, <1>2, <1>3, <1>4 DEF Init, Types, TypeOK, LetThrough, Stages

LEMMA LeaveTypes ==
    ASSUME Types, Leave
    PROVE  Types'
  <1>1. page' \in Seq(Rows) /\ results' \in Seq(EntriesOf)
    BY DEF Leave
  <1> QED
    BY <1>1 DEF Leave, Types, TypeOK, LetThrough, Stages

LEMMA ArriveTypes ==
    ASSUME Types, Arrive
    PROVE  Types'
  <1>1. call' \in Call /\ call' # None
    BY SentAssumption DEF Arrive
  <1> QED
    BY <1>1 DEF Arrive, Types, TypeOK, LetThrough, Stages

LEMMA ReceiveTypes ==
    ASSUME Types, Receive
    PROVE  Types'
  <1>1. CASE Leave
    BY <1>1, LeaveTypes
  <1>2. CASE ~Leave
    <2>1. /\ ~Refused(call)
          /\ stage = "received"
          /\ UNCHANGED <<rows, changes, call, page, results, total, stable>>
      BY <1>2 DEF Receive
    <2>2. call \in Call /\ call # None
      BY <2>1, CallType DEF Types, TypeOK
    <2>3. ~GuardRefuses(call)
      BY <2>1 DEF Refused
    <2>4. CASE call.op = "find"
      <3>1. stage' = "page" /\ dto' = Dto(call.kind, call.query)
        BY <1>2, <2>4 DEF Receive
      <3>2. dto' \in Dtos /\ dto' # None
        BY <2>1, <2>2, <2>4, <3>1, DtoValid, SentAssumption DEF Refused
      <3> QED
        BY <2>1, <2>2, <2>3, <2>4, <3>1, <3>2 DEF Types, TypeOK, LetThrough, Stages
    <2>5. CASE call.op # "find"
      <3>1. stage' = "byId" /\ dto' = dto
        BY <1>2, <2>5 DEF Receive
      <3>2. call.op = "findById"
        BY <2>2, <2>5 DEF Call
      <3> QED
        BY <2>1, <2>2, <2>3, <3>1, <3>2 DEF Types, TypeOK, LetThrough, Stages
    <2> QED
      BY <2>4, <2>5
  <1> QED
    BY <1>1, <1>2

\* What a query of find works with.
LEMMA Finding ==
    ASSUME Types, stage \in {"page", "entities", "count"}
    PROVE  /\ call \in Call /\ call.kind \in Kinds
           /\ dto \in Dtos
           /\ dto.page \in Nat \ {0} /\ dto.size \in Nat
           /\ Selected(call.kind, dto) \in SUBSET Rows
  <1>1. call \in Call /\ dto \in Dtos
    BY DEF Types, TypeOK
  <1>2. call.kind \in Kinds
    BY <1>1 DEF Call
  <1>3. dto.page \in Nat \ {0} /\ dto.size \in Nat
    BY <1>1, SizesAssumption DEF Dtos
  <1> QED
    BY <1>1, <1>2, <1>3, SelectedType

\* Whatever the page, the entries of an answer are rows that are selected.
LEMMA FindPageTypes ==
    ASSUME Types, FindPage
    PROVE  /\ Types'
           /\ \/ results' = results
              \/ \E ids \in Seq(Selected(call.kind, dto)) : results' = Entries(call.kind, dto, ids)
  <1>1. stage = "page" /\ UNCHANGED <<rows, changes, call, dto, total>> /\ stable' = TRUE
    BY DEF FindPage
  <1>2. PICK ids \in Pages(Selected(call.kind, dto), dto) :
           IF Joins(call.kind) /\ ids # <<>>
           THEN page' = ids /\ stage' = "entities" /\ UNCHANGED results
           ELSE results' = Entries(call.kind, dto, ids) /\ stage' = "count" /\ UNCHANGED page
    BY DEF FindPage
  <1>3. ids \in Seq(Selected(call.kind, dto))
    BY <1>1, Finding, PagesType
  <1>4. ids \in Seq(Rows) /\ Entries(call.kind, dto, ids) \in Seq(EntriesOf)
    BY <1>1, <1>3, Finding, EntriesType
  <1> QED
    BY <1>1, <1>2, <1>3, <1>4 DEF Types, TypeOK, LetThrough, Stages

LEMMA FindEntitiesTypes ==
    ASSUME Types, FindEntities
    PROVE  /\ Types'
           /\ \E ids \in Seq(Selected(call.kind, dto)) : results' = Entries(call.kind, dto, ids)
  <1>1. /\ stage = "entities" /\ stage' = "count"
        /\ UNCHANGED <<rows, changes, call, dto, page, total, stable>>
    BY DEF FindEntities
  <1> DEFINE S == Selected(call.kind, dto) \cap {page[k] : k \in DOMAIN page}
  <1>2. PICK ids \in Sorted(S, dto.orderBy) : results' = Entries(call.kind, dto, ids)
    BY DEF FindEntities
  <1>3. S \in SUBSET Rows
    BY <1>1, Finding
  <1>4. ids \in Seq(S)
    BY <1>2, <1>3, SortedType
  <1>5. ids \in Seq(Selected(call.kind, dto))
    BY <1>4
  <1>6. Entries(call.kind, dto, ids) \in Seq(EntriesOf)
    BY <1>1, <1>5, Finding, EntriesType
  <1> QED
    BY <1>1, <1>2, <1>5, <1>6 DEF Types, TypeOK, LetThrough, Stages

LEMMA CountTypes ==
    ASSUME Types, Count
    PROVE  Types'
  <1>1. stage = "count" /\ stage' = "answered" /\ UNCHANGED <<rows, changes, call, dto, page, results, stable>>
    BY DEF Count
  <1>2. total' \in Nat
    <2>1. Cardinality(Selected(call.kind, dto)) \in Nat
      BY <1>1, Finding, FiniteRows
    <2>2. Skip(dto) \in Nat
      BY <1>1, Finding DEF Skip
    <2>3. Len(results) \in Nat
      BY DEF Types, TypeOK
    <2> QED
      BY <2>1, <2>2, <2>3 DEF Count
  <1> QED
    BY <1>1, <1>2 DEF Types, TypeOK, LetThrough, Stages

\* What findById may find.
LEMMA FoundType ==
    ASSUME NEW c \in Call, NEW entry \in Found(c.kind, c.id, PublicAccess(c.caller)), c.id \in RowsOf(c.kind)
    PROVE  entry \in EntriesOf
  <1>1. c.kind \in Kinds /\ c.id \in Rows
    BY DEF Call, RowsOf, Rows, Kinds
  <1>2. CASE c.kind = "products"
    <2>1. BrandOf[c.id] \in Brands /\ CategoryOf[c.id] \in Categories
      BY <1>2, RelationsAssumption DEF RowsOf
    <2> QED
      BY <1>1, <1>2, <2>1 DEF Found, FoundProduct, JoinedTo, Nothing, Entry, EntriesOf
  <1>3. CASE c.kind = "categories"
    <2>1. ParentOf[c.id] \in Categories \cup {None}
      BY <1>3, RelationsAssumption DEF RowsOf
    <2> QED
      BY <1>1, <1>3, <2>1 DEF Found, FoundCategory, Nothing, Entry, EntriesOf
  <1>4. CASE c.kind \in {"brands", "users"}
    BY <1>1, <1>4 DEF Found, FoundBrand, FoundUser, Nothing, Entry, EntriesOf
  <1> QED
    BY <1>1, <1>2, <1>3, <1>4 DEF Kinds

LEMMA FindByIdTypes ==
    ASSUME Types, FindById
    PROVE  /\ Types'
           /\ \/ results' = <<>>
              \/ \E entry \in Found(call.kind, call.id, PublicAccess(call.caller)) : results' = <<entry>>
  <1>1. stage = "byId" /\ call # None /\ call \in Sent /\ call \in Call /\ call.op = "findById"
    BY DEF FindById, Types, TypeOK, LetThrough
  <1>2. CASE Leave
    BY <1>2, LeaveTypes DEF Leave
  <1>3. CASE ~Leave
    <2>1. /\ stage' = "answered"
          /\ UNCHANGED <<rows, changes, call, dto, page, total, stable>>
      BY <1>3 DEF FindById
    <2>2. PICK entry \in Found(call.kind, call.id, PublicAccess(call.caller)) : results' = <<entry>>
      BY <1>3 DEF FindById
    <2>3. entry \in EntriesOf
      BY <1>1, <2>2, FoundType, SentAssumption
    <2> QED
      BY <1>1, <2>1, <2>2, <2>3 DEF Types, TypeOK, LetThrough, Stages
  <1> QED
    BY <1>2, <1>3

LEMMA ChangeTypes ==
    ASSUME Types, Change
    PROVE  Types'
  <1>1. UNCHANGED <<stage, call, dto, page, results, total>> /\ stable' = FALSE
    BY DEF Change
  <1>2. rows' \in [Rows -> Row]
    BY DEF Change, Types, TypeOK
  <1>3. changes' \in 0..MaxChanges
    BY SizesAssumption DEF Change, Types, TypeOK
  <1> QED
    BY <1>1, <1>2, <1>3 DEF Types, TypeOK, LetThrough

LEMMA NextTypes ==
    ASSUME Types, [Next]_vars
    PROVE  Types'
  <1>1. CASE UNCHANGED vars
    BY <1>1 DEF vars, Types, TypeOK, LetThrough
  <1> QED
    BY <1>1, ArriveTypes, ReceiveTypes, FindPageTypes, FindEntitiesTypes, CountTypes, FindByIdTypes, LeaveTypes,
       ChangeTypes
    DEF Next, Answer, Fail

\* Every variable keeps its type: every query that passes the validation has
\* become a DTO, with every default, limit and id it needs, and every entry of an
\* answer is a row of a table.
THEOREM TypeCorrect == Spec => []TypeOK
  <1>1. Spec => []Types
    BY InitTypes, NextTypes, PTL DEF Spec
  <1> QED
    BY <1>1, PTL DEF Types

(***************************************************************************)
(* What the public sees                                                    *)
(***************************************************************************)

\* The entry of an answer to a call is public.
IsPublic(c, entry) ==
    /\ Public(entry.row)
    /\ c.kind = "products" => Public(entry.brand) /\ Public(entry.category)
    /\ entry.parent # None => Live(entry.parent) /\ (c.op = "findById" => Public(entry.parent))
    /\ \A i \in entry.images : Live(i) /\ ImageOf[i] = entry.row

\* The filters of somebody who is not staff are the narrow ones: what the check
\* lets pass as it was sent is not made wider when it is transformed.
LEMMA NarrowFilters ==
    ASSUME NEW c \in Call, ~Refused(c), c.op = "find", c.caller \notin Staff
    PROVE  LET filters == Dto(c.kind, c.query).filters
           IN  /\ \A f \in ActiveFields("products") : filters[f] = "active"
               /\ \A f \in DeletedFields("products") : filters[f] = "not_deleted"
  <1> DEFINE filters == Dto(c.kind, c.query).filters
  <1>1. filters = [f \in FilterFields |->
                     IF c.query.form = "object" /\ f \in FieldsOf(c.kind)
                     THEN Transformed(c.query.filters[f], Defaults[f]) ELSE Defaults[f]]
    BY DEF Dto
  <1>2. c.kind \in Kinds /\ ReadsQuery(c) /\ ~PermissionRefuses(c) /\ ~ValidationRefuses(c)
    BY DEF Call, Refused, ReadsQuery
  <1>3. ASSUME NEW f \in FilterFields
        PROVE  /\ f \in ActiveFields("products") => filters[f] = "active"
               /\ f \in DeletedFields("products") => filters[f] = "not_deleted"
    <2>1. CASE c.query.form = "object" /\ f \in FieldsOf(c.kind)
      <3> DEFINE raw == c.query.filters[f]
      <3>1. filters[f] = Transformed(raw, Defaults[f])
        BY <1>1, <2>1
      <3>2. CASE raw.form = "absent"
        <4>1. filters[f] = Defaults[f]
          BY <3>1, <3>2 DEF Transformed
        <4> HIDE DEF filters
        <4> QED
          BY <4>1, DefaultsValid
      <3>3. CASE raw.form # "absent"
        <4>1. filters[f] = raw.value
          BY <3>1, <3>3 DEF Transformed
        <4>2. f \in ActiveFields("products") => f \in ActiveFields(c.kind) /\ raw.value \in ActiveValues
          BY <1>2, <2>1, <3>1, <4>1, FieldsKnown, FiltersValid DEF FieldsOf
        <4>3. f \in DeletedFields("products") => f \in DeletedFields(c.kind) /\ raw.value \in DeletedValues
          BY <1>2, <2>1, <3>1, <4>1, FieldsKnown, FiltersValid DEF FieldsOf
        <4>4. /\ f \in ActiveFields(c.kind) => raw.value \notin {"all", "inactive"}
              /\ f \in DeletedFields(c.kind) => raw.value \notin {"all", "deleted"}
          BY <1>2, <2>1, <3>3 DEF PermissionRefuses, LooselyEquals
        <4> HIDE DEF filters, raw
        <4> QED
          BY <4>1, <4>2, <4>3, <4>4 DEF ActiveValues, DeletedValues
      <3> QED
        BY <3>2, <3>3
    <2>2. CASE ~(c.query.form = "object" /\ f \in FieldsOf(c.kind))
      <3>1. filters[f] = Defaults[f]
        BY <1>1, <2>2
      <3> HIDE DEF filters
      <3> QED
        BY <3>1, DefaultsValid
    <2> QED
      BY <2>1, <2>2
  <1> HIDE DEF filters
  <1>4. \A f \in ActiveFields("products") \cup DeletedFields("products") : f \in FilterFields
    BY FieldsKnown DEF Kinds
  <1> QED
    BY <1>3, <1>4 DEF filters

\* What narrow filters select is public.
LEMMA NarrowSelects ==
    ASSUME Types, NEW kind \in {"products", "categories", "brands"}, NEW d,
           \A f \in ActiveFields("products") : d.filters[f] = "active",
           \A f \in DeletedFields("products") : d.filters[f] = "not_deleted",
           NEW x \in Selected(kind, d), NEW c, c.kind = kind, c.op = "find"
    PROVE  IsPublic(c, Entry(x, Relations(kind, d, x)))
  <1>1. /\ d.filters.active = "active" /\ d.filters.deleted = "not_deleted"
        /\ d.filters.activeBrands = "active" /\ d.filters.deletedBrands = "not_deleted"
        /\ d.filters.activeCategories = "active" /\ d.filters.deletedCategories = "not_deleted"
    BY DEF ActiveFields, DeletedFields
  <1>2. x \in Rows /\ x # None
    BY SelectedType, RelationsAssumption DEF Kinds
  <1>3. rows[x] \in Row
    BY <1>2 DEF Types, TypeOK
  <1>4. CASE kind = "products"
    <2> DEFINE joined == JoinedToProduct(d, x)
    <2>1. x \in SelectedProducts(d)
      BY <1>4 DEF Selected
    <2>2. RowIs(d, x, FALSE)
      BY <1>1, <2>1 DEF SelectedProducts, Wide
    <2>3. /\ ActiveIs(joined.brand, "active") /\ ActiveIs(joined.category, "active")
          /\ joined.brand = JoinedTo(BrandOf[x], FALSE) /\ joined.category = JoinedTo(CategoryOf[x], FALSE)
          /\ joined.parent = None
          /\ joined.images = {i \in MainImages : ImageOf[i] = x /\ JoinedTo(i, FALSE) # None}
      <3>1. joined = [brand |-> JoinedTo(BrandOf[x], FALSE), category |-> JoinedTo(CategoryOf[x], FALSE),
                      parent |-> None,
                      images |-> {i \in MainImages : ImageOf[i] = x /\ JoinedTo(i, FALSE) # None}]
        <4>1. Wide(d.filters.deletedBrands) = FALSE /\ Wide(d.filters.deletedCategories) = FALSE
          BY <1>1 DEF Wide
        <4> QED
          BY <4>1 DEF JoinedToProduct
      <3>2. ActiveIs(joined.brand, d.filters.activeBrands) /\ ActiveIs(joined.category, d.filters.activeCategories)
        BY <2>1 DEF SelectedProducts
      <3> HIDE DEF joined
      <3> QED
        BY <1>1, <3>1, <3>2
    <2>4. Public(joined.brand) /\ Public(joined.category)
      BY <2>3 DEF ActiveIs, JoinedTo, Public, Live
    <2>5. Public(x)
      BY <1>1, <1>2, <2>2 DEF RowIs, ActiveIs, Public, Live
    <2>6. Entry(x, Relations(kind, d, x)) = Entry(x, joined)
      BY <1>4 DEF Relations
    <2> HIDE DEF joined
    <2>7. \A i \in joined.images : Live(i) /\ ImageOf[i] = x
      BY <2>3 DEF JoinedTo
    <2> QED
      BY <1>4, <2>3, <2>4, <2>5, <2>6, <2>7 DEF IsPublic, Entry
  <1>5. CASE kind = "categories"
    <2>1. RowIs(d, x, FALSE)
      BY <1>5 DEF Selected, SelectedCategories
    <2>2. Public(x)
      BY <1>1, <1>2, <2>1 DEF RowIs, ActiveIs, Public, Live
    <2>3. Entry(x, Relations(kind, d, x)) = Entry(x, JoinedToCategory(x))
      BY <1>5 DEF Relations
    <2> QED
      BY <1>5, <2>2, <2>3 DEF IsPublic, Entry, JoinedToCategory, JoinedTo, Nothing
  <1>6. CASE kind = "brands"
    <2>1. RowIs(d, x, FALSE)
      BY <1>6 DEF Selected, SelectedBrands
    <2>2. Public(x)
      BY <1>1, <1>2, <2>1 DEF RowIs, ActiveIs, Public, Live
    <2>3. Entry(x, Relations(kind, d, x)) = Entry(x, Nothing)
      BY <1>6 DEF Relations
    <2> QED
      BY <1>6, <2>2, <2>3 DEF IsPublic, Entry, Nothing
  <1> QED
    BY <1>4, <1>5, <1>6

\* What findById finds for the public is public.
LEMMA FoundIsPublic ==
    ASSUME NEW c \in Call, c.op = "findById", c.kind # "users", c.caller \notin Staff,
           NEW entry \in Found(c.kind, c.id, PublicAccess(c.caller))
    PROVE  IsPublic(c, entry)
  <1>1. PublicAccess(c.caller) /\ c.kind \in {"products", "categories", "brands"}
    BY DEF PublicAccess, Call, Kinds
  <1>2. CASE c.kind = "products"
    <2>1. entry \in FoundProduct(c.id, TRUE)
      BY <1>1, <1>2 DEF Found
    <2> QED
      BY <1>2, <2>1 DEF FoundProduct, Public, JoinedTo, Nothing, Entry, IsPublic
  <1>3. CASE c.kind = "categories"
    <2>1. entry \in FoundCategory(c.id, TRUE)
      BY <1>1, <1>3 DEF Found
    <2> QED
      BY <1>3, <2>1 DEF FoundCategory, Public, Nothing, Entry, IsPublic
  <1>4. CASE c.kind = "brands"
    <2>1. entry \in FoundBrand(c.id, TRUE)
      BY <1>1, <1>4 DEF Found
    <2> QED
      BY <1>4, <2>1 DEF FoundBrand, Public, Nothing, Entry, IsPublic
  <1> QED
    BY <1>1, <1>2, <1>3, <1>4

\* However rows change between the queries of a call, what the public is shown is
\* public at the moment it is read.
THEOREM PublicSeesOnlyPublic == Spec => PublicSeesPublic
  <1> DEFINE Shown == results' # results /\ call.caller \notin Staff =>
                        \A k \in DOMAIN results' : IsPublic(call, results'[k])
  <1>1. ASSUME Types, [Next]_vars
        PROVE  Shown
    <2>1. CASE results' = results \/ results' = <<>>
      BY <2>1
    <2>2. ASSUME stage \in {"page", "entities"}, call.caller \notin Staff,
                 NEW ids \in Seq(Selected(call.kind, dto)), results' = Entries(call.kind, dto, ids)
          PROVE  Shown
      <3>1. /\ call \in Call /\ call.kind \in Kinds /\ call.op = "find"
            /\ ~Refused(call) /\ dto = Dto(call.kind, call.query)
        BY <1>1, <2>2, Finding DEF Types, TypeOK, LetThrough
      <3>2. call.kind \in {"products", "categories", "brands"}
        BY <2>2, <3>1 DEF Refused, GuardRefuses, Kinds
      <3>3. /\ \A f \in ActiveFields("products") : dto.filters[f] = "active"
            /\ \A f \in DeletedFields("products") : dto.filters[f] = "not_deleted"
        BY <2>2, <3>1, NarrowFilters
      <3>4. \A k \in DOMAIN results' : /\ k \in DOMAIN ids /\ ids[k] \in Selected(call.kind, dto)
                                       /\ results'[k] = Entry(ids[k], Relations(call.kind, dto, ids[k]))
        BY <2>2, <3>1, EntriesType DEF Entries
      <3>5. \A x \in Selected(call.kind, dto) : IsPublic(call, Entry(x, Relations(call.kind, dto, x)))
        BY <1>1, <3>1, <3>2, <3>3, NarrowSelects
      <3> QED
        BY <3>4, <3>5
    <2>3. CASE FindPage
      BY <1>1, <2>1, <2>2, <2>3, FindPageTypes DEF FindPage
    <2>4. CASE FindEntities
      BY <1>1, <2>1, <2>2, <2>4, FindEntitiesTypes DEF FindEntities
    <2>5. CASE FindById
      <3>1. ASSUME call.caller \notin Staff,
                   NEW entry \in Found(call.kind, call.id, PublicAccess(call.caller)), results' = <<entry>>
            PROVE  Shown
        <4>1. call \in Call /\ call.op = "findById" /\ ~GuardRefuses(call)
          BY <1>1, <2>5 DEF FindById, Types, TypeOK, LetThrough
        <4>2. call.kind # "users"
          BY <3>1, <4>1 DEF GuardRefuses
        <4>3. IsPublic(call, entry)
          BY <3>1, <4>1, <4>2, FoundIsPublic
        <4> QED
          BY <3>1, <4>3
      <3> QED
        BY <1>1, <2>1, <2>5, <3>1, FindByIdTypes
    <2> HIDE DEF Shown
    <2> QED
      BY <1>1, <2>1, <2>3, <2>4, <2>5
      DEF Next, Arrive, Receive, Count, Answer, Fail, Change, Leave, vars
  <1>2. Types /\ [Next]_vars => [Shown]_vars
    BY <1>1
  <1>3. Spec => [][Shown]_vars
    BY InitTypes, NextTypes, <1>2, PTL DEF Spec
  <1> QED
    BY <1>3 DEF PublicSeesPublic, IsPublic

(***************************************************************************)
(* Answers: counting                                                       *)
(***************************************************************************)

\* A set whose members are all on a list of n is no larger than n.
LEMMA CountAtMost ==
    ASSUME NEW n \in Nat, NEW f, NEW A, \A x \in A : \E k \in 1..n : f[k] = x
    PROVE  IsFiniteSet(A) /\ Cardinality(A) \in Nat /\ Cardinality(A) <= n
  <1> DEFINE place == [x \in A |-> CHOOSE k \in 1..n : f[k] = x]
  <1>1. \A x \in A : place[x] \in 1..n /\ f[place[x]] = x
    OBVIOUS
  <1>2. place \in Injection(A, 1..n)
    <2>1. place \in [A -> 1..n]
      BY <1>1
    <2>2. \A x, y \in A : place[x] = place[y] => x = y
      BY <1>1
    <2> HIDE DEF place
    <2> QED
      BY <2>1, <2>2 DEF Injection, IsInjective
  <1>3. IsFiniteSet(1..n) /\ Cardinality(1..n) = n
    BY FS_Interval
  <1>4. IsFiniteSet(A) /\ Cardinality(A) <= Cardinality(1..n)
    BY <1>2, <1>3, FS_Injection
  <1> QED
    BY <1>3, <1>4, FS_CardinalityType

\* A set that holds n different members of a list is no smaller than n.
LEMMA CountAtLeast ==
    ASSUME NEW n \in Nat, NEW f, NEW A, IsFiniteSet(A),
           \A k \in 1..n : f[k] \in A,
           \A j, k \in 1..n : j # k => f[j] # f[k]
    PROVE  Cardinality(A) \in Nat /\ n <= Cardinality(A)
  <1> DEFINE g == [k \in 1..n |-> f[k]]
  <1>1. g \in Injection(1..n, A)
    <2>1. g \in [1..n -> A]
      OBVIOUS
    <2>2. \A j, k \in 1..n : g[j] = g[k] => j = k
      OBVIOUS
    <2> HIDE DEF g
    <2> QED
      BY <2>1, <2>2 DEF Injection, IsInjective
  <1>2. Cardinality(1..n) = n
    BY FS_Interval
  <1>3. Cardinality(1..n) <= Cardinality(A)
    BY <1>1, FS_Injection
  <1> QED
    BY <1>2, <1>3, FS_CardinalityType

\* An order lists every row of its set once.
LEMMA SortedLists ==
    ASSUME NEW S \in SUBSET Rows, NEW keys, NEW s \in Sorted(S, keys)
    PROVE  /\ Cardinality(S) \in Nat
           /\ s \in [1..Cardinality(S) -> S]
           /\ \A j, k \in 1..Cardinality(S) : j # k => s[j] # s[k]
           /\ \A x \in S : \E k \in 1..Cardinality(S) : s[k] = x
           /\ \A j, k \in 1..Cardinality(S) : j < k => ~Before(s[k], s[j], keys)
  <1> DEFINE N == Cardinality(S)
  <1>1. N \in Nat /\ IsFiniteSet(S)
    BY FiniteRows
  <1>2. /\ s \in [1..N -> S]
        /\ \A j, k \in 1..N : j < k => s[j] # s[k] /\ ~Before(s[k], s[j], keys)
    BY DEF Sorted
  <1>3. \A j, k \in 1..N : j # k => s[j] # s[k]
    <2>1. ASSUME NEW j \in 1..N, NEW k \in 1..N, j # k
          PROVE  s[j] # s[k]
      <3>1. j < k \/ k < j
        BY <1>1, <2>1
      <3> HIDE DEF N
      <3> QED
        BY <1>2, <3>1
    <2> HIDE DEF N
    <2> QED
      BY <2>1
  <1>4. s \in Surjection(1..N, S)
    <2>1. s \in Injection(1..N, S)
      BY <1>2, <1>3 DEF Injection, IsInjective
    <2>2. Cardinality(1..N) = N
      BY <1>1, FS_Interval
    <2> QED
      BY <1>1, <2>1, <2>2, FS_Injection
  <1>5. \A x \in S : \E k \in 1..N : s[k] = x
    BY <1>4 DEF Surjection
  <1> QED
    BY <1>1, <1>2, <1>3, <1>5

LEMMA BeforeIrreflexive ==
    ASSUME rows \in [Rows -> Row], NEW x \in Rows, NEW keys \in Seq(Keys)
    PROVE  ~Before(x, x, keys)
  <1>1. NameOf[x] \in Int
    BY RelationsAssumption
  <1>2. \A k \in DOMAIN keys : Rank(x, keys[k]) \in Int
    BY <1>1 DEF Rank
  <1> QED
    BY <1>2 DEF Before

(***************************************************************************)
(* Answers: the place of every row                                         *)
(***************************************************************************)

\* The rows of a page of S are in their places: as many come before each as its
\* place says.
InPlace(S, d, ids) ==
    LET place(k) == Skip(d) + k
    IN  /\ DOMAIN ids = {k \in 1..d.size : place(k) <= Cardinality(S)}
        /\ \A k \in DOMAIN ids :
             /\ ids[k] \in S
             /\ \A j \in DOMAIN ids : j # k => ids[j] # ids[k]
             /\ Cardinality({y \in S : Before(y, ids[k], d.orderBy)}) < place(k)
             /\ Cardinality({y \in S : ~Before(ids[k], y, d.orderBy)}) >= place(k)

\* A page is a stretch of an order of all rows.
LEMMA PageStretch ==
    ASSUME NEW S \in SUBSET Rows, NEW d, d.page \in Nat \ {0}, d.size \in Nat, NEW ids \in Pages(S, d)
    PROVE  \E s \in Sorted(S, d.orderBy), n \in Nat :
             /\ DOMAIN ids = 1..n
             /\ n > 0 => Skip(d) + n <= Cardinality(S)
             /\ \A k \in 1..n : ids[k] = s[Skip(d) + k]
             /\ 1..n = {k \in 1..d.size : Skip(d) + k <= Cardinality(S)}
  <1> DEFINE skip == Skip(d)
             N == Cardinality(S)
             last(s) == IF skip + d.size < Len(s) THEN skip + d.size ELSE Len(s)
  <1>1. PICK s \in Sorted(S, d.orderBy) : ids = SubSeq(s, skip + 1, last(s))
    BY DEF Pages
  <1>2. s \in Seq(S) /\ Len(s) = N /\ N \in Nat
    BY SortedType, FiniteRows
  <1>3. skip \in Nat
    BY DEF Skip
  <1> DEFINE l == last(s)
             n == IF skip + 1 <= l THEN l - skip ELSE 0
  <1>4. l = IF skip + d.size < N THEN skip + d.size ELSE N
    BY <1>2
  <1> HIDE DEF skip, N, l
  <1>5. l \in Nat /\ l <= N /\ n \in Nat
    BY <1>2, <1>3, <1>4
  <1>6. DOMAIN ids = 1..n /\ \A k \in 1..n : ids[k] = s[skip + k]
    <2>1. \A i \in skip + 1 .. l : s[i] \in S
      BY <1>2, <1>3, <1>5
    <2>2. /\ ids \in Seq(S)
          /\ Len(ids) = IF skip + 1 <= l THEN l - (skip + 1) + 1 ELSE 0
          /\ \A k \in 1 .. l - (skip + 1) + 1 : ids[k] = s[skip + 1 + k - 1]
      <3>1. ids = SubSeq(s, skip + 1, l)
        BY <1>1 DEF skip, l
      <3>2. skip + 1 \in Int /\ l \in Int
        BY <1>3, <1>5
      <3> QED
        BY <2>1, <3>1, <3>2, SubSeqProperties
    <2>3. Len(ids) = n /\ (n = 0 \/ n = l - (skip + 1) + 1)
      BY <1>3, <1>5, <2>2
    <2>4. DOMAIN ids = 1..n
      BY <2>2, <2>3
    <2>5. ASSUME NEW k \in 1..n
          PROVE  ids[k] = s[skip + k]
      <3>1. k \in 1 .. l - (skip + 1) + 1 /\ skip + 1 + k - 1 = skip + k
        BY <1>3, <1>5, <2>3, <2>5
      <3> QED
        BY <2>2, <3>1
    <2> QED
      BY <2>4, <2>5
  <1>7. n > 0 => skip + n <= N
    BY <1>2, <1>3, <1>5
  <1>8. \A k \in 1..d.size : k <= n <=> skip + k <= N
    BY <1>2, <1>3, <1>4, <1>5
  <1>9. n <= d.size
    BY <1>2, <1>3, <1>4, <1>5
  <1>10. 1..n = {k \in 1..d.size : skip + k <= N}
    <2> HIDE DEF n
    <2> QED
      BY <1>5, <1>8, <1>9
  <1> HIDE DEF n
  <1> QED
    BY <1>5, <1>6, <1>7, <1>10 DEF skip, N

\* The rows of a page, in the order they come in when they are read again by
\* their ids, are in their places: of rows that are equal in all keys, the second
\* query may choose another order than the first.
LEMMA ReadAgain ==
    ASSUME rows \in [Rows -> Row], NEW S \in SUBSET Rows,
           NEW d, d.page \in Nat \ {0}, d.size \in Nat, d.orderBy \in Seq(Keys),
           NEW first \in Pages(S, d),
           NEW ids \in Sorted({first[k] : k \in DOMAIN first}, d.orderBy)
    PROVE  InPlace(S, d, ids)
  <1> DEFINE skip == Skip(d)
             N == Cardinality(S)
             T == {first[k] : k \in DOMAIN first}
             keys == d.orderBy
  <1>1. PICK s \in Sorted(S, keys), n \in Nat :
          /\ DOMAIN first = 1..n
          /\ n > 0 => skip + n <= N
          /\ \A k \in 1..n : first[k] = s[skip + k]
          /\ 1..n = {k \in 1..d.size : skip + k <= N}
    BY PageStretch
  <1>2. skip \in Nat
    BY DEF Skip
  <1>3. /\ N \in Nat /\ IsFiniteSet(S)
        /\ s \in [1..N -> S]
        /\ \A j, k \in 1..N : j # k => s[j] # s[k]
        /\ \A x \in S : \E k \in 1..N : s[k] = x
        /\ \A j, k \in 1..N : j < k => ~Before(s[k], s[j], keys)
    <2> HIDE DEF skip, T, keys
    <2> QED
      BY SortedLists, FiniteRows
  <1> HIDE DEF skip, N
  <1>4. \A k \in 1..n : skip + k \in 1..N
    BY <1>1, <1>2, <1>3
  <1>5. T \subseteq S /\ T \in SUBSET Rows
    BY <1>1, <1>3, <1>4
  <1>6. \A j, k \in 1..n : j # k => first[j] # first[k]
    <2>1. ASSUME NEW j \in 1..n, NEW k \in 1..n, j # k
          PROVE  first[j] # first[k]
      <3>1. skip + j # skip + k
        BY <1>2, <2>1
      <3> QED
        BY <1>1, <1>3, <1>4, <3>1
    <2> QED
      BY <2>1
  <1>7. Cardinality(T) = n
    <2>1. IsFiniteSet(T) /\ Cardinality(T) \in Nat /\ Cardinality(T) <= n
      <3>1. \A x \in T : \E k \in 1..n : first[k] = x
        BY <1>1
      <3> HIDE DEF T
      <3> QED
        BY <3>1, CountAtMost
    <2>2. n <= Cardinality(T)
      <3>1. \A k \in 1..n : first[k] \in T
        BY <1>1
      <3> HIDE DEF T
      <3> QED
        BY <1>6, <2>1, <3>1, CountAtLeast
    <2> HIDE DEF T
    <2> QED
      BY <2>1, <2>2
  <1>8. \A x \in T : \E p \in 1..n : x = s[skip + p]
    BY <1>1
  <1>9. \A p \in 1..n : s[skip + p] \in T
    BY <1>1
  <1>10. ids \in Sorted(T, keys)
    OBVIOUS
  <1> HIDE DEF T, keys
  <1>11. /\ ids \in [1..n -> T]
         /\ \A j, k \in 1..n : j # k => ids[j] # ids[k]
         /\ \A x \in T : \E k \in 1..n : ids[k] = x
         /\ \A j, k \in 1..n : j < k => ~Before(ids[k], ids[j], keys)
    BY <1>5, <1>7, <1>10, SortedLists
  <1>12. \A x \in S : ~Before(x, x, keys)
    BY BeforeIrreflexive DEF keys
  \* The rows before the page and then those of the page.
  <1> DEFINE f == [i \in 1..(skip + n) |-> IF i <= skip THEN s[i] ELSE ids[i - skip]]
  <1>13. \A i \in 1..(skip + n) : f[i] = IF i <= skip THEN s[i] ELSE ids[i - skip]
    OBVIOUS
  <1> HIDE DEF f
  <1>14. ASSUME NEW k \in 1..n
         PROVE  /\ Cardinality({y \in S : Before(y, ids[k], keys)}) < skip + k
                /\ Cardinality({y \in S : ~Before(ids[k], y, keys)}) >= skip + k
    <2> DEFINE x == ids[k]
               A == {y \in S : Before(y, x, keys)}
               B == {y \in S : ~Before(x, y, keys)}
    <2>1. PICK p \in 1..n : x = s[skip + p]
      BY <1>8, <1>11
    <2>2. x \in S /\ skip + p \in 1..N
      BY <1>4, <1>5, <1>11
    <2>3. ASSUME NEW y \in A
          PROVE  \E i \in 1..(skip + k - 1) : f[i] = y
      <3>1. y \in S /\ Before(y, x, keys)
        OBVIOUS
      <3>2. PICK q \in 1..N : s[q] = y
        BY <1>3, <3>1
      <3> HIDE DEF A, B
      <3>3. q <= skip + p
        <4>1. q \in Nat /\ skip + p \in Nat
          BY <1>2, <1>3
        <4>2. ~(skip + p < q)
          BY <1>3, <2>1, <2>2, <3>1, <3>2
        <4> QED
          BY <4>1, <4>2
      <3>4. CASE q <= skip
        <4>1. q \in 1..(skip + k - 1) /\ q \in 1..(skip + n)
          BY <1>2, <1>3, <3>4
        <4> QED
          BY <1>13, <3>2, <3>4, <4>1
      <3>5. CASE ~(q <= skip)
        <4>1. q - skip \in 1..n /\ skip + (q - skip) = q
          BY <1>2, <1>3, <3>3, <3>5
        <4>2. y \in T
          BY <1>9, <3>2, <4>1
        <4>3. PICK m \in 1..n : ids[m] = y
          BY <1>11, <4>2
        <4>4. ~(k < m) /\ m # k
          BY <1>11, <1>12, <2>2, <3>1, <4>3
        <4>5. m < k
          BY <4>4
        <4>6. /\ skip + m \in 1..(skip + k - 1) /\ skip + m \in 1..(skip + n)
              /\ ~(skip + m <= skip) /\ skip + m - skip = m
          BY <1>2, <4>5
        <4>7. f[skip + m] = ids[skip + m - skip]
          BY <1>2, <1>13, <4>6
        <4> QED
          BY <4>3, <4>6, <4>7
      <3> QED
        BY <3>4, <3>5
    <2>4. ASSUME NEW i \in 1..(skip + k)
          PROVE  f[i] \in B
      <3>1. i \in 1..(skip + n)
        BY <1>2
      <3>2. CASE i <= skip
        <4>1. i \in 1..N /\ i < skip + p
          BY <1>2, <1>3, <2>2, <3>2
        <4>2. f[i] = s[i] /\ s[i] \in S
          BY <1>3, <1>13, <3>1, <3>2, <4>1
        <4>3. ~Before(x, s[i], keys)
          BY <1>3, <2>1, <2>2, <4>1
        <4> QED
          BY <4>2, <4>3
      <3>3. CASE ~(i <= skip)
        <4>1. i - skip \in 1..n /\ (i - skip < k \/ i - skip = k)
          BY <1>2, <3>1, <3>3
        <4>2. f[i] = ids[i - skip] /\ ids[i - skip] \in S
          BY <1>5, <1>11, <1>13, <3>1, <3>3, <4>1
        <4>3. ~Before(x, ids[i - skip], keys)
          BY <1>11, <1>12, <2>2, <4>1
        <4> QED
          BY <4>2, <4>3
      <3> QED
        BY <3>2, <3>3
    <2>5. \A i, j \in 1..(skip + k) : i # j => f[i] # f[j]
      <3>1. ASSUME NEW i \in 1..(skip + n), NEW j \in 1..(skip + n), i < j
            PROVE  f[i] # f[j]
        <4>1. CASE j <= skip
          <5>1. i <= skip /\ i \in 1..N /\ j \in 1..N /\ i # j
            BY <1>2, <1>3, <2>2, <3>1, <4>1
          <5> QED
            BY <1>3, <1>13, <4>1, <5>1
        <4>2. CASE i <= skip /\ ~(j <= skip)
          <5>1. i \in 1..N /\ j - skip \in 1..n
            BY SMTT(30), <1>2, <1>3, <2>2, <3>1, <4>2
          <5>2. PICK r \in 1..n : ids[j - skip] = s[skip + r]
            BY <1>8, <1>11, <5>1
          <5>3. skip + r \in 1..N
            BY <1>4
          <5>4. i # skip + r
            BY <1>2, <4>2
          <5> QED
            BY <1>3, <1>13, <4>2, <5>1, <5>2, <5>3, <5>4
        <4>3. CASE ~(i <= skip)
          <5>1. ~(j <= skip) /\ i - skip \in 1..n /\ j - skip \in 1..n /\ i - skip # j - skip
            BY <1>2, <3>1, <4>3
          <5> QED
            BY <1>11, <1>13, <4>3, <5>1
        <4> QED
          BY <4>1, <4>2, <4>3
      <3>2. ASSUME NEW i \in 1..(skip + k), NEW j \in 1..(skip + k), i # j
            PROVE  f[i] # f[j]
        <4>1. i \in 1..(skip + n) /\ j \in 1..(skip + n) /\ (i < j \/ j < i)
          BY <1>2, <3>2
        <4> QED
          BY <3>1, <4>1
      <3> QED
        BY <3>2
    <2>6. IsFiniteSet(B)
      BY <1>3, FS_Subset
    <2>7. skip + k \in Nat /\ skip + k - 1 \in Nat
      BY <1>2
    <2> HIDE DEF A, B
    <2>8. Cardinality(A) \in Nat /\ Cardinality(A) <= skip + k - 1
      BY ZenonT(30), <2>3, <2>7, CountAtMost
    <2>9. Cardinality(B) \in Nat /\ skip + k <= Cardinality(B)
      BY <2>4, <2>5, <2>6, <2>7, CountAtLeast
    <2>10. \A a, b \in Nat : a <= skip + k - 1 /\ skip + k <= b => a < skip + k /\ b >= skip + k
      BY <1>2
    <2>11. Cardinality(A) < skip + k /\ Cardinality(B) >= skip + k
      BY <2>8, <2>9, <2>10
    <2> QED
      BY <2>11 DEF A, B
  <1>15. DOMAIN ids = 1..n
    BY <1>11
  <1>16. \A k \in 1..n : ids[k] \in S
    BY <1>5, <1>11
  <1> QED
    BY <1>1, <1>11, <1>14, <1>15, <1>16 DEF InPlace, skip, N, keys

\* A page comes in an order that its rows may come in.
LEMMA PageSorted ==
    ASSUME NEW S \in SUBSET Rows, NEW d, d.page \in Nat \ {0}, d.size \in Nat, NEW ids \in Pages(S, d)
    PROVE  ids \in Sorted({ids[k] : k \in DOMAIN ids}, d.orderBy)
  <1> DEFINE skip == Skip(d)
             N == Cardinality(S)
             T == {ids[k] : k \in DOMAIN ids}
  <1>1. PICK s \in Sorted(S, d.orderBy), n \in Nat :
          /\ DOMAIN ids = 1..n
          /\ n > 0 => skip + n <= N
          /\ \A k \in 1..n : ids[k] = s[skip + k]
          /\ 1..n = {k \in 1..d.size : skip + k <= N}
    <2> HIDE DEF T
    <2> QED
      BY PageStretch
  <1>2. skip \in Nat
    BY DEF Skip
  <1>3. /\ N \in Nat
        /\ s \in [1..N -> S]
        /\ \A j, k \in 1..N : j # k => s[j] # s[k]
        /\ \A j, k \in 1..N : j < k => ~Before(s[k], s[j], d.orderBy)
    BY SortedLists
  <1> HIDE DEF skip, N
  <1>4. \A k \in 1..n : skip + k \in 1..N
    BY <1>1, <1>2, <1>3
  <1>5. ASSUME NEW j \in 1..n, NEW k \in 1..n, j < k
        PROVE  ids[j] # ids[k] /\ ~Before(ids[k], ids[j], d.orderBy)
    <2>1. skip + j < skip + k /\ skip + j # skip + k
      BY <1>2, <1>5
    <2> QED
      BY <1>1, <1>3, <1>4, <2>1
  <1>6. \A k \in 1..n : ids[k] \in T
    BY <1>1
  <1>7. Cardinality(T) = n
    <2>1. \A x \in T : \E k \in 1..n : ids[k] = x
      BY <1>1
    <2>2. \A j, k \in 1..n : j # k => ids[j] # ids[k]
      <3>1. \A j, k \in 1..n : j # k => j < k \/ k < j
        OBVIOUS
      <3> QED
        BY <1>5, <3>1
    <2> HIDE DEF T
    <2>3. IsFiniteSet(T) /\ Cardinality(T) \in Nat /\ Cardinality(T) <= n
      BY <2>1, CountAtMost
    <2>4. n <= Cardinality(T)
      BY <1>6, <2>2, <2>3, CountAtLeast
    <2> QED
      BY <2>3, <2>4
  <1>8. T \subseteq S
    BY <1>1, <1>3, <1>4
  <1>9. ids \in [1..n -> T]
    <2>1. ids = [k \in 1..n |-> ids[k]]
      <3>1. ids \in Seq(S)
        BY PagesType
      <3> QED
        BY <1>1, <3>1
    <2> HIDE DEF T
    <2> QED
      BY <1>6, <2>1
  <1> HIDE DEF T
  <1> QED
    BY <1>1, <1>5, <1>7, <1>8, <1>9 DEF Sorted, T

(***************************************************************************)
(* Answers: what is selected is what is asked for                          *)
(***************************************************************************)

\* A product that is asked for or selected is joined to its brand and category,
\* unless the query is one of those that are answered differently.
LEMMA ProductsAreJoined ==
    ASSUME Types, NEW d \in Dtos, ~AnsweredDifferently("products", d), NEW x \in Products,
           x \in Selected("products", d) \/ x \in Wanted("products", d)
    PROVE  /\ JoinedToProduct(d, x).brand = BrandOf[x]
           /\ JoinedToProduct(d, x).category = CategoryOf[x]
  <1> DEFINE joined == JoinedToProduct(d, x)
             brands == Wide(d.filters.deletedBrands)
             categories == brands \/ Wide(d.filters.deletedCategories)
  <1>1. joined.brand = JoinedTo(BrandOf[x], brands) /\ joined.category = JoinedTo(CategoryOf[x], categories)
    BY DEF JoinedToProduct
  <1>2. /\ d.filters.deletedBrands \in DeletedValues /\ d.filters.deletedCategories \in DeletedValues
        /\ d.brandIds \subseteq Rows /\ d.categoryIds \subseteq Rows
    <2>1. d.filters \in Filters /\ d.brandIds \in SUBSET Rows /\ d.categoryIds \in SUBSET Rows
      BY DEF Dtos
    <2>2. "deletedBrands" \in DeletedFields("products") /\ "deletedCategories" \in DeletedFields("products")
      BY DEF DeletedFields
    <2> QED
      BY <2>1, <2>2 DEF Filters
  <1>3. None \notin Rows
    BY RelationsAssumption
  <1>4. /\ ~brands => d.filters.deletedBrands = "not_deleted"
        /\ ~categories => d.filters.deletedCategories = "not_deleted"
    BY <1>2 DEF Wide, DeletedValues
  <1>5. /\ ~brands => d.filters.activeBrands # "all" \/ d.brandIds # {}
        /\ ~categories => d.filters.activeCategories # "all" \/ d.categoryIds # {}
    BY <1>4 DEF AnsweredDifferently, DeletedCountAsNot
  <1>6. BrandOf[x] # None /\ CategoryOf[x] # None
    BY <1>3, RelationsAssumption DEF Rows
  <1>7. CASE x \in Wanted("products", d)
    <2>1. /\ ~brands => ~rows[BrandOf[x]].deleted
          /\ ~categories => ~rows[CategoryOf[x]].deleted
      BY <1>4, <1>7 DEF Wanted, Matches
    <2> HIDE DEF joined, brands, categories
    <2> QED
      BY <1>1, <1>6, <2>1 DEF JoinedTo, Live, joined
  <1>8. CASE x \in Selected("products", d)
    <2>1. /\ ActiveIs(joined.brand, d.filters.activeBrands)
          /\ ActiveIs(joined.category, d.filters.activeCategories)
          /\ d.brandIds # {} => joined.brand \in d.brandIds
          /\ d.categoryIds # {} => joined.category \in d.categoryIds
      BY <1>8 DEF Selected, SelectedProducts
    <2> HIDE DEF joined, brands, categories
    <2>2. ~brands => joined.brand # None
      BY <1>2, <1>3, <1>5, <2>1 DEF ActiveIs
    <2>3. ~categories => joined.category # None
      BY <1>2, <1>3, <1>5, <2>1 DEF ActiveIs
    <2> QED
      BY <1>1, <2>2, <2>3 DEF JoinedTo, joined
  <1> QED
    BY <1>7, <1>8

\* The conditions on the rows themselves.
LEMMA RowsMatch ==
    ASSUME Types, NEW d \in Dtos, NEW x \in Rows, NEW wide \in BOOLEAN,
           wide => d.filters.deleted # "not_deleted"
    PROVE  RowIs(d, x, wide) <=> /\ d.text => x \in Matching
                                 /\ Matches(x, d.filters.active, d.filters.deleted)
  <1>1. d.filters.active \in ActiveValues /\ d.filters.deleted \in DeletedValues
    <2>1. d.filters \in Filters
      BY DEF Dtos
    <2>2. "active" \in ActiveFields("products") /\ "deleted" \in DeletedFields("products")
      BY DEF ActiveFields, DeletedFields
    <2> QED
      BY <2>1, <2>2 DEF Filters
  <1>2. x # None /\ rows[x].active \in BOOLEAN /\ rows[x].deleted \in BOOLEAN
    BY RelationsAssumption DEF Types, TypeOK, Row
  <1>3. ActiveIs(x, d.filters.active) <=>
          (d.filters.active # "all" => rows[x].active = (d.filters.active = "active"))
    BY <1>2 DEF ActiveIs
  <1>4. (\/ d.filters.deleted = "all"
         \/ d.filters.deleted = "deleted" /\ rows[x].deleted
         \/ d.filters.deleted = "not_deleted" /\ (wide \/ ~rows[x].deleted))
        <=> (d.filters.deleted # "all" => rows[x].deleted = (d.filters.deleted = "deleted"))
    BY <1>1, <1>2 DEF DeletedValues
  <1> QED
    BY <1>3, <1>4 DEF RowIs, Matches

LEMMA SelectedIsWanted ==
    ASSUME Types, NEW kind \in Kinds, NEW d \in Dtos, ~AnsweredDifferently(kind, d)
    PROVE  Selected(kind, d) = Wanted(kind, d)
  <1>1. CASE kind = "products"
    <2> DEFINE wide == Wide(d.filters.deletedBrands) \/ Wide(d.filters.deletedCategories)
    <2>1. wide \in BOOLEAN /\ (wide => d.filters.deleted # "not_deleted")
      BY <1>1 DEF AnsweredDifferently, DeletedComeAlong
    <2>2. /\ d.filters.deletedBrands \in DeletedValues /\ d.filters.deletedCategories \in DeletedValues
      <3>1. d.filters \in Filters
        BY DEF Dtos
      <3>2. "deletedBrands" \in DeletedFields("products") /\ "deletedCategories" \in DeletedFields("products")
        BY DEF DeletedFields
      <3> QED
        BY <3>1, <3>2 DEF Filters
    <2>3. ASSUME NEW y \in Rows, NEW active, NEW deleted \in DeletedValues
          PROVE  ActiveIs(y, active) /\ DeletedIs(y, deleted) <=> Matches(y, active, deleted)
      <3>1. y # None /\ rows[y].active \in BOOLEAN /\ rows[y].deleted \in BOOLEAN
        BY RelationsAssumption DEF Types, TypeOK, Row
      <3>2. ActiveIs(y, active) <=> (active # "all" => rows[y].active = (active = "active"))
        BY <3>1 DEF ActiveIs
      <3>3. DeletedIs(y, deleted) <=> (deleted # "all" => rows[y].deleted = (deleted = "deleted"))
        BY <3>1 DEF DeletedIs, DeletedValues
      <3> QED
        BY <3>2, <3>3 DEF Matches
    <2>4. ASSUME NEW x \in Products, x \in Selected(kind, d) \/ x \in Wanted(kind, d)
          PROVE  x \in Selected(kind, d) <=> x \in Wanted(kind, d)
      <3> DEFINE joined == JoinedToProduct(d, x)
      <3>1. joined.brand = BrandOf[x] /\ joined.category = CategoryOf[x]
        BY <1>1, <2>4, ProductsAreJoined
      <3>2. x \in Rows /\ BrandOf[x] \in Rows /\ CategoryOf[x] \in Rows
        BY RelationsAssumption DEF Rows
      <3>3. x \in Selected(kind, d) <=>
              /\ RowIs(d, x, wide)
              /\ ActiveIs(joined.brand, d.filters.activeBrands)
              /\ ActiveIs(joined.category, d.filters.activeCategories)
              /\ DeletedIs(joined.brand, d.filters.deletedBrands)
              /\ DeletedIs(joined.category, d.filters.deletedCategories)
              /\ d.brandIds # {} => joined.brand \in d.brandIds
              /\ d.categoryIds # {} => joined.category \in d.categoryIds
        BY <1>1 DEF Selected, SelectedProducts
      <3>4. x \in Wanted(kind, d) <=>
              /\ d.text => x \in Matching
              /\ Matches(x, d.filters.active, d.filters.deleted)
              /\ Matches(BrandOf[x], d.filters.activeBrands, d.filters.deletedBrands)
              /\ Matches(CategoryOf[x], d.filters.activeCategories, d.filters.deletedCategories)
              /\ d.brandIds # {} => BrandOf[x] \in d.brandIds
              /\ d.categoryIds # {} => CategoryOf[x] \in d.categoryIds
        BY <1>1 DEF Wanted, RowsOf
      <3> HIDE DEF joined, wide
      <3>5. RowIs(d, x, wide) <=> (d.text => x \in Matching) /\ Matches(x, d.filters.active, d.filters.deleted)
        BY <2>1, <3>2, RowsMatch
      <3>6. ActiveIs(BrandOf[x], d.filters.activeBrands) /\ DeletedIs(BrandOf[x], d.filters.deletedBrands)
              <=> Matches(BrandOf[x], d.filters.activeBrands, d.filters.deletedBrands)
        BY <2>2, <2>3, <3>2
      <3>7. ActiveIs(CategoryOf[x], d.filters.activeCategories) /\ DeletedIs(CategoryOf[x], d.filters.deletedCategories)
              <=> Matches(CategoryOf[x], d.filters.activeCategories, d.filters.deletedCategories)
        BY <2>2, <2>3, <3>2
      <3> QED
        BY <3>1, <3>3, <3>4, <3>5, <3>6, <3>7
    <2>5. Selected(kind, d) \subseteq Products /\ Wanted(kind, d) \subseteq Products
      BY <1>1 DEF Selected, SelectedProducts, Wanted, RowsOf
    <2> QED
      BY <2>4, <2>5
  <1>2. CASE kind = "categories"
    <2>1. ASSUME NEW x \in Categories
          PROVE  ParentIs(d, x) <=> (d.parentIds # {} => ParentOf[x] \in d.parentIds)
      <3> DEFINE ids == d.parentIds \ {None}
                 parent == JoinedToCategory(x).parent
      <3>1. parent = JoinedTo(ParentOf[x], FALSE)
        BY DEF JoinedToCategory
      <3>2. None \in d.parentIds => \A y \in ids : ~rows[y].deleted
        BY <1>2 DEF AnsweredDifferently, DeletedParentsAreLost
      <3>3. CASE d.parentIds = {} \/ ids = {} \/ None \notin d.parentIds
        BY <3>3 DEF ParentIs
      <3>4. CASE ids # {} /\ None \in d.parentIds
        <4>1. ParentIs(d, x) <=> parent \in ids \/ ParentOf[x] = None
          BY <3>4 DEF ParentIs
        <4>2. parent \in ids => ParentOf[x] \in ids
          BY <3>1 DEF JoinedTo
        <4>3. ParentOf[x] \in ids => parent \in ids
          BY <3>1, <3>2, <3>4 DEF JoinedTo, Live
        <4> HIDE DEF parent
        <4> QED
          BY <3>4, <4>1, <4>2, <4>3
      <3> QED
        BY <3>3, <3>4
    <2>2. ASSUME NEW x \in Categories
          PROVE  x \in Selected(kind, d) <=> x \in Wanted(kind, d)
      <3>1. RowIs(d, x, FALSE) <=> (d.text => x \in Matching) /\ Matches(x, d.filters.active, d.filters.deleted)
        BY RowsMatch DEF Rows
      <3>2. x \in Selected(kind, d) <=> RowIs(d, x, FALSE) /\ ParentIs(d, x)
        BY <1>2 DEF Selected, SelectedCategories
      <3>3. x \in Wanted(kind, d) <=> /\ d.text => x \in Matching
                                      /\ Matches(x, d.filters.active, d.filters.deleted)
                                      /\ d.parentIds # {} => ParentOf[x] \in d.parentIds
        BY <1>2 DEF Wanted, RowsOf
      <3> QED
        BY <2>1, <3>1, <3>2, <3>3
    <2>3. Selected(kind, d) \subseteq Categories /\ Wanted(kind, d) \subseteq Categories
      BY <1>2 DEF Selected, SelectedCategories, Wanted, RowsOf
    <2> QED
      BY <2>2, <2>3
  <1>3. ASSUME kind \in {"brands", "users"}
        PROVE  Selected(kind, d) = Wanted(kind, d)
    <2>1. Selected(kind, d) = {x \in RowsOf(kind) : RowIs(d, x, FALSE)}
      BY <1>3 DEF Selected, SelectedBrands, SelectedUsers, RowsOf
    <2>2. Wanted(kind, d) = {x \in RowsOf(kind) : /\ d.text => x \in Matching
                                                  /\ Matches(x, d.filters.active, d.filters.deleted)}
      BY <1>3 DEF Wanted
    <2>3. \A x \in RowsOf(kind) : x \in Rows
      BY DEF RowsOf, Rows, Kinds
    <2>4. \A x \in RowsOf(kind) : RowIs(d, x, FALSE) <=> /\ d.text => x \in Matching
                                                         /\ Matches(x, d.filters.active, d.filters.deleted)
      BY <2>3, RowsMatch
    <2> QED
      BY <2>1, <2>2, <2>4
  <1> QED
    BY <1>1, <1>2, <1>3 DEF Kinds

(***************************************************************************)
(* Answers: the queries of a call                                          *)
(***************************************************************************)

Shown == [k \in DOMAIN results |-> results[k].row]

\* What has been read is what a page of the tables holds, as long as they stay
\* what they were when the page was read.
Reading ==
    stage \in {"entities", "count", "answered"} /\ call.op = "find" =>
      LET S == Selected(call.kind, dto)
      IN  /\ dto \in Dtos
          /\ stable =>
               /\ stage = "entities" => page \in Pages(S, dto)
               /\ stage # "entities" => InPlace(S, dto, Shown) /\ results = Entries(call.kind, dto, Shown)
               /\ stage = "answered" => total = Cardinality(S)

ReadingInv == Types /\ Reading

\* As long as the tables stay the same, so does what they answer.
LEMMA SameTables ==
    ASSUME UNCHANGED <<rows, call, dto>>
    PROVE  /\ Selected(call.kind, dto)' = Selected(call.kind, dto)
           /\ \A x, y : Before(x, y, dto.orderBy)' = Before(x, y, dto.orderBy)
           /\ \A x : Relations(call.kind, dto, x)' = Relations(call.kind, dto, x)
  <1>1. \A x, wide : JoinedTo(x, wide)' = JoinedTo(x, wide)
    BY DEF JoinedTo, Live
  <1>2. \A x, wide : RowIs(dto, x, wide)' = RowIs(dto, x, wide)
    BY DEF RowIs, ActiveIs
  <1>3. \A x : JoinedToProduct(dto, x)' = JoinedToProduct(dto, x)
    <2>1. ASSUME NEW x, NEW wide
          PROVE  {i \in MainImages : ImageOf[i] = x /\ JoinedTo(i, wide) # None}'
                   = {i \in MainImages : ImageOf[i] = x /\ JoinedTo(i, wide) # None}
      BY <1>1
    <2> QED
      BY <1>1, <2>1 DEF JoinedToProduct
  <1>4. \A x : JoinedToCategory(x)' = JoinedToCategory(x)
    BY <1>1 DEF JoinedToCategory
  <1>5. SelectedProducts(dto)' = SelectedProducts(dto)
    <2>1. \A x, filter : ActiveIs(x, filter)' = ActiveIs(x, filter) /\ DeletedIs(x, filter)' = DeletedIs(x, filter)
      BY DEF ActiveIs, DeletedIs
    <2> QED
      BY <1>2, <1>3, <2>1 DEF SelectedProducts
  <1>6. \A x : ParentIs(dto, x)' = ParentIs(dto, x)
    BY <1>4 DEF ParentIs
  <1>7. SelectedCategories(dto)' = SelectedCategories(dto)
    BY <1>2, <1>6 DEF SelectedCategories
  <1>8. SelectedBrands(dto)' = SelectedBrands(dto) /\ SelectedUsers(dto)' = SelectedUsers(dto)
    BY <1>2 DEF SelectedBrands, SelectedUsers
  <1>9. Selected(call.kind, dto)' = Selected(call.kind, dto)
    BY <1>5, <1>7, <1>8 DEF Selected
  <1>10. \A x, y : Before(x, y, dto.orderBy)' = Before(x, y, dto.orderBy)
    <2>1. \A x, key : Rank(x, key)' = Rank(x, key)
      BY DEF Rank
    <2> QED
      BY <2>1 DEF Before
  <1>11. \A x : Relations(call.kind, dto, x)' = Relations(call.kind, dto, x)
    BY <1>3, <1>4 DEF Relations
  <1> QED
    BY <1>9, <1>10, <1>11

\* Rows that are in their places stay there.
LEMMA SamePlaces ==
    ASSUME UNCHANGED <<rows, call, dto>>, NEW ids, Shown' = ids
    PROVE  /\ InPlace(Selected(call.kind, dto), dto, ids) => InPlace(Selected(call.kind, dto), dto, Shown)'
           /\ results' = Entries(call.kind, dto, ids) => (results = Entries(call.kind, dto, Shown))'
  <1> DEFINE S == Selected(call.kind, dto)
  <1>1. S' = S
    BY SameTables
  <1>2. ASSUME InPlace(S, dto, ids)
        PROVE  InPlace(S, dto, Shown)'
    <2>1. \A x : {y \in S : Before(y, x, dto.orderBy)}' = {y \in S : Before(y, x, dto.orderBy)}
      BY <1>1, SameTables
    <2>2. \A x : {y \in S : ~Before(x, y, dto.orderBy)}' = {y \in S : ~Before(x, y, dto.orderBy)}
      BY <1>1, SameTables
    <2>3. Skip(dto)' = Skip(dto)
      BY DEF Skip
    <2> HIDE DEF S
    <2> QED
      BY <1>1, <1>2, <2>1, <2>2, <2>3 DEF InPlace
  <1>3. ASSUME results' = Entries(call.kind, dto, ids)
        PROVE  (results = Entries(call.kind, dto, Shown))'
    BY <1>3, SameTables DEF Entries
  <1> QED
    BY <1>2, <1>3

\* The rows of entries are those the entries were made of.
LEMMA RowsOfEntries ==
    ASSUME NEW ids \in Seq(Rows), results' = Entries(call.kind, dto, ids)
    PROVE  Shown' = ids
  <1>1. DOMAIN results' = DOMAIN ids /\ \A k \in DOMAIN ids : results'[k].row = ids[k]
    BY DEF Entries, Entry
  <1>2. Shown' = [k \in DOMAIN ids |-> ids[k]]
    BY <1>1 DEF Shown
  <1> QED
    BY <1>2

\* Entries of rows in their places are what is to be read.
LEMMA ReadingEntries ==
    ASSUME UNCHANGED <<rows, call, dto>>, dto \in Dtos, NEW ids \in Seq(Rows), stage' = "count",
           results' = Entries(call.kind, dto, ids),
           stable' => InPlace(Selected(call.kind, dto), dto, ids)
    PROVE  Reading'
  <1>1. Shown' = ids
    BY RowsOfEntries
  <1> QED
    BY <1>1, SamePlaces DEF Reading

LEMMA FindPageReading ==
    ASSUME ReadingInv, FindPage
    PROVE  Reading'
  <1> DEFINE S == Selected(call.kind, dto)
  <1>1. /\ stage = "page" /\ UNCHANGED <<rows, call, dto>>
        /\ call.op = "find" /\ dto \in Dtos /\ dto.page \in Nat \ {0} /\ dto.size \in Nat
        /\ dto.orderBy \in Seq(Keys) /\ S \in SUBSET Rows /\ rows \in [Rows -> Row]
    BY Finding DEF FindPage, ReadingInv, Types, TypeOK, Dtos
  <1>2. PICK ids \in Pages(S, dto) :
           IF Joins(call.kind) /\ ids # <<>>
           THEN page' = ids /\ stage' = "entities" /\ UNCHANGED results
           ELSE results' = Entries(call.kind, dto, ids) /\ stage' = "count" /\ UNCHANGED page
    BY DEF FindPage
  <1>3. CASE page' = ids /\ stage' = "entities"
    <2>1. S' = S /\ (\A x, y : Before(x, y, dto.orderBy)' = Before(x, y, dto.orderBy))
      BY <1>1, SameTables
    <2>2. Sorted(S, dto.orderBy)' = Sorted(S, dto.orderBy)
      BY <1>1, <2>1 DEF Sorted
    <2>3. Pages(S, dto)' = Pages(S, dto)
      BY <1>1, <2>2 DEF Pages, Skip
    <2> QED
      BY <1>1, <1>2, <1>3, <2>3 DEF Reading
  <1>4. CASE results' = Entries(call.kind, dto, ids) /\ stage' = "count"
    <2>1. InPlace(S, dto, ids)
      BY <1>1, PageSorted, ReadAgain
    <2>2. ids \in Seq(S)
      BY <1>1, PagesType
    <2>3. ids \in Seq(Rows)
      BY <1>1, <2>2
    <2> QED
      BY <1>1, <1>4, <2>1, <2>3, ReadingEntries
  <1> QED
    BY <1>2, <1>3, <1>4

LEMMA FindEntitiesReading ==
    ASSUME ReadingInv, FindEntities
    PROVE  Reading'
  <1> DEFINE S == Selected(call.kind, dto)
             T == {page[k] : k \in DOMAIN page}
  <1>1. /\ stage = "entities" /\ stage' = "count" /\ UNCHANGED <<rows, call, dto, page, stable>>
        /\ call.op = "find" /\ dto \in Dtos /\ dto.page \in Nat \ {0} /\ dto.size \in Nat
        /\ dto.orderBy \in Seq(Keys) /\ S \in SUBSET Rows /\ rows \in [Rows -> Row]
    BY Finding DEF FindEntities, ReadingInv, Types, TypeOK, Dtos
  <1>2. PICK ids \in Sorted(S \cap T, dto.orderBy) : results' = Entries(call.kind, dto, ids)
    BY DEF FindEntities
  <1>3. ids \in Seq(Rows)
    <2>1. S \cap T \in SUBSET Rows
      BY <1>1
    <2> HIDE DEF S, T
    <2>2. ids \in Seq(S \cap T)
      BY <2>1, SortedType
    <2> QED
      BY <2>1, <2>2
  <1>4. ASSUME stable
        PROVE  InPlace(S, dto, ids)
    <2>1. page \in Pages(S, dto)
      BY <1>1, <1>4 DEF ReadingInv, Reading
    <2> HIDE DEF S
    <2>2. T \subseteq S
      <3>1. page \in Seq(S)
        BY <1>1, <2>1, PagesType
      <3> QED
        BY <3>1
    <2>3. S \cap T = T
      BY <2>2
    <2>4. ids \in Sorted({page[k] : k \in DOMAIN page}, dto.orderBy)
      BY <2>3
    <2> HIDE DEF T
    <2> QED
      BY <1>1, <2>1, <2>4, ReadAgain
  <1> HIDE DEF T
  <1> QED
    BY <1>1, <1>2, <1>3, <1>4, ReadingEntries

\* The count is that of the rows selected, whether it is a query's or is taken
\* from a page that is not full.
LEMMA CountReading ==
    ASSUME ReadingInv, Count
    PROVE  Reading'
  <1> DEFINE S == Selected(call.kind, dto)
             n == Len(results)
             N == Cardinality(S)
  <1>1. /\ stage = "count" /\ stage' = "answered"
        /\ UNCHANGED <<rows, changes, call, dto, page, results, stable>>
        /\ call.op = "find" /\ dto \in Dtos /\ dto.page \in Nat \ {0} /\ dto.size \in Nat
        /\ S \in SUBSET Rows /\ results \in Seq(EntriesOf)
    BY Finding DEF Count, ReadingInv, Types, TypeOK
  <1>2. S' = S
    BY <1>1, SameTables
  <1>3. ASSUME stable
        PROVE  /\ InPlace(S, dto, Shown)
               /\ results = Entries(call.kind, dto, Shown)
               /\ total' = N
    <2>1. InPlace(S, dto, Shown) /\ results = Entries(call.kind, dto, Shown)
      BY <1>1, <1>3 DEF ReadingInv, Reading
    <2>2. DOMAIN Shown = 1..n /\ n \in Nat
      BY <1>1 DEF Shown
    <2>3. 1..n = {k \in 1..dto.size : Skip(dto) + k <= N}
      BY <2>1, <2>2 DEF InPlace
    <2>4. N \in Nat /\ Skip(dto) \in Nat
      BY <1>1, FiniteRows DEF Skip
    <2>5. ASSUME n < dto.size, n > 0 \/ Skip(dto) = 0
          PROVE  Skip(dto) + n = N
      <3> HIDE DEF n, N
      <3>1. n + 1 \in 1..dto.size /\ n + 1 \notin 1..n
        BY <1>1, <2>2, <2>5
      <3>2. ~(Skip(dto) + (n + 1) <= N)
        BY <2>3, <3>1
      <3>3. n > 0 => Skip(dto) + n <= N
        <4>1. n > 0 => n \in 1..n
          BY <2>2
        <4> QED
          BY <2>3, <4>1
      <3> QED
        BY <2>2, <2>4, <2>5, <3>2, <3>3
    <2>6. total' = N
      BY <2>5 DEF Count
    <2> QED
      BY <2>1, <2>6
  <1>4. Shown' = Shown
    BY <1>1 DEF Shown
  <1>5. stable => /\ InPlace(S, dto, Shown)'
                  /\ (results = Entries(call.kind, dto, Shown))'
    BY <1>1, <1>3, <1>4, SamePlaces
  <1> QED
    BY <1>1, <1>2, <1>3, <1>5 DEF Reading

LEMMA NextReading ==
    ASSUME ReadingInv, [Next]_vars
    PROVE  ReadingInv'
  <1>1. Types'
    BY NextTypes DEF ReadingInv
  <1> SUFFICES Reading'
    BY <1>1 DEF ReadingInv
  <1>2. CASE Leave
    BY <1>2 DEF Leave, Reading
  <1>3. CASE Arrive
    BY <1>3 DEF Arrive, Reading
  <1>4. CASE Receive /\ ~Leave
    <2>1. stage' \in {"page", "byId"}
      BY <1>4 DEF Receive
    <2> QED
      BY <2>1 DEF Reading
  <1>5. CASE FindById /\ ~Leave
    <2>1. call.op = "findById" /\ call' = call
      BY <1>5 DEF FindById, ReadingInv, Types, TypeOK
    <2> QED
      BY <2>1 DEF Reading
  <1>6. CASE Change
    <2>1. UNCHANGED <<stage, call, dto>> /\ stable' = FALSE
      BY <1>6 DEF Change
    <2> QED
      BY <2>1 DEF ReadingInv, Reading
  <1>7. CASE UNCHANGED vars
    <2>1. UNCHANGED <<rows, stage, call, dto, page, results, total, stable>>
      BY <1>7 DEF vars
    <2> DEFINE S == Selected(call.kind, dto)
    <2>2. S' = S /\ (\A x, y : Before(x, y, dto.orderBy)' = Before(x, y, dto.orderBy))
      BY <2>1, SameTables
    <2>3. Sorted(S, dto.orderBy)' = Sorted(S, dto.orderBy)
      BY <2>1, <2>2 DEF Sorted
    <2>4. Pages(S, dto)' = Pages(S, dto)
      BY <2>1, <2>3 DEF Pages, Skip
    <2>5. Shown' = Shown
      BY <2>1 DEF Shown
    <2>6. /\ InPlace(S, dto, Shown) => InPlace(S, dto, Shown)'
          /\ results = Entries(call.kind, dto, Shown) => (results = Entries(call.kind, dto, Shown))'
      BY <2>1, <2>5, SamePlaces
    <2> QED
      BY <2>1, <2>2, <2>4, <2>6 DEF ReadingInv, Reading
  <1> QED
    BY <1>2, <1>3, <1>4, <1>5, <1>6, <1>7, FindPageReading, FindEntitiesReading, CountReading
    DEF Next, Answer, Fail

\* Through the queries of a call, what has been read is the page of the tables as
\* they are, until a row changes.
THEOREM ReadingInvariant == Spec => []ReadingInv
  <1>1. Init => ReadingInv
    BY InitTypes DEF Init, ReadingInv, Reading
  <1> QED
    BY <1>1, NextReading, PTL DEF Spec

\* Unless rows changed meanwhile, the answer to a query is the page it asks for of
\* the rows it asks for, in its order and with their count, for any tables, any
\* keys and any page: although TypeORM reads ids and rows one after the other and
\* may take the count from the page.
THEOREM AnswersAreAsked == Spec => []AnswersAsked
  <1>1. ReadingInv => AnswersAsked
    <2> SUFFICES ASSUME ReadingInv, stage = "answered", call.op = "find", stable,
                        ~AnsweredDifferently(call.kind, dto)
                 PROVE  LET wanted   == Wanted(call.kind, dto)
                            place(k) == (dto.page - 1) * dto.size + k
                        IN  /\ total = Cardinality(wanted)
                            /\ DOMAIN results = {k \in 1..dto.size : place(k) <= Cardinality(wanted)}
                            /\ \A k \in DOMAIN results :
                                 LET x == results[k].row
                                 IN  /\ x \in wanted
                                     /\ \A j \in DOMAIN results : j # k => results[j].row # x
                                     /\ Cardinality({y \in wanted : Before(y, x, dto.orderBy)}) < place(k)
                                     /\ Cardinality({y \in wanted : ~Before(x, y, dto.orderBy)}) >= place(k)
                                     /\ call.kind = "products" =>
                                          /\ results[k].brand = BrandOf[x] /\ results[k].category = CategoryOf[x]
                                          /\ {i \in MainImages : ImageOf[i] = x /\ Live(i)} \subseteq results[k].images
                                          /\ results[k].images \subseteq {i \in MainImages : ImageOf[i] = x}
      BY DEF AnswersAsked
    <2> DEFINE S == Selected(call.kind, dto)
    <2>1. /\ dto \in Dtos /\ InPlace(S, dto, Shown) /\ results = Entries(call.kind, dto, Shown)
          /\ total = Cardinality(S)
      BY DEF ReadingInv, Reading
    <2>2. Types /\ call.kind \in Kinds
      BY DEF ReadingInv, Types, TypeOK, Call
    <2>3. Wanted(call.kind, dto) = S
      BY <2>1, <2>2, SelectedIsWanted
    <2>4. DOMAIN Shown = DOMAIN results /\ \A k \in DOMAIN results : Shown[k] = results[k].row
      BY DEF Shown
    <2> HIDE DEF S
    <2>5. /\ DOMAIN results = {k \in 1..dto.size : Skip(dto) + k <= Cardinality(S)}
          /\ \A k \in DOMAIN results :
               /\ results[k].row \in S
               /\ \A j \in DOMAIN results : j # k => results[j].row # results[k].row
               /\ Cardinality({y \in S : Before(y, results[k].row, dto.orderBy)}) < Skip(dto) + k
               /\ Cardinality({y \in S : ~Before(results[k].row, y, dto.orderBy)}) >= Skip(dto) + k
      <3>1. /\ DOMAIN Shown = {k \in 1..dto.size : Skip(dto) + k <= Cardinality(S)}
            /\ \A k \in DOMAIN Shown :
                 /\ Shown[k] \in S
                 /\ \A j \in DOMAIN Shown : j # k => Shown[j] # Shown[k]
                 /\ Cardinality({y \in S : Before(y, Shown[k], dto.orderBy)}) < Skip(dto) + k
                 /\ Cardinality({y \in S : ~Before(Shown[k], y, dto.orderBy)}) >= Skip(dto) + k
        BY <2>1 DEF InPlace
      <3>2. ASSUME NEW k \in DOMAIN results
            PROVE  /\ results[k].row \in S
                   /\ \A j \in DOMAIN results : j # k => results[j].row # results[k].row
                   /\ Cardinality({y \in S : Before(y, results[k].row, dto.orderBy)}) < Skip(dto) + k
                   /\ Cardinality({y \in S : ~Before(results[k].row, y, dto.orderBy)}) >= Skip(dto) + k
        <4>1. k \in DOMAIN Shown /\ results[k].row = Shown[k]
          BY <2>4
        <4>2. \A j \in DOMAIN results : j # k => Shown[j] # Shown[k]
          BY <2>4, <3>1, <4>1
        <4>3. \A j \in DOMAIN results : j # k => results[j].row # results[k].row
          BY <2>4, <4>1, <4>2
        <4>4. /\ Shown[k] \in S
              /\ Cardinality({y \in S : Before(y, Shown[k], dto.orderBy)}) < Skip(dto) + k
              /\ Cardinality({y \in S : ~Before(Shown[k], y, dto.orderBy)}) >= Skip(dto) + k
          BY <3>1, <4>1
        <4> QED
          BY <4>1, <4>3, <4>4
      <3> QED
        BY <2>4, <3>1, <3>2
    <2>6. ASSUME NEW k \in DOMAIN results, call.kind = "products"
          PROVE  LET x == results[k].row
                 IN  /\ results[k].brand = BrandOf[x] /\ results[k].category = CategoryOf[x]
                     /\ {i \in MainImages : ImageOf[i] = x /\ Live(i)} \subseteq results[k].images
                     /\ results[k].images \subseteq {i \in MainImages : ImageOf[i] = x}
      <3> DEFINE x == results[k].row
      <3>1. x \in Selected("products", dto) /\ x \in Products
        BY <2>5, <2>6 DEF S, Selected, SelectedProducts
      <3>2. JoinedToProduct(dto, x).brand = BrandOf[x] /\ JoinedToProduct(dto, x).category = CategoryOf[x]
        BY <2>1, <2>2, <2>6, <3>1, ProductsAreJoined
      <3>3. results[k] = Entry(x, JoinedToProduct(dto, x))
        BY <2>1, <2>4, <2>6 DEF Entries, Relations
      <3>4. /\ {i \in MainImages : ImageOf[i] = x /\ Live(i)} \subseteq JoinedToProduct(dto, x).images
            /\ JoinedToProduct(dto, x).images \subseteq {i \in MainImages : ImageOf[i] = x}
        BY DEF JoinedToProduct, JoinedTo, Live
      <3> HIDE DEF x
      <3> QED
        BY <3>2, <3>3, <3>4 DEF Entry, x
    <2>7. (dto.page - 1) * dto.size = Skip(dto)
      BY DEF Skip
    <2> QED
      BY <2>1, <2>3, <2>5, <2>6, <2>7
  <1> QED
    BY <1>1, ReadingInvariant, PTL

=============================================================================
