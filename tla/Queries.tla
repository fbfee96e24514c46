------------------------------- MODULE Queries -------------------------------
(***************************************************************************)
(* Reading products, brands, categories and users: GET on a list (find)    *)
(* and on one row (findById; findForId for users), from the guards to the  *)
(* answer.                                                                 *)
(*                                                                         *)
(* A call passes the guards, the parser of the query parameter, the check  *)
(* of what the caller may filter by, which reads the query as it was sent, *)
(* and its transformation and validation.  find then makes up to three     *)
(* queries: the ids of the page, the rows of these ids with what they are  *)
(* joined to, and the count.  Rows change between any two of them.         *)
(*                                                                         *)
(* Abstracted: a text query matches the rows of a set; the brand, category *)
(* or parent of a row, the product of an image and which images are main   *)
(* do not change.                                                          *)
(***************************************************************************)
EXTENDS Integers, Sequences, FiniteSets

CONSTANTS
    Products, Brands, Categories, Users, Images,  \* ids of the rows
    BrandOf, CategoryOf,                  \* of each product
    ParentOf,                             \* of each category; None for a root
    ImageOf,                              \* of each image: its product
    MainImages,                           \* the images that are main
    NameOf,                               \* of each row: its place in alphabetical order
    Matching,                             \* the rows whose names match the text query
    Sent,                                 \* the calls that clients make, a set of Call
    MaxIds,                               \* FILTER_*_IDS_MAX_LENGTH
    DefaultSize, MaxSize,                 \* PaginationConfigs
    MaxChanges,                           \* how often rows change (bound)
    None                                  \* null, or not given

Rows == Products \cup Brands \cup Categories \cup Users \cup Images

ASSUME RelationsAssumption ==
    /\ BrandOf \in [Products -> Brands]
    /\ CategoryOf \in [Products -> Categories]
    /\ ParentOf \in [Categories -> Categories \cup {None}]
    /\ ImageOf \in [Images -> Products]
    /\ MainImages \subseteq Images
    /\ NameOf \in [Rows -> Int]
    /\ None \notin Rows
    /\ IsFiniteSet(Rows)

ASSUME SizesAssumption ==
    /\ MaxIds \in Nat
    /\ MaxSize \in Nat \ {0}
    /\ DefaultSize \in 1..MaxSize
    /\ MaxChanges \in Nat

Row == [active: BOOLEAN, deleted: BOOLEAN]

Kinds == {"products", "brands", "categories", "users"}
RowsOf(kind) == CASE kind = "products" -> Products
                  [] kind = "brands" -> Brands
                  [] kind = "categories" -> Categories
                  [] kind = "users" -> Users

(***************************************************************************)
(* Calls                                                                   *)
(***************************************************************************)

ActiveValues  == {"active", "inactive", "all"}
DeletedValues == {"not_deleted", "deleted", "all"}

ActiveFields(kind)  == IF kind = "products" THEN {"active", "activeBrands", "activeCategories"}
                       ELSE {"active"}
DeletedFields(kind) == IF kind = "products" THEN {"deleted", "deletedBrands", "deletedCategories"}
                       ELSE {"deleted"}
FieldsOf(kind) == ActiveFields(kind) \cup DeletedFields(kind)
FilterFields == FieldsOf("products")

\* A filter as it was sent: a string, or a list with that string alone, which
\* == takes for the string; or neither null nor a value of the enumeration.
RawFilter == [form: {"absent", "text", "list"}, value: ActiveValues \cup DeletedValues \cup {"other"}]

\* A list of ids; null and strings that are no ids may be in it.
RawIds == [form: {"absent", "list", "other"}, items: Seq(Rows \cup {None, "malformed"})]

Keys == [column: {"name", "active"}, direction: {"asc", "desc"}]

\* The query parameter: JSON or not, and then null, false (or 0 or ""), another
\* value that is no object (an array, too: no field of it is read, and validation
\* knows no rules for it), or an object. In page, pageSize and orderBy None is
\* whatever is no integer, or no list of keys.
RawQuery ==
    [form: {"absent", "notText", "notJson", "null", "false", "scalar", "object"},
     filters: [FilterFields -> RawFilter],
     text: {"absent", "blank", "match", "other"},
     brandIds: RawIds, categoryIds: RawIds, parentIds: RawIds,
     page: Int \cup {None}, pageSize: Int \cup {None},
     orderBy: Seq(Keys) \cup {None}]

\* Who calls: nobody known, somebody with a token that is not valid, or a user
\* with the role.
Callers == {"visitor", "stranger", "USER", "ADMIN", "ROOT"}
Staff == {"ADMIN", "ROOT"}

Call == [kind: Kinds, op: {"find", "findById"}, caller: Callers, query: RawQuery,
         id: Rows \cup {None}]

(***************************************************************************)
(* The DTOs that are valid, each a query whose missing fields got defaults *)
(***************************************************************************)
Filters == {f \in [FilterFields -> ActiveValues \cup DeletedValues] :
              /\ \A a \in ActiveFields("products") : f[a] \in ActiveValues
              /\ \A d \in DeletedFields("products") : f[d] \in DeletedValues}

Dtos == [filters: Filters, text: BOOLEAN,
         brandIds: SUBSET Rows, categoryIds: SUBSET Rows, parentIds: SUBSET (Rows \cup {None}),
         page: Nat \ {0}, size: 1..MaxSize, orderBy: Seq(Keys)]

ASSUME SentAssumption ==
    /\ Sent \subseteq Call
    /\ \A c \in Sent : c.op = "findById" => c.id \in RowsOf(c.kind)
    /\ None \notin Sent /\ None \notin Dtos

VARIABLES
    rows,     \* the tables
    changes,  \* how often rows have changed (bound)
    stage,    \* what the call is about to do
    call,     \* the call
    dto,      \* its query, transformed and found valid
    page,     \* the ids the first query found
    results,  \* the rows of the answer, each with what it is joined to
    total,    \* the count of the answer
    stable    \* history: no row has changed since the first query

request == <<stage, call, dto, page, results, total, stable>>
vars    == <<rows, changes, stage, call, dto, page, results, total, stable>>

Stages == {"idle", "received", "page", "entities", "count", "byId", "answered"}

Init ==
    /\ rows = [x \in Rows |-> [active |-> TRUE, deleted |-> FALSE]]
    /\ changes = 0
    /\ stage = "idle"
    /\ call = None
    /\ dto = None
    /\ page = <<>>
    /\ results = <<>>
    /\ total = 0
    /\ stable = FALSE

Arrive ==
    /\ stage = "idle"
    /\ call' \in Sent
    /\ stage' = "received"
    /\ UNCHANGED <<rows, changes, dto, page, results, total, stable>>

\* The call is over: answered or refused.
Leave ==
    /\ stage' = "idle"
    /\ call' = None
    /\ dto' = None
    /\ page' = <<>>
    /\ results' = <<>>
    /\ total' = 0
    /\ stable' = FALSE
    /\ UNCHANGED <<rows, changes>>

(***************************************************************************)
(* Guards, interceptors and pipes                                          *)
(***************************************************************************)

\* JwtAuthenticationGuard and RolesGuard: a call without a token is let through
\* where authentication is optional; users are for staff.
GuardRefuses(c) ==
    \/ c.caller = "stranger"
    \/ c.kind = "users" /\ c.caller \notin Staff

\* The routes with QueryParamToJsonInterceptor.
ParsesQuery(c) == c.op = "find" \/ c.kind \in {"categories", "brands"}

\* QueryParamToJsonInterceptor
ParseRefuses(c) == ParsesQuery(c) /\ c.query.form \in {"notText", "notJson"}

\* The routes with checkPermissions.
ReadsQuery(c) == c.op = "find" \/ c.kind = "categories"

\* Mutant: ===
StrictlyEquals(raw, value) == raw.form = "text" /\ raw.value = value

\* ==
LooselyEquals(raw, value) == raw.form # "absent" /\ raw.value = value

\* checkPermissions; reading a field of null ends the call as well.
PermissionRefuses(c) ==
    /\ c.caller \notin Staff
    /\ ReadsQuery(c)
    /\ \/ c.query.form = "null"
       \/ /\ c.query.form = "object"
          /\ \/ \E f \in ActiveFields(c.kind), v \in {"all", "inactive"} :
                  LooselyEquals(c.query.filters[f], v)
             \/ \E f \in DeletedFields(c.kind), v \in {"all", "deleted"} :
                  LooselyEquals(c.query.filters[f], v)

\* getEnumTransformer
Transformed(raw, default) == IF raw.form = "absent" THEN default ELSE raw.value

\* UuidList; the transformer has removed duplicates.
IdsInvalid(raw, allowNullItem) ==
    \/ raw.form = "other"
    \/ /\ raw.form = "list"
       /\ LET items == {raw.items[k] : k \in DOMAIN raw.items}
          IN  \/ Cardinality(items) > MaxIds
              \/ "malformed" \in items
              \/ None \in items /\ ~allowNullItem

IdsOf(raw) == IF raw.form = "list" THEN {raw.items[k] : k \in DOMAIN raw.items} ELSE {}

\* normalizePageValue and normalizePageSizeValue
AtLeastOne(n) == IF n < 1 THEN 1 ELSE n
PageOf(raw) == IF raw = None THEN 1 ELSE AtLeastOne(raw)

\* Mutant: the size is not limited.
SizeOfUnlimited(raw) == IF raw = None THEN DefaultSize ELSE AtLeastOne(raw)

SizeOf(raw) == IF raw = None THEN DefaultSize
               ELSE IF raw > MaxSize THEN MaxSize ELSE AtLeastOne(raw)

DefaultOrder == <<[column |-> "name", direction |-> "asc"], [column |-> "active", direction |-> "asc"]>>

\* Sort: a list that is empty or names a column twice is taken for none.
OrderOf(raw) ==
    IF raw # None /\ raw # <<>> /\ \A j, k \in DOMAIN raw : raw[j].column = raw[k].column => j = k
    THEN raw ELSE DefaultOrder

Defaults == [f \in FilterFields |-> IF f \in ActiveFields("products") THEN "active" ELSE "not_deleted"]

ValidationRefuses(c) ==
    \/ c.query.form = "scalar"
    \/ /\ c.query.form = "object"
       /\ \/ c.query.text = "other"
          \/ \E f \in ActiveFields(c.kind) :
               Transformed(c.query.filters[f], Defaults[f]) \notin ActiveValues
          \/ \E f \in DeletedFields(c.kind) :
               Transformed(c.query.filters[f], Defaults[f]) \notin DeletedValues
          \/ /\ c.kind = "products"
             /\ IdsInvalid(c.query.brandIds, FALSE) \/ IdsInvalid(c.query.categoryIds, FALSE)
          \/ c.kind = "categories" /\ IdsInvalid(c.query.parentIds, TRUE)

\* The DTO: that of {} unless the query is an object.
Dto(kind, query) ==
    LET given    == query.form = "object"
        ids(raw, k) == IF given /\ kind = k THEN IdsOf(raw) ELSE {}
    IN  [filters     |-> [f \in FilterFields |->
                            IF given /\ f \in FieldsOf(kind)
                            THEN Transformed(query.filters[f], Defaults[f]) ELSE Defaults[f]],
         text        |-> given /\ query.text = "match",
         brandIds    |-> ids(query.brandIds, "products"),
         categoryIds |-> ids(query.categoryIds, "products"),
         parentIds   |-> ids(query.parentIds, "categories"),
         page        |-> IF given THEN PageOf(query.page) ELSE 1,
         size        |-> IF given THEN SizeOf(query.pageSize) ELSE DefaultSize,
         orderBy     |-> IF given THEN OrderOf(query.orderBy) ELSE DefaultOrder]

Refused(c) ==
    \/ GuardRefuses(c)
    \/ ParseRefuses(c)
    \/ PermissionRefuses(c)
    \/ c.op = "find" /\ ValidationRefuses(c)

Receive ==
    /\ stage = "received"
    /\ \/ Refused(call) /\ Leave
       \/ /\ ~Refused(call)
          /\ IF call.op = "find"
             THEN stage' = "page" /\ dto' = Dto(call.kind, call.query)
             ELSE stage' = "byId" /\ UNCHANGED dto
          /\ UNCHANGED <<rows, changes, call, page, results, total, stable>>

(***************************************************************************)
(* find                                                                    *)
(***************************************************************************)
Live(x) == x # None /\ ~rows[x].deleted
Public(x) == Live(x) /\ rows[x].active

\* A LEFT JOIN leaves deleted rows out, unless withDeleted() was called before.
JoinedTo(x, withDeleted) == IF withDeleted \/ Live(x) THEN x ELSE None

Wide(filter) == filter \in {"deleted", "all"}

\* What a product is joined to: withDeleted() for brands comes before the joins,
\* that for categories before the second, that for the products themselves after
\* them. Of its images the main ones, whether active or not.
JoinedToProduct(d, x) ==
    LET brands     == Wide(d.filters.deletedBrands)
        categories == brands \/ Wide(d.filters.deletedCategories)
    IN  [brand    |-> JoinedTo(BrandOf[x], brands),
         category |-> JoinedTo(CategoryOf[x], categories),
         parent   |-> None,
         images   |-> {i \in MainImages : ImageOf[i] = x /\ JoinedTo(i, categories) # None}]

Nothing == [brand |-> None, category |-> None, parent |-> None, images |-> {}]

JoinedToCategory(x) == [Nothing EXCEPT !.parent = JoinedTo(ParentOf[x], FALSE)]

Relations(kind, d, x) ==
    CASE kind = "products" -> JoinedToProduct(d, x)
      [] kind = "categories" -> JoinedToCategory(x)
      [] kind \in {"brands", "users"} -> Nothing

\* "active = ..." is not true of a row that was not joined, "deletedAt IS NULL" is.
ActiveIs(x, filter) == filter = "all" \/ (x # None /\ rows[x].active = (filter = "active"))
DeletedIs(x, filter) ==
    CASE filter = "all" -> TRUE
      [] filter = "not_deleted" -> x = None \/ ~rows[x].deleted
      [] filter = "deleted" -> x # None /\ rows[x].deleted

\* The conditions on the rows themselves. TypeORM asks that they are not deleted
\* unless withDeleted() was called, for whatever reason.
RowIs(d, x, withDeleted) ==
    /\ d.text => x \in Matching
    /\ ActiveIs(x, d.filters.active)
    /\ \/ d.filters.deleted = "all"
       \/ d.filters.deleted = "deleted" /\ rows[x].deleted
       \/ d.filters.deleted = "not_deleted" /\ (withDeleted \/ ~rows[x].deleted)

\* The rows that the query of each find selects.
SelectedProducts(d) ==
    {x \in Products :
       LET joined == JoinedToProduct(d, x)
       IN  /\ RowIs(d, x, Wide(d.filters.deletedBrands) \/ Wide(d.filters.deletedCategories))
           /\ ActiveIs(joined.brand, d.filters.activeBrands)
           /\ ActiveIs(joined.category, d.filters.activeCategories)
           /\ DeletedIs(joined.brand, d.filters.deletedBrands)
           /\ DeletedIs(joined.category, d.filters.deletedCategories)
           /\ d.brandIds # {} => joined.brand \in d.brandIds
           /\ d.categoryIds # {} => joined.category \in d.categoryIds}

\* With null and ids in the list, ids are compared with the parent that the
\* category is joined to, otherwise with its column.
ParentIs(d, x) ==
    LET ids == d.parentIds \ {None}
    IN  CASE d.parentIds = {} -> TRUE
          [] ids # {} /\ None \in d.parentIds -> JoinedToCategory(x).parent \in ids \/ ParentOf[x] = None
          [] ids # {} /\ None \notin d.parentIds -> ParentOf[x] \in ids
          [] ids = {} /\ None \in d.parentIds -> ParentOf[x] = None

SelectedCategories(d) == {x \in Categories : RowIs(d, x, FALSE) /\ ParentIs(d, x)}
SelectedBrands(d)     == {x \in Brands : RowIs(d, x, FALSE)}
SelectedUsers(d)      == {x \in Users : RowIs(d, x, FALSE)}

Selected(kind, d) ==
    CASE kind = "products" -> SelectedProducts(d)
      [] kind = "categories" -> SelectedCategories(d)
      [] kind = "brands" -> SelectedBrands(d)
      [] kind = "users" -> SelectedUsers(d)

Rank(x, key) ==
    LET rank == IF key.column = "name" THEN NameOf[x] ELSE IF rows[x].active THEN 1 ELSE 0
    IN  IF key.direction = "asc" THEN rank ELSE -rank

Before(x, y, keys) ==
    \E k \in DOMAIN keys :
      /\ Rank(x, keys[k]) < Rank(y, keys[k])
      /\ \A j \in 1..(k - 1) : Rank(x, keys[j]) = Rank(y, keys[j])

\* The orders in which the rows of S may come.
Sorted(S, keys) ==
    {s \in [1..Cardinality(S) -> S] :
       \A j, k \in DOMAIN s : j < k => s[j] # s[k] /\ ~Before(s[k], s[j], keys)}

Skip(d) == (d.page - 1) * d.size

\* Mutant: pages are counted from 0.
PagesFromZero(S, d) ==
    {SubSeq(s, d.page * d.size + 1, IF d.page * d.size + d.size < Len(s) THEN d.page * d.size + d.size ELSE Len(s)) :
       s \in Sorted(S, d.orderBy)}

\* take(pageSize) and skip((page - 1) * pageSize)
Pages(S, d) ==
    {SubSeq(s, Skip(d) + 1, IF Skip(d) + d.size < Len(s) THEN Skip(d) + d.size ELSE Len(s)) :
       s \in Sorted(S, d.orderBy)}

Entry(x, joined) == [row |-> x, brand |-> joined.brand, category |-> joined.category,
                     parent |-> joined.parent, images |-> joined.images]

Entries(kind, d, ids) == [k \in DOMAIN ids |-> Entry(ids[k], Relations(kind, d, ids[k]))]

Joins(kind) == kind \in {"products", "categories"}

\* The first query. Without joins it is for the rows; with joins, for their ids
\* and the rows come with the second, unless there are none.
FindPage ==
    /\ stage = "page"
    /\ \E ids \in Pages(Selected(call.kind, dto), dto) :
         IF Joins(call.kind) /\ ids # <<>>
         THEN page' = ids /\ stage' = "entities" /\ UNCHANGED results
         ELSE results' = Entries(call.kind, dto, ids) /\ stage' = "count" /\ UNCHANGED page
    /\ stable' = TRUE
    /\ UNCHANGED <<rows, changes, call, dto, total>>

\* Mutant: only the ids select.
FindEntitiesByIds ==
    /\ stage = "entities"
    /\ \E ids \in Sorted({page[k] : k \in DOMAIN page}, dto.orderBy) :
         results' = Entries(call.kind, dto, ids)
    /\ stage' = "count"
    /\ UNCHANGED <<rows, changes, call, dto, page, total, stable>>

\* The second query has the conditions of the first and that the id is among
\* those of the page.
FindEntities ==
    /\ stage = "entities"
    /\ \E ids \in Sorted(Selected(call.kind, dto) \cap {page[k] : k \in DOMAIN page}, dto.orderBy) :
         results' = Entries(call.kind, dto, ids)
    /\ stage' = "count"
    /\ UNCHANGED <<rows, changes, call, dto, page, total, stable>>

\* TypeORM counts with a query, or takes the count from a page that is not full.
Count ==
    /\ stage = "count"
    /\ \/ total' = Cardinality(Selected(call.kind, dto))
       \/ /\ Len(results) < dto.size
          /\ Len(results) > 0 \/ Skip(dto) = 0
          /\ total' = Skip(dto) + Len(results)
    /\ stage' = "answered"
    /\ UNCHANGED <<rows, changes, call, dto, page, results, stable>>

(***************************************************************************)
(* findById                                                                *)
(***************************************************************************)
PublicAccess(caller) == caller \notin Staff

\* The public gets public products only: the conditions on brand and category are
\* not true of a product that is not joined to them; there is none on the images.
\* For staff, withDeleted() comes after the joins.
FoundProduct(x, publicAccess) ==
    IF publicAccess => Public(x) /\ Public(BrandOf[x]) /\ Public(CategoryOf[x])
    THEN {Entry(x, [Nothing EXCEPT !.brand = JoinedTo(BrandOf[x], FALSE),
                                   !.category = JoinedTo(CategoryOf[x], FALSE),
                                   !.images = {i \in Images : ImageOf[i] = x /\ Live(i)}])}
    ELSE {}

\* For staff, withDeleted() comes before the join.
FoundCategory(x, publicAccess) ==
    IF publicAccess => Public(x)
    THEN {Entry(x, [Nothing EXCEPT !.parent = IF publicAccess => Public(ParentOf[x])
                                              THEN ParentOf[x] ELSE None])}
    ELSE {}

FoundBrand(x, publicAccess) ==
    IF publicAccess => Public(x) THEN {Entry(x, Nothing)} ELSE {}

\* findForId
FoundUser(x) == IF Live(x) THEN {Entry(x, Nothing)} ELSE {}

Found(kind, x, publicAccess) ==
    CASE kind = "products" -> FoundProduct(x, publicAccess)
      [] kind = "categories" -> FoundCategory(x, publicAccess)
      [] kind = "brands" -> FoundBrand(x, publicAccess)
      [] kind = "users" -> FoundUser(x)

FindById ==
    /\ stage = "byId"
    /\ LET found == Found(call.kind, call.id, PublicAccess(call.caller))
       IN  \/ found = {} /\ Leave
           \/ /\ \E entry \in found : results' = <<entry>>
              /\ stage' = "answered"
              /\ UNCHANGED <<rows, changes, call, dto, page, total, stable>>

-----------------------------------------------------------------------------
Answer == stage = "answered" /\ Leave

\* A query fails.
Fail == stage \in {"page", "entities", "count", "byId"} /\ Leave

\* Other calls write: a row becomes active or inactive, or is deleted; that of a
\* product, a brand or an image may be undone. Nothing deletes users.
Change ==
    /\ changes < MaxChanges
    /\ changes' = changes + 1
    /\ \E x \in Rows, row \in Row :
         /\ row # rows[x]
         /\ row.deleted => x \notin Users
         /\ rows[x].deleted /\ ~row.deleted => x \notin Categories
         /\ rows' = [rows EXCEPT ![x] = row]
    /\ stable' = FALSE
    /\ UNCHANGED <<stage, call, dto, page, results, total>>

Next ==
    \/ Arrive \/ Receive
    \/ FindPage \/ FindEntities \/ Count
    \/ FindById
    \/ Answer \/ Fail
    \/ Change

Spec == Init /\ [][Next]_vars

-----------------------------------------------------------------------------
(***************************************************************************)
(* Properties                                                              *)
(***************************************************************************)

EntriesOf == [row: Rows, brand: Brands \cup {None}, category: Categories \cup {None},
              parent: Categories \cup {None}, images: SUBSET Images]

\* The type of every variable; only a valid query, and only of somebody the
\* guards let through, reaches the tables.
TypeOK ==
    /\ rows \in [Rows -> Row]
    /\ changes \in 0..MaxChanges
    /\ stage \in Stages
    /\ call \in Call \cup {None}
    /\ dto \in Dtos \cup {None}
    /\ page \in Seq(Rows)
    /\ results \in Seq(EntriesOf)
    /\ total \in Nat
    /\ stable \in BOOLEAN
    /\ stage = "idle" <=> call = None
    /\ stage \in {"page", "entities", "count"} => dto # None /\ call.op = "find"
    /\ stage = "byId" => dto = None /\ call.op = "findById"
    /\ stage \notin {"idle", "received"} => ~GuardRefuses(call)

\* However rows change between the queries of a call, what the public is shown
\* is public at the moment it is read: products, brands and categories that are
\* active and not deleted, products only with a brand and a category that are,
\* parents that are not deleted and, in findById, active; images that are not
\* deleted and the product's own (see InactiveImagesStayOut).  checkPermissions
\* sees the query before it is transformed, so it must refuse every query that
\* the transformation turns into a wider one.
PublicSeesPublic ==
    [][results' # results /\ call.caller \notin Staff =>
         \A k \in DOMAIN results' :
           LET entry == results'[k]
           IN  /\ Public(entry.row)
               /\ call.kind = "products" => Public(entry.brand) /\ Public(entry.category)
               /\ entry.parent # None =>
                    Live(entry.parent) /\ (call.op = "findById" => Public(entry.parent))
               /\ \A i \in entry.images : Live(i) /\ ImageOf[i] = entry.row]_vars

\* What a query asks for, by the comments of the DTOs.
Matches(x, active, deleted) ==
    /\ active # "all" => rows[x].active = (active = "active")
    /\ deleted # "all" => rows[x].deleted = (deleted = "deleted")

Wanted(kind, d) ==
    {x \in RowsOf(kind) :
       /\ d.text => x \in Matching
       /\ Matches(x, d.filters.active, d.filters.deleted)
       /\ kind = "products" =>
            /\ Matches(BrandOf[x], d.filters.activeBrands, d.filters.deletedBrands)
            /\ Matches(CategoryOf[x], d.filters.activeCategories, d.filters.deletedCategories)
            /\ d.brandIds # {} => BrandOf[x] \in d.brandIds
            /\ d.categoryIds # {} => CategoryOf[x] \in d.categoryIds
       /\ kind = "categories" /\ d.parentIds # {} => ParentOf[x] \in d.parentIds}

\* find has answered a query for rows of the kind.
Answered(kind) == call.op = "find" /\ call.kind = kind

\* deleted is "not_deleted" by default: a query that says nothing else of
\* deleted products gets none.  withDeleted() for brands or categories turns off
\* the condition on the products.
DeletedProductsStayOut ==
    Answered("products") /\ dto.filters.deleted = "not_deleted" =>
      \A k \in DOMAIN results : ~rows[results[k].row].deleted

\* deletedBrands and deletedCategories are "not_deleted" by default: a query that
\* says nothing else of them gets no product of a deleted brand or category.  A
\* deleted row is not joined, so the product seems to have none.
DeletedRelationsStayOut ==
    Answered("products") =>
      \A k \in DOMAIN results :
        LET x == results[k].row
        IN  /\ dto.filters.deletedBrands = "not_deleted" => ~rows[BrandOf[x]].deleted
            /\ dto.filters.deletedCategories = "not_deleted" => ~rows[CategoryOf[x]].deleted

\* parentIds are the ids of parents, with null for none: all the categories with
\* one of these parents are counted.  With null in the list the ids are compared
\* with the parent that is joined, and a deleted one is not.
ParentsAreFound ==
    Answered("categories") => total = Cardinality(Wanted("categories", dto))

\* An image that is not active is private (its files are in the private
\* directory), and "inactive access" is for "authorized users": the public is
\* shown no such image.  The joins of images have no condition on active.
InactiveImagesStayOut ==
    call.caller \notin Staff => \A k \in DOMAIN results : \A i \in results[k].images : Public(i)

\* Unless rows changed meanwhile, an answer is as the comments of the DTOs and the
\* controller say.  Each of the four parts is violated on its own.
AnswersAsDocumented ==
    stage = "answered" /\ stable =>
      /\ DeletedProductsStayOut
      /\ DeletedRelationsStayOut
      /\ ParentsAreFound
      /\ InactiveImagesStayOut

\* The queries in which the code contradicts the DTOs, each the subject of one of
\* the first three parts above.
DeletedComeAlong(d) ==
    d.filters.deleted = "not_deleted" /\ (Wide(d.filters.deletedBrands) \/ Wide(d.filters.deletedCategories))

DeletedCountAsNot(d) ==
    \/ d.filters.deletedBrands = "not_deleted" /\ d.filters.activeBrands = "all" /\ d.brandIds = {}
    \/ /\ d.filters.deletedCategories = "not_deleted" /\ ~Wide(d.filters.deletedBrands)
       /\ d.filters.activeCategories = "all" /\ d.categoryIds = {}

DeletedParentsAreLost(d) == None \in d.parentIds /\ \E x \in d.parentIds \ {None} : rows[x].deleted

AnsweredDifferently(kind, d) ==
    \/ kind = "products" /\ (DeletedComeAlong(d) \/ DeletedCountAsNot(d))
    \/ kind = "categories" /\ DeletedParentsAreLost(d)

\* Unless rows changed meanwhile, the answer to any other query is its page of
\* the rows it asks for, in its order, with the brand, the category and the main
\* images of every product, and counts them all: although TypeORM joins, selects
\* ids and rows separately, and may take the count from the page.
AnswersAsked ==
    stage = "answered" /\ call.op = "find" /\ stable /\ ~AnsweredDifferently(call.kind, dto) =>
      LET wanted   == Wanted(call.kind, dto)
          place(k) == (dto.page - 1) * dto.size + k
      IN  /\ total = Cardinality(wanted)
          /\ DOMAIN results = {k \in 1..dto.size : place(k) <= Cardinality(wanted)}
          /\ \A k \in DOMAIN results :
               LET x == results[k].row
               IN  /\ x \in wanted
                   /\ \A j \in DOMAIN results : j # k => results[j].row # x
                   /\ Cardinality({y \in wanted : Before(y, x, dto.orderBy)}) < place(k)
                   /\ Cardinality({y \in wanted : ~Before(x, y, dto.orderBy)}) >= place(k)
                   /\ call.kind = "products" =>
                        /\ results[k].brand = BrandOf[x] /\ results[k].category = CategoryOf[x]
                        /\ {i \in MainImages : ImageOf[i] = x /\ Live(i)} \subseteq results[k].images
                        /\ results[k].images \subseteq {i \in MainImages : ImageOf[i] = x}
=============================================================================
