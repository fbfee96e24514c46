-------------------------- MODULE CatalogueProofs --------------------------
(***************************************************************************)
(* Theorems about products and brands, for any number of rows and of calls *)
(* at the same time.                                                       *)
(***************************************************************************)
EXTENDS Catalogue, TLAPS

(***************************************************************************)
(* Types                                                                   *)
(***************************************************************************)

\* The tables, and what requests know.
TableTypes ==
    /\ products \in [ProductIds -> ProductRows \cup {None}]
    /\ brands \in [BrandIds -> BrandRows \cup {None}]
    /\ images \in [ImageIds -> ImageRows \cup {None}]
    /\ categories \subseteq CategoryIds

RequestTypes ==
    /\ pc \in [Requests -> Queries \cup {"idle"}]
    /\ id \in [Requests -> ProductIds \cup BrandIds \cup {None}]
    /\ sent \in [Requests -> Fields]
    /\ extra \in [Requests -> Extras]
    /\ held \in [Requests -> Entities \cup {None}]
    /\ loaded \in [Requests -> Entities \cup {None}]
    /\ gone \in [Requests -> SUBSET (BrandIds \cup CategoryIds)]
    /\ overtaken \in [Requests -> SUBSET Columns]

Updating == {"findNewBrand", "findNewCategory", "loadRow", "loadImages", "write"}
OfProducts == Updating \cup {"load", "findProduct", "softDelete"}
OfBrands == {"findOldBrand", "updateBrand", "findLastBrand", "softDeleteBrand"}
Creating == {"findBrand", "findCategory", "insert"}

\* A request has what its next query needs.
Knows ==
    \A r \in Requests :
        /\ pc[r] \in OfProducts => id[r] \in ProductIds /\ products[id[r]] # None
        /\ pc[r] \in OfBrands => id[r] \in BrandIds /\ brands[id[r]] # None
        /\ pc[r] \in Updating <=> held[r] # None
        /\ pc[r] \in {"loadImages", "write"} <=> loaded[r] # None
        /\ pc[r] \in Creating => sent[r] \in [data: Values, brand: BrandIds, category: CategoryIds]
        /\ pc[r] = "insertBrand" => sent[r].data \in Values
        /\ pc[r] = "findNewBrand" => sent[r].brand # None
        /\ pc[r] = "findNewCategory" => sent[r].category # None
        /\ \A i \in extra[r].images : images[i] # None
        /\ \A p \in extra[r].products : products[p] # None
        /\ held[r] # None => \A i \in held[r].images : images[i] # None

Types == TableTypes /\ RequestTypes /\ Knows

LEMMA TypesImplyTypeOK == Types => TypeOK
  BY DEF Types, TableTypes, RequestTypes, Knows, TypeOK, Updating, OfProducts, OfBrands

LEMMA NothingIsFields == Nothing \in Fields
  BY DEF Nothing, Fields

LEMMA PlainIsExtras == Plain \in Extras /\ Plain.images = {} /\ Plain.products = {} /\ Plain.brand = None
  BY DEF Plain, Extras

LEMMA InitTypes == Init => Types
  BY NothingIsFields, PlainIsExtras
  DEF Init, Types, TableTypes, RequestTypes, Knows, Updating, OfProducts, OfBrands, Creating

\* A request begins with what its first query needs.
Begins(r, query, x, fields, others, already) ==
    /\ Begin(r, query, x, fields, others, already)
    /\ Known(others)
    /\ query \in OfProducts => x \in ProductIds /\ products[x] # None
    /\ query \in OfBrands => x \in BrandIds /\ brands[x] # None
    /\ query \in Creating => fields \in [data: Values, brand: BrandIds, category: CategoryIds]
    /\ query = "insertBrand" => fields.data \in Values

LEMMA BeginTypes ==
    ASSUME Types, NEW r \in Requests, NEW query \in Queries \ Updating, NEW x \in ProductIds \cup BrandIds \cup {None},
           NEW fields \in Fields, NEW others \in Extras, NEW already \in SUBSET (BrandIds \cup CategoryIds),
           Begins(r, query, x, fields, others, already)
    PROVE  Types'
  <1> USE DEF Begins
  <1>1. TableTypes'
    BY DEF Types, TableTypes, Begin, tables
  <1>2. RequestTypes'
    BY DEF Types, RequestTypes, Begin
  <1>3. Knows'
    BY DEF Types, RequestTypes, Knows, Begin, tables, Updating, Known
  <1> QED
    BY <1>1, <1>2, <1>3 DEF Types

LEMMA DeletedRefsType == DeletedRefs \subseteq BrandIds \cup CategoryIds
  BY DEF DeletedRefs

\* A brand call is sent data alone.
LEMMA DataAlone ==
    ASSUME NEW v \in Values \cup {None}
    PROVE  /\ [Nothing EXCEPT !.data = v] \in Fields
           /\ [Nothing EXCEPT !.data = v].data = v
  BY DEF Nothing, Fields

LEMMA PlainIsKnown == Known(Plain)
  BY PlainIsExtras DEF Known

\* What a call begins with.
LEMMA ArriveBegins ==
    ASSUME NEW r \in Requests, Arrive(r)
    PROVE  \E query \in {"findBrand", "load", "findProduct", "insertBrand", "findOldBrand", "findLastBrand"},
              x \in ProductIds \cup BrandIds \cup {None}, fields \in Fields, others \in Extras,
              already \in {DeletedRefs, {}} :
             Begins(r, query, x, fields, others, already)
  <1> USE DEF OfProducts, OfBrands, Creating, Updating, Begins
  <1>1. CASE \E v \in Values, b \in BrandIds, c \in CategoryIds, x \in ProductExtras :
               /\ Known(x)
               /\ Begin(r, "findBrand", None, [data |-> v, brand |-> b, category |-> c], x, DeletedRefs)
    <2>1. PICK v \in Values, b \in BrandIds, c \in CategoryIds, x \in ProductExtras :
                 /\ Known(x)
                 /\ Begin(r, "findBrand", None, [data |-> v, brand |-> b, category |-> c], x, DeletedRefs)
      BY <1>1
    <2> DEFINE fields == [data |-> v, brand |-> b, category |-> c]
    <2>2. fields \in Fields /\ fields \in [data: Values, brand: BrandIds, category: CategoryIds] /\ x \in Extras
      BY BodiesAssumption DEF Fields
    <2>3. Begin(r, "findBrand", None, fields, x, DeletedRefs)
      BY <2>1
    <2> HIDE DEF fields
    <2> QED
      BY <2>1, <2>2, <2>3
  <1>2. CASE \E p \in ProductIds :
               /\ products[p] # None
               /\ \/ \E f \in Updates : Begin(r, "load", p, f, Plain, DeletedRefs)
                  \/ Begin(r, "findProduct", p, Nothing, Plain, {})
    BY <1>2, BodiesAssumption, NothingIsFields, PlainIsExtras, PlainIsKnown
  <1>3. CASE \E v \in Values, x \in BrandExtras :
               Known(x) /\ Begin(r, "insertBrand", None, [Nothing EXCEPT !.data = v], x, {})
    <2>1. PICK v \in Values, x \in BrandExtras :
                 Known(x) /\ Begin(r, "insertBrand", None, [Nothing EXCEPT !.data = v], x, {})
      BY <1>3
    <2> QED
      BY <2>1, DataAlone, BodiesAssumption
  <1>4. CASE \E b \in BrandIds :
               /\ brands[b] # None
               /\ \/ \E v \in Values \cup {None}, x \in BrandExtras :
                       Known(x) /\ Begin(r, "findOldBrand", b, [Nothing EXCEPT !.data = v], x, DeletedRefs)
                  \/ Begin(r, "findLastBrand", b, Nothing, Plain, {})
    <2>1. PICK b \in BrandIds :
               /\ brands[b] # None
               /\ \/ \E v \in Values \cup {None}, x \in BrandExtras :
                       Known(x) /\ Begin(r, "findOldBrand", b, [Nothing EXCEPT !.data = v], x, DeletedRefs)
                  \/ Begin(r, "findLastBrand", b, Nothing, Plain, {})
      BY <1>4
    <2>2. CASE \E v \in Values \cup {None}, x \in BrandExtras :
                 Known(x) /\ Begin(r, "findOldBrand", b, [Nothing EXCEPT !.data = v], x, DeletedRefs)
      BY <2>1, <2>2, DataAlone, BodiesAssumption
    <2>3. CASE Begin(r, "findLastBrand", b, Nothing, Plain, {})
      BY <2>1, <2>3, NothingIsFields, PlainIsExtras, PlainIsKnown
    <2> QED
      BY <2>1, <2>2, <2>3
  <1> QED
    BY <1>1, <1>2, <1>3, <1>4 DEF Arrive

LEMMA ArriveTypes ==
    ASSUME Types, NEW r \in Requests, Arrive(r)
    PROVE  Types'
  <1>1. PICK query \in {"findBrand", "load", "findProduct", "insertBrand", "findOldBrand", "findLastBrand"},
             x \in ProductIds \cup BrandIds \cup {None}, fields \in Fields, others \in Extras,
             already \in {DeletedRefs, {}} :
             Begins(r, query, x, fields, others, already)
    BY ArriveBegins
  <1>2. query \in Queries \ Updating
    BY DEF Queries, Updating
  <1> QED
    BY <1>1, <1>2, BeginTypes, DeletedRefsType

\* A request goes on with what it knows.
LEMMA ContinueTypes ==
    ASSUME Types, NEW r \in Requests, NEW query \in Queries \ Updating, Continue(r, query),
           pc[r] \notin Updating,
           query \in OfProducts => pc[r] \in OfProducts,
           query \in OfBrands => pc[r] \in OfBrands,
           query \in Creating => pc[r] \in Creating,
           query # "insertBrand"
    PROVE  Types'
  <1>1. TableTypes' /\ RequestTypes'
    BY DEF Types, TableTypes, RequestTypes, Continue, tables
  <1>2. Knows'
    BY DEF Types, RequestTypes, Knows, Continue, tables, Updating
  <1> QED
    BY <1>1, <1>2 DEF Types

\* Rows may be added and change, but none disappears.
Remains ==
    /\ \A p \in ProductIds : products[p] # None => products'[p] # None
    /\ \A b \in BrandIds : brands[b] # None => brands'[b] # None
    /\ \A i \in ImageIds : images[i] # None => images'[i] # None

LEMMA LeaveTypes ==
    ASSUME Types, NEW r \in Requests, NEW query \in {"idle", "reread"}, NEW back, LeaveWith(r, query, back),
           TableTypes', Remains, overtaken' \in [Requests -> SUBSET Columns]
    PROVE  Types'
  <1>1. RequestTypes'
    BY NothingIsFields, PlainIsExtras DEF Types, RequestTypes, LeaveWith, Queries
  <1>2. Knows'
    <2>1. ASSUME NEW q \in Requests \ {r}
          PROVE  /\ extra[q].images \subseteq ImageIds
                 /\ extra[q].products \subseteq ProductIds
                 /\ held[q] # None => held[q].images \subseteq ImageIds
      BY DEF Types, RequestTypes, Extras, Entities
    <2> QED
      BY <2>1, PlainIsExtras
      DEF Types, RequestTypes, Knows, LeaveWith, Updating, OfProducts, OfBrands, Creating, Remains
  <1> QED
    BY <1>1, <1>2 DEF Types

LEMMA RefuseTypes ==
    ASSUME Types, NEW r \in Requests, Refuse(r)
    PROVE  Types'
  <1>1. TableTypes' /\ Remains
    BY DEF Types, TableTypes, Refuse, tables, Remains
  <1>2. overtaken' \in [Requests -> SUBSET Columns]
    BY DEF Types, RequestTypes, Refuse
  <1> QED
    BY <1>1, <1>2, LeaveTypes DEF Refuse, Leave

\* What a request read changes, and so may its next query.
LEMMA StepTypes ==
    ASSUME Types, NEW r \in Requests, NEW query \in Updating,
           NEW h \in Entities \cup {None}, NEW l \in Entities \cup {None},
           UNCHANGED <<tables, id, sent, extra, gone, overtaken>>,
           pc' = [pc EXCEPT ![r] = query], held' = [held EXCEPT ![r] = h], loaded' = [loaded EXCEPT ![r] = l],
           pc[r] \in OfProducts, h # None, \A i \in h.images : images[i] # None,
           query \in {"loadImages", "write"} <=> l # None,
           query = "findNewBrand" => sent[r].brand # None,
           query = "findNewCategory" => sent[r].category # None
    PROVE  Types'
  <1>1. TableTypes' /\ RequestTypes'
    BY DEF Types, TableTypes, RequestTypes, tables, Queries, Updating
  <1>2. Knows'
    BY DEF Types, RequestTypes, Knows, tables, Updating, OfProducts, OfBrands, Creating
  <1> QED
    BY <1>1, <1>2 DEF Types

\* What a product is read as.
LEMMA JoinedIsEntity ==
    ASSUME Types, NEW p \in ProductIds, products[p] # None
    PROVE  /\ Joined(p) \in Entities
           /\ Joined(p) # None
           /\ \A v \in Values : [Joined(p) EXCEPT !.data = v] \in Entities
           /\ Joined(p).images = LiveImages(p)
  <1>1. products[p] \in ProductRows
    BY DEF Types, TableTypes
  <1>2. LiveImages(p) \subseteq ImageIds
    BY DEF LiveImages
  <1>3. Joined(p) \in Entities
    BY <1>1, <1>2 DEF Joined, ProductRows, Entities, LiveBrands
  <1>4. \A v \in Values : [Joined(p) EXCEPT !.data = v] \in Entities
    BY <1>3 DEF Entities
  <1> QED
    BY <1>3, <1>4, NoneAssumption DEF Joined

LEMMA LoadProductTypes ==
    ASSUME Types, NEW r \in Requests, LoadProduct(r)
    PROVE  Types'
  <1> DEFINE h == IF sent[r].data = None THEN Joined(id[r]) ELSE [Joined(id[r]) EXCEPT !.data = sent[r].data]
  <1>1. id[r] \in ProductIds /\ products[id[r]] # None /\ loaded[r] = None
    BY DEF LoadProduct, Types, Knows, OfProducts
  <1>2. h \in Entities /\ h # None /\ \A i \in h.images : images[i] # None
    <2>1. sent[r].data # None => sent[r].data \in Values
      BY DEF Types, RequestTypes, Fields
    <2>2. h \in Entities /\ h # None
      BY <1>1, <2>1, JoinedIsEntity, NoneAssumption
    <2>3. h.images = LiveImages(id[r])
      BY <1>1, JoinedIsEntity DEF Entities
    <2> QED
      BY <2>2, <2>3 DEF LiveImages
  <1>3. PICK query \in {"findNewBrand", "findNewCategory", "loadRow"} :
               /\ pc' = [pc EXCEPT ![r] = query]
               /\ query = "findNewBrand" => sent[r].brand # None
               /\ query = "findNewCategory" => sent[r].category # None
    BY DEF LoadProduct
  <1>4. /\ held' = [held EXCEPT ![r] = h]
        /\ UNCHANGED <<tables, id, sent, extra, loaded, gone, overtaken>>
        /\ pc[r] = "load"
    BY DEF LoadProduct
  <1>5. loaded' = [loaded EXCEPT ![r] = None]
    BY <1>1, <1>4 DEF Types, RequestTypes
  <1> HIDE DEF h
  <1>6. query \in Updating /\ pc[r] \in OfProducts
    BY <1>4 DEF Updating, OfProducts
  <1> QED
    BY <1>2, <1>3, <1>4, <1>5, <1>6, StepTypes

LEMMA FindNewBrandTypes ==
    ASSUME Types, NEW r \in Requests, FindNewBrand(r)
    PROVE  Types'
  <1>1. CASE Refuse(r)
    BY <1>1, RefuseTypes
  <1>2. CASE ~Refuse(r)
    <2> DEFINE h == [held[r] EXCEPT !.brand = sent[r].brand]
    <2>1. /\ pc[r] = "findNewBrand" /\ sent[r].brand \in BrandIds
          /\ held' = [held EXCEPT ![r].brand = sent[r].brand]
          /\ UNCHANGED <<tables, id, sent, extra, loaded, gone, overtaken>>
      BY <1>2 DEF FindNewBrand, LiveBrands
    <2>2. PICK query \in {"findNewCategory", "loadRow"} :
               /\ pc' = [pc EXCEPT ![r] = query]
               /\ query = "findNewCategory" => sent[r].category # None
      BY <1>2 DEF FindNewBrand
    <2>3. loaded[r] = None /\ held[r] # None
      BY <2>1 DEF Types, Knows, Updating
    <2>4. loaded' = [loaded EXCEPT ![r] = None]
      BY <2>1, <2>3 DEF Types, RequestTypes
    <2>5. held' = [held EXCEPT ![r] = h]
      BY <2>1 DEF Types, RequestTypes
    <2>6. h \in Entities /\ h # None /\ h.images = held[r].images
      BY <2>1, <2>3, NoneAssumption DEF Types, RequestTypes, Entities
    <2>8. \A i \in h.images : images[i] # None
      BY <2>3, <2>6 DEF Types, Knows
    <2> HIDE DEF h
    <2>7. query \in Updating /\ pc[r] \in OfProducts
      BY <2>1 DEF Updating, OfProducts
    <2> QED
      BY <2>1, <2>2, <2>4, <2>5, <2>6, <2>7, <2>8, StepTypes
  <1> QED
    BY <1>1, <1>2

LEMMA FindNewCategoryTypes ==
    ASSUME Types, NEW r \in Requests, FindNewCategory(r)
    PROVE  Types'
  <1>1. CASE Refuse(r)
    BY <1>1, RefuseTypes
  <1>2. CASE ~Refuse(r)
    <2> DEFINE h == [held[r] EXCEPT !.category = sent[r].category]
    <2>1. /\ pc[r] = "findNewCategory" /\ sent[r].category \in CategoryIds
          /\ held' = [held EXCEPT ![r].category = sent[r].category]
          /\ pc' = [pc EXCEPT ![r] = "loadRow"]
          /\ UNCHANGED <<tables, id, sent, extra, loaded, gone, overtaken>>
      BY <1>2 DEF FindNewCategory, Types, TableTypes
    <2>3. loaded[r] = None /\ held[r] # None
      BY <2>1 DEF Types, Knows, Updating
    <2>4. loaded' = [loaded EXCEPT ![r] = None]
      BY <2>1, <2>3 DEF Types, RequestTypes
    <2>5. held' = [held EXCEPT ![r] = h]
      BY <2>1 DEF Types, RequestTypes
    <2>6. h \in Entities /\ h # None /\ h.images = held[r].images
      BY <2>1, <2>3, NoneAssumption DEF Types, RequestTypes, Entities
    <2>8. \A i \in h.images : images[i] # None
      BY <2>3, <2>6 DEF Types, Knows
    <2> HIDE DEF h
    <2>7. pc[r] \in OfProducts /\ "loadRow" \in Updating
      BY <2>1 DEF Updating, OfProducts
    <2> QED
      BY <2>1, <2>4, <2>5, <2>6, <2>7, <2>8, StepTypes
  <1> QED
    BY <1>1, <1>2

LEMMA LoadRowTypes ==
    ASSUME Types, NEW r \in Requests, LoadRow(r)
    PROVE  Types'
  <1> DEFINE row == products[id[r]]
             l == [data |-> row.data, brand |-> row.brand, category |-> row.category,
                   deleted |-> row.deleted, images |-> {}]
  <1>1. /\ pc[r] = "loadRow"
        /\ pc' = [pc EXCEPT ![r] = "loadImages"]
        /\ loaded' = [loaded EXCEPT ![r] = l]
        /\ UNCHANGED <<tables, id, sent, extra, held, gone, overtaken>>
    BY DEF LoadRow
  <1>2. held[r] # None /\ id[r] \in ProductIds /\ products[id[r]] # None
    BY <1>1 DEF Types, Knows, Updating, OfProducts
  <1>3. row \in ProductRows
    BY <1>2 DEF Types, TableTypes
  <1>4. l \in Entities /\ l # None
    BY <1>3, NoneAssumption DEF ProductRows, Entities
  <1>5. /\ held' = [held EXCEPT ![r] = held[r]] /\ held[r] \in Entities \cup {None}
        /\ \A i \in held[r].images : images[i] # None
    BY <1>1, <1>2 DEF Types, RequestTypes, Knows
  <1> HIDE DEF l
  <1>6. pc[r] \in OfProducts /\ "loadImages" \in Updating
    BY <1>1 DEF Updating, OfProducts
  <1> QED
    BY <1>1, <1>2, <1>4, <1>5, <1>6, StepTypes

LEMMA LoadImagesTypes ==
    ASSUME Types, NEW r \in Requests, LoadImages(r)
    PROVE  Types'
  <1> DEFINE l == [loaded[r] EXCEPT !.images = LiveImages(id[r])]
  <1>1. /\ pc[r] = "loadImages"
        /\ pc' = [pc EXCEPT ![r] = "write"]
        /\ UNCHANGED <<tables, id, sent, extra, held, gone, overtaken>>
    BY DEF LoadImages
  <1>2. held[r] # None /\ loaded[r] # None
    BY <1>1 DEF Types, Knows, Updating
  <1>3. loaded' = [loaded EXCEPT ![r] = l]
    BY DEF LoadImages, Types, RequestTypes
  <1>4. l \in Entities /\ l # None
    <2>1. LiveImages(id[r]) \subseteq ImageIds
      BY DEF LiveImages
    <2> QED
      BY <1>2, <2>1, NoneAssumption DEF Types, RequestTypes, Entities
  <1>5. /\ held' = [held EXCEPT ![r] = held[r]] /\ held[r] \in Entities \cup {None}
        /\ \A i \in held[r].images : images[i] # None
    BY <1>1, <1>2 DEF Types, RequestTypes, Knows
  <1> HIDE DEF l
  <1>6. pc[r] \in OfProducts /\ "write" \in Updating
    BY <1>1 DEF Updating, OfProducts
  <1> QED
    BY <1>1, <1>2, <1>3, <1>4, <1>5, <1>6, StepTypes

\* What a save makes of a product.
LEMMA MergedType ==
    ASSUME NEW row \in ProductRows, NEW entity \in Entities, NEW base \in Entities
    PROVE  LET merged == Merged(row, entity, base)
           IN  /\ \A c \in Columns : merged[c] = IF entity[c] # base[c] THEN entity[c] ELSE row[c]
               /\ merged.brand # None /\ merged.category # None => merged \in ProductRows
  BY DEF Merged, Columns, ProductRows, Entities

\* What Store writes.
LEMMA StoreTypes ==
    ASSUME Types, NEW r \in Requests, NEW table, Store(r, table)
    PROVE  /\ products' = table
           /\ overtaken' \in [Requests -> SUBSET Columns]
  BY DEF Store, Types, RequestTypes

\* A table with another row for a product that is there.
LEMMA ProductChanged ==
    ASSUME Types, NEW p \in ProductIds, products[p] # None, NEW row \in ProductRows
    PROVE  LET table == [products EXCEPT ![p] = row]
           IN  /\ table \in [ProductIds -> ProductRows \cup {None}]
               /\ table[p] = row
               /\ \A q \in ProductIds : products[q] # None => table[q] # None
  BY NoneAssumption DEF Types, TableTypes

\* What becomes of images that get another product.
LEMMA MovedTypes ==
    ASSUME Types, NEW moving \in SUBSET ImageIds, \A i \in moving : images[i] # None, NEW p \in ProductIds
    PROVE  /\ Moved(moving, p) \in [ImageIds -> ImageRows \cup {None}]
           /\ \A i \in ImageIds : images[i] # None => Moved(moving, p)[i] # None
           /\ \A i \in moving : Moved(moving, p)[i].product = p
           /\ \A i \in ImageIds \ moving : Moved(moving, p)[i] = images[i]
  <1>1. ASSUME NEW i \in moving
        PROVE  /\ [images[i] EXCEPT !.product = p] \in ImageRows
               /\ [images[i] EXCEPT !.product = p].product = p
    BY DEF Types, TableTypes, ImageRows
  <1> QED
    BY <1>1, NoneAssumption DEF Types, TableTypes, Moved

\* A save that the columns allow.
LEMMA WriteChanges ==
    ASSUME Types, NEW r \in Requests, Write(r), ~Refuse(r)
    PROVE  LET p   == id[r]
               row == Merged(products[p], held[r], loaded[r])
           IN  /\ p \in ProductIds /\ products[p] # None
               /\ held[r] \in Entities /\ loaded[r] \in Entities
               /\ row \in ProductRows
               /\ Allowed(row, Detached(r))
               /\ Store(r, [products EXCEPT ![p] = row])
               /\ products' \in [ProductIds -> ProductRows \cup {None}]
               /\ products'[p] = row
               /\ \A q \in ProductIds : products[q] # None => products'[q] # None
               /\ Attached(r) \subseteq ImageIds /\ \A i \in Attached(r) : images[i] # None
               /\ images' = Moved(Attached(r), p)
               /\ UNCHANGED <<brands, categories>>
               /\ Leave(r, "reread")
  <1> DEFINE p == id[r]
             row == Merged(products[p], held[r], loaded[r])
  <1>1. /\ pc[r] = "write" /\ Allowed(row, Detached(r)) /\ Leave(r, "reread")
        /\ Store(r, [products EXCEPT ![p] = row])
    BY DEF Write
  <1>2. p \in ProductIds /\ products[p] # None /\ held[r] # None /\ loaded[r] # None
    BY <1>1 DEF Types, Knows, OfProducts, Updating
  <1>3. products[p] \in ProductRows /\ held[r] \in Entities /\ loaded[r] \in Entities
    BY <1>2 DEF Types, TableTypes, RequestTypes
  <1>4. row \in ProductRows
    BY <1>1, <1>3, MergedType DEF Allowed
  <1>5. images' = Moved(Attached(r), p)
    <2>1. images' = [i \in ImageIds |-> IF i \in Detached(r) THEN [images[i] EXCEPT !.product = None]
                                        ELSE Moved(Attached(r), p)[i]]
      BY DEF Write
    <2>2. Detached(r) = {}
      BY <1>1 DEF Allowed
    <2> QED
      BY <2>1, <2>2 DEF Moved
  <1>6. UNCHANGED <<brands, categories>>
    BY DEF Write
  <1>7. Attached(r) \subseteq ImageIds /\ \A i \in Attached(r) : images[i] # None
    BY <1>2, <1>3 DEF Attached, Entities, Types, Knows
  <1> HIDE DEF row
  <1>8. /\ products' \in [ProductIds -> ProductRows \cup {None}]
        /\ products'[p] = row
        /\ \A q \in ProductIds : products[q] # None => products'[q] # None
    BY <1>1, <1>2, <1>4, StoreTypes, ProductChanged
  <1> QED
    BY <1>1, <1>2, <1>3, <1>4, <1>5, <1>6, <1>7, <1>8 DEF row

LEMMA WriteTypes ==
    ASSUME Types, NEW r \in Requests, Write(r)
    PROVE  Types'
  <1>1. CASE Refuse(r)
    BY <1>1, RefuseTypes
  <1>2. CASE ~Refuse(r)
    <2> DEFINE row == Merged(products[id[r]], held[r], loaded[r])
    <2>1. /\ id[r] \in ProductIds /\ Store(r, [products EXCEPT ![id[r]] = row])
          /\ products' \in [ProductIds -> ProductRows \cup {None}]
          /\ \A q \in ProductIds : products[q] # None => products'[q] # None
          /\ Attached(r) \subseteq ImageIds /\ \A i \in Attached(r) : images[i] # None
          /\ images' = Moved(Attached(r), id[r])
          /\ UNCHANGED <<brands, categories>> /\ Leave(r, "reread")
      BY <1>2, WriteChanges
    <2>2. /\ images' \in [ImageIds -> ImageRows \cup {None}]
          /\ \A i \in ImageIds : images[i] # None => images'[i] # None
      BY <2>1, MovedTypes
    <2>3. overtaken' \in [Requests -> SUBSET Columns]
      BY <2>1, StoreTypes
    <2>4. TableTypes' /\ Remains
      BY <2>1, <2>2 DEF Types, TableTypes, Remains
    <2> QED
      BY <2>1, <2>3, <2>4, LeaveTypes DEF Leave
  <1> QED
    BY <1>1, <1>2

LEMMA SoftDeleteTypes ==
    ASSUME Types, NEW r \in Requests, SoftDelete(r)
    PROVE  Types'
  <1> DEFINE row == [products[id[r]] EXCEPT !.deleted = TRUE]
  <1>1. /\ Store(r, [products EXCEPT ![id[r]] = row])
        /\ UNCHANGED <<brands, images, categories>> /\ Leave(r, "idle")
        /\ pc[r] = "softDelete"
    BY DEF SoftDelete
  <1>2. id[r] \in ProductIds /\ products[id[r]] # None
    BY <1>1 DEF Types, Knows, OfProducts
  <1>3. row \in ProductRows
    BY <1>2 DEF Types, TableTypes, ProductRows
  <1> HIDE DEF row
  <1>4. /\ products' \in [ProductIds -> ProductRows \cup {None}]
        /\ \A q \in ProductIds : products[q] # None => products'[q] # None
        /\ overtaken' \in [Requests -> SUBSET Columns]
    BY <1>1, <1>2, <1>3, StoreTypes, ProductChanged
  <1>5. TableTypes' /\ Remains
    BY <1>1, <1>4 DEF Types, TableTypes, Remains
  <1> QED
    BY <1>1, <1>4, <1>5, LeaveTypes DEF Leave

\* What is sent or else what there is.
LEMMA GivenType ==
    ASSUME NEW S, NEW value \in S \cup {None}, NEW otherwise \in S, None \notin S
    PROVE  Given(value, otherwise) \in S
  BY DEF Given

\* The row that create saves.
LEMMA NewProductType ==
    ASSUME Types, NEW r \in Requests, pc[r] = "insert"
    PROVE  NewProduct(r) \in ProductRows
  <1>1. /\ sent[r].data \in Values /\ sent[r].brand \in BrandIds /\ sent[r].category \in CategoryIds
    BY DEF Types, Knows, Creating
  <1>2. /\ extra[r].brand \in BrandIds \cup {None}
        /\ extra[r].category \in CategoryIds \cup {None}
        /\ extra[r].deleted \in BOOLEAN \cup {None}
    BY DEF Types, RequestTypes, Extras
  <1>3. Given(extra[r].brand, sent[r].brand) \in BrandIds
    BY <1>1, <1>2, GivenType, NoneAssumption
  <1>4. Given(extra[r].category, sent[r].category) \in CategoryIds
    BY <1>1, <1>2, GivenType, NoneAssumption
  <1>5. Given(extra[r].deleted, FALSE) \in BOOLEAN
    BY <1>2, GivenType, NoneAssumption
  <1> QED
    BY <1>1, <1>3, <1>4, <1>5 DEF NewProduct, ProductRows

\* The images that a body names are there.
LEMMA NamedImages ==
    ASSUME Types, NEW r \in Requests
    PROVE  extra[r].images \in SUBSET ImageIds /\ \A i \in extra[r].images : images[i] # None
  BY DEF Types, RequestTypes, Knows, Extras

LEMMA InsertTypes ==
    ASSUME Types, NEW r \in Requests, Insert(r)
    PROVE  Types'
  <1>1. NewProduct(r) \in ProductRows /\ NewProduct(r) # None
    BY NewProductType, NoneAssumption DEF Insert
  <1>2. PICK p \in ProductIds : /\ products' = [products EXCEPT ![p] = NewProduct(r)]
                                /\ images' = Moved(extra[r].images, p)
    BY DEF Insert
  <1>3. UNCHANGED <<brands, categories, overtaken>> /\ Leave(r, "reread")
    BY DEF Insert
  <1>4. /\ images' \in [ImageIds -> ImageRows \cup {None}]
        /\ \A i \in ImageIds : images[i] # None => images'[i] # None
    <2>1. extra[r].images \in SUBSET ImageIds /\ \A i \in extra[r].images : images[i] # None
      BY NamedImages
    <2>2. /\ Moved(extra[r].images, p) \in [ImageIds -> ImageRows \cup {None}]
          /\ \A i \in ImageIds : images[i] # None => Moved(extra[r].images, p)[i] # None
      BY <2>1, MovedTypes
    <2> QED
      BY <1>2, <2>2
  <1>5. TableTypes' /\ Remains
    BY <1>1, <1>2, <1>3, <1>4 DEF Types, TableTypes, Remains
  <1> QED
    BY <1>3, <1>5, LeaveTypes DEF Types, RequestTypes, Leave

\* The products that get a new brand.
Rebranded(r, b) ==
    [p \in ProductIds |-> IF p \in extra[r].products THEN [products[p] EXCEPT !.brand = b] ELSE products[p]]

LEMMA RebrandedType ==
    ASSUME Types, NEW r \in Requests, NEW b \in BrandIds
    PROVE  /\ Rebranded(r, b) \in [ProductIds -> ProductRows \cup {None}]
           /\ \A p \in ProductIds : products[p] # None => Rebranded(r, b)[p] # None
           /\ \A p \in ProductIds, c \in Columns :
                Rebranded(r, b)[p][c] # products[p][c] => c = "brand" /\ p \in extra[r].products
  <1>1. ASSUME NEW p \in extra[r].products
        PROVE  /\ [products[p] EXCEPT !.brand = b] \in ProductRows
               /\ \A c \in Columns : [products[p] EXCEPT !.brand = b][c] # products[p][c] => c = "brand"
    <2>1. products[p] \in ProductRows
      BY DEF Types, TableTypes, RequestTypes, Knows, Extras
    <2> QED
      BY <2>1 DEF ProductRows, Columns
  <1> QED
    BY <1>1, NoneAssumption DEF Types, TableTypes, Rebranded

LEMMA InsertBrandTypes ==
    ASSUME Types, NEW r \in Requests, InsertBrand(r)
    PROVE  Types'
  <1> DEFINE row == [data |-> sent[r].data, deleted |-> Given(extra[r].deleted, FALSE)]
  <1>1. PICK b \in BrandIds :
          brands[b] = None /\ brands' = [brands EXCEPT ![b] = row] /\ Store(r, Rebranded(r, b))
    BY DEF InsertBrand, Rebranded
  <1>2. UNCHANGED <<images, categories>> /\ Leave(r, "idle")
    BY DEF InsertBrand
  <1>3. row \in BrandRows
    <2>1. sent[r].data \in Values /\ extra[r].deleted \in BOOLEAN \cup {None}
      BY DEF InsertBrand, Types, RequestTypes, Knows, Extras
    <2>2. Given(extra[r].deleted, FALSE) \in BOOLEAN
      BY <2>1, GivenType, NoneAssumption
    <2> QED
      BY <2>1, <2>2 DEF BrandRows
  <1> HIDE DEF row
  <1>4. products' = Rebranded(r, b) /\ overtaken' \in [Requests -> SUBSET Columns]
    BY <1>1, StoreTypes
  <1>5. TableTypes' /\ Remains
    BY <1>1, <1>2, <1>3, <1>4, RebrandedType, NoneAssumption DEF Types, TableTypes, Remains
  <1> QED
    BY <1>2, <1>4, <1>5, LeaveTypes DEF Leave

\* The row of a brand that is updated.
LEMMA UpdatedBrandType ==
    ASSUME Types, NEW r \in Requests, pc[r] = "updateBrand"
    PROVE  /\ id[r] \in BrandIds /\ brands[id[r]] # None
           /\ UpdatedBrand(r) \in BrandRows
  <1>1. /\ id[r] \in BrandIds /\ brands[id[r]] \in BrandRows /\ brands[id[r]] # None
        /\ sent[r].data \in Values \cup {None} /\ extra[r].deleted \in BOOLEAN \cup {None}
    BY DEF Types, TableTypes, RequestTypes, Knows, OfBrands, Fields, Extras
  <1>2. brands[id[r]].data \in Values /\ brands[id[r]].deleted \in BOOLEAN
    BY <1>1 DEF BrandRows
  <1>3. Given(sent[r].data, brands[id[r]].data) \in Values
    BY <1>1, <1>2, GivenType, NoneAssumption
  <1>4. Given(extra[r].deleted, brands[id[r]].deleted) \in BOOLEAN
    BY <1>1, <1>2, GivenType, NoneAssumption
  <1> QED
    BY <1>1, <1>3, <1>4 DEF UpdatedBrand, BrandRows

\* The two steps that change one brand.
LEMMA BrandTypes ==
    ASSUME Types, NEW r \in Requests, UpdateBrand(r) \/ SoftDeleteBrand(r)
    PROVE  Types'
  <1>1. CASE Refuse(r)
    BY <1>1, RefuseTypes
  <1>2. CASE ~Refuse(r)
    <2>1. /\ UNCHANGED <<products, images, categories, overtaken>>
          /\ \E query \in {"idle", "reread"}, back \in {{}, {id[r]}} : LeaveWith(r, query, back)
      BY <1>2 DEF UpdateBrand, SoftDeleteBrand, Leave
    <2>2. \E b \in BrandIds, row \in BrandRows : brands' = [brands EXCEPT ![b] = row]
      <3>1. CASE UpdateBrand(r)
        BY <1>2, <3>1, UpdatedBrandType DEF UpdateBrand
      <3>2. CASE SoftDeleteBrand(r)
        <4>1. id[r] \in BrandIds /\ brands[id[r]] \in BrandRows
          BY <3>2 DEF SoftDeleteBrand, Types, TableTypes, Knows, OfBrands
        <4>2. /\ brands' = [brands EXCEPT ![id[r]] = [brands[id[r]] EXCEPT !.deleted = TRUE]]
              /\ [brands[id[r]] EXCEPT !.deleted = TRUE] \in BrandRows
          BY <3>2, <4>1 DEF SoftDeleteBrand, BrandRows, Types, TableTypes
        <4> QED
          BY <4>1, <4>2
      <3> QED
        BY <3>1, <3>2
    <2>3. TableTypes' /\ Remains
      BY <2>1, <2>2, NoneAssumption DEF Types, TableTypes, Remains
    <2> QED
      BY <2>1, <2>3, LeaveTypes DEF Types, RequestTypes
  <1> QED
    BY <1>1, <1>2

\* The rows of other services.
LEMMA OthersTypes ==
    ASSUME Types, CategoryDeleted \/ ImagesSaved
    PROVE  Types'
  <1>1. UNCHANGED <<products, brands, request>>
    BY DEF CategoryDeleted, ImagesSaved
  <1>2. /\ categories' \subseteq CategoryIds
        /\ images' \in [ImageIds -> ImageRows \cup {None}]
        /\ \A i \in ImageIds : images[i] # None => images'[i] # None
    <2>1. CASE CategoryDeleted
      BY <2>1 DEF CategoryDeleted, Types, TableTypes
    <2>2. CASE ImagesSaved
      <3>1. \A p \in ProductIds : [product |-> p, deleted |-> FALSE] \in ImageRows
        BY DEF ImageRows
      <3>2. \A i \in ImageIds : images[i] # None => [images[i] EXCEPT !.deleted = TRUE] \in ImageRows
        BY DEF Types, TableTypes, ImageRows
      <3>3. PICK i \in ImageIds :
              \/ \E p \in ProductIds : images' = [images EXCEPT ![i] = [product |-> p, deleted |-> FALSE]]
              \/ images[i] # None /\ images' = [images EXCEPT ![i].deleted = TRUE]
        BY <2>2 DEF ImagesSaved
      <3>4. images[i] # None => [images[i] EXCEPT !.deleted = TRUE] \in ImageRows
        BY <3>2
      <3>5. CASE \E p \in ProductIds : images' = [images EXCEPT ![i] = [product |-> p, deleted |-> FALSE]]
        BY <2>2, <3>1, <3>5, NoneAssumption DEF Types, TableTypes, ImagesSaved
      <3>6. CASE images[i] # None /\ images' = [images EXCEPT ![i].deleted = TRUE]
        BY <2>2, <3>4, <3>6, NoneAssumption DEF Types, TableTypes, ImagesSaved
      <3> QED
        BY <3>3, <3>5, <3>6
    <2> QED
      BY <2>1, <2>2
  <1> QED
    BY <1>1, <1>2 DEF Types, TableTypes, RequestTypes, Knows, request, Extras, Entities

\* Steps that only choose the next query.
LEMMA LookTypes ==
    ASSUME Types, NEW r \in Requests,
           FindBrand(r) \/ FindCategory(r) \/ FindProduct(r) \/ FindOldBrand(r) \/ FindLastBrand(r) \/ Reread(r)
    PROVE  Types'
  <1>1. CASE Refuse(r)
    BY <1>1, RefuseTypes
  <1>2. CASE ~Refuse(r)
    <2>1. \E query \in {"findCategory", "insert", "softDelete", "updateBrand", "softDeleteBrand"} :
            /\ Continue(r, query)
            /\ pc[r] = CASE query = "findCategory" -> "findBrand"
                         [] query = "insert" -> "findCategory"
                         [] query = "softDelete" -> "findProduct"
                         [] query = "updateBrand" -> "findOldBrand"
                         [] query = "softDeleteBrand" -> "findLastBrand"
      BY <1>2 DEF FindBrand, FindCategory, FindProduct, FindOldBrand, FindLastBrand, Reread
    <2> QED
      BY <2>1, ContinueTypes DEF Queries, Updating, OfProducts, OfBrands, Creating
  <1> QED
    BY <1>1, <1>2

LEMMA NextTypes ==
    ASSUME Types, [Next]_vars
    PROVE  Types'
  <1>1. ASSUME NEW r \in Requests, Serve(r)
        PROVE  Types'
    BY <1>1, LookTypes, InsertTypes, LoadProductTypes, FindNewBrandTypes, FindNewCategoryTypes,
       LoadRowTypes, LoadImagesTypes, WriteTypes, SoftDeleteTypes, InsertBrandTypes, BrandTypes
    DEF Serve
  <1>2. CASE UNCHANGED vars
    BY <1>2 DEF vars, Types, TableTypes, RequestTypes, Knows
  <1> QED
    BY <1>1, <1>2, ArriveTypes, RefuseTypes, OthersTypes DEF Next, Fail

\* Every variable keeps its type and every request has what its next query needs:
\* in particular a product or brand that a request is about never goes away.
THEOREM TypeCorrect == Spec => []TypeOK
  <1>1. Spec => []Types
    BY InitTypes, NextTypes, PTL DEF Spec
  <1> QED
    BY <1>1, TypesImplyTypeOK, PTL

(***************************************************************************)
(* What each step leaves alone                                             *)
(***************************************************************************)

\* An image goes to another product in the two ways ImagesStay names; a save that
\* would take it from its product is not allowed.
THEOREM ImagesKeepTheirProduct == Spec => ImagesStay
  <1> DEFINE Stay == \A i \in ImageIds :
                       images[i] # None =>
                         /\ images'[i] # None
                         /\ images'[i].product # images[i].product =>
                              \E r \in Requests :
                                \/ pc[r] = "insert" /\ i \in extra[r].images /\ products[images'[i].product] = None
                                \/ pc[r] = "write" /\ i \in Attached(r) /\ images'[i].product = id[r]
  <1>1. ASSUME Types, [Next]_vars
        PROVE  Stay
    <2>1. CASE UNCHANGED images
      BY <2>1
    <2>2. CASE ImagesSaved
      <3>1. PICK i \in ImageIds :
              \/ /\ images[i] = None
                 /\ \E p \in ProductIds : images' = [images EXCEPT ![i] = [product |-> p, deleted |-> FALSE]]
              \/ images[i] # None /\ images' = [images EXCEPT ![i].deleted = TRUE]
        BY <2>2 DEF ImagesSaved
      <3>2. images[i] # None => /\ [images[i] EXCEPT !.deleted = TRUE] \in ImageRows
                                /\ [images[i] EXCEPT !.deleted = TRUE].product = images[i].product
        BY <1>1 DEF Types, TableTypes, ImageRows
      <3>3. \A j \in ImageIds : images[j] # None => images'[j] # None /\ images'[j].product = images[j].product
        BY <1>1, <3>1, <3>2, NoneAssumption DEF Types, TableTypes
      <3> QED
        BY <3>3
    <2>3. ASSUME NEW r \in Requests, Write(r), ~Refuse(r)
          PROVE  Stay
      <3>1. /\ pc[r] = "write" /\ id[r] \in ProductIds
            /\ Attached(r) \in SUBSET ImageIds /\ \A i \in Attached(r) : images[i] # None
            /\ images' = Moved(Attached(r), id[r])
        BY <1>1, <2>3, WriteChanges DEF Write
      <3>2. \A i \in ImageIds :
              /\ images[i] # None => images'[i] # None
              /\ i \in Attached(r) => images'[i].product = id[r]
              /\ i \notin Attached(r) => images'[i] = images[i]
        BY <1>1, <3>1, MovedTypes
      <3> QED
        BY <3>1, <3>2
    <2>4. ASSUME NEW r \in Requests, Insert(r)
          PROVE  Stay
      <3>1. PICK p \in ProductIds : products[p] = None /\ images' = Moved(extra[r].images, p)
        BY <2>4 DEF Insert
      <3>2. \A i \in ImageIds :
              /\ images[i] # None => images'[i] # None
              /\ i \in extra[r].images => images'[i].product = p
              /\ i \notin extra[r].images => images'[i] = images[i]
        BY <1>1, <3>1, NamedImages, MovedTypes
      <3> QED
        BY <2>4, <3>1, <3>2 DEF Insert
    <2>5. CASE \E r \in Requests : Refuse(r)
      BY <2>5, <2>1 DEF Refuse, tables
    <2> HIDE DEF Stay
    <2> QED
      BY ZenonT(30), <1>1, <2>1, <2>2, <2>3, <2>4, <2>5
      DEF Next, Arrive, Serve, Fail, CategoryDeleted, vars, tables, Begin, Continue, FindBrand, FindCategory,
          LoadProduct, FindNewBrand, FindNewCategory, LoadRow, LoadImages, Reread, FindProduct,
          SoftDelete, InsertBrand, FindOldBrand, UpdateBrand, FindLastBrand, SoftDeleteBrand
  <1>2. Spec => []Types
    BY InitTypes, NextTypes, PTL DEF Spec
  <1>3. Types /\ [Next]_vars => [Stay]_vars
    BY <1>1
  <1>4. Spec => [][Stay]_vars
    BY <1>2, <1>3, PTL DEF Spec
  <1> QED
    BY <1>4 DEF ImagesStay

\* What happens to brands: a deletion is undone by an update that says so.
DeletionsUndone(b) ==
    \E r \in Requests :
      UpdateBrand(r) /\ ~Refuse(r) /\ id[r] = b /\ extra[r].deleted = FALSE

DeletionsStay ==
    /\ \A b \in BrandIds :
         brands[b] # None /\ brands[b].deleted =>
           brands'[b] # None /\ (brands'[b].deleted \/ DeletionsUndone(b))
    /\ categories' \subseteq categories

LEMMA BrandStepsDelete ==
    ASSUME Types, NEW r \in Requests, InsertBrand(r) \/ (UpdateBrand(r) /\ ~Refuse(r)) \/ SoftDeleteBrand(r)
    PROVE  DeletionsStay
  <1>1. categories' = categories
    BY DEF InsertBrand, UpdateBrand, SoftDeleteBrand
  <1>2. CASE InsertBrand(r)
    BY <1>1, <1>2 DEF InsertBrand, Types, TableTypes, DeletionsStay
  <1>3. CASE UpdateBrand(r) /\ ~Refuse(r)
    <2>1. id[r] \in BrandIds /\ brands[id[r]] # None /\ UpdatedBrand(r) \in BrandRows
      BY <1>3, UpdatedBrandType DEF UpdateBrand
    <2>2. brands' = [brands EXCEPT ![id[r]] = UpdatedBrand(r)]
      BY <1>3 DEF UpdateBrand
    <2>3. extra[r].deleted \in BOOLEAN \cup {None} /\ brands[id[r]].deleted \in BOOLEAN
      BY <2>1 DEF Types, TableTypes, RequestTypes, Extras, BrandRows
    <2>4. brands[id[r]].deleted => UpdatedBrand(r).deleted \/ extra[r].deleted = FALSE
      BY <2>3 DEF UpdatedBrand, Given
    <2> QED
      BY <1>1, <1>3, <2>1, <2>2, <2>4, NoneAssumption DEF Types, TableTypes, DeletionsStay, DeletionsUndone
  <1>4. CASE SoftDeleteBrand(r)
    <2>1. id[r] \in BrandIds /\ brands[id[r]] \in BrandRows
      BY <1>4 DEF SoftDeleteBrand, Types, TableTypes, Knows, OfBrands
    <2>2. LET row == [brands[id[r]] EXCEPT !.deleted = TRUE]
          IN  brands' = [brands EXCEPT ![id[r]] = row] /\ row \in BrandRows /\ row.deleted
      BY <1>4, <2>1 DEF SoftDeleteBrand, BrandRows, Types, TableTypes
    <2> QED
      BY <1>1, <2>1, <2>2, NoneAssumption DEF Types, TableTypes, DeletionsStay
  <1> QED
    BY <1>2, <1>3, <1>4

LEMMA NextDeletes ==
    ASSUME Types, [Next]_vars
    PROVE  DeletionsStay
  <1>1. CASE brands' = brands /\ categories' \subseteq categories
    BY <1>1 DEF DeletionsStay
  <1>2. CASE \E r \in Requests : Write(r) /\ ~Refuse(r)
    BY <1>1, <1>2, WriteChanges
  <1>3. CASE \E r \in Requests : Refuse(r)
    BY <1>1, <1>3 DEF Refuse, tables
  <1> QED
    BY ZenonT(30), <1>1, <1>2, <1>3, BrandStepsDelete
    DEF Next, Arrive, Serve, Fail, CategoryDeleted, ImagesSaved, vars, tables, request, Begin, Continue,
        FindBrand, FindCategory, Insert, LoadProduct, FindNewBrand, FindNewCategory, LoadRow, LoadImages,
        Reread, FindProduct, SoftDelete, FindOldBrand, FindLastBrand

(***************************************************************************)
(* What requests remember                                                  *)
(***************************************************************************)

Same(q) ==
    /\ pc'[q] = pc[q] /\ id'[q] = id[q] /\ sent'[q] = sent[q]
    /\ extra'[q] = extra[q] /\ held'[q] = held[q] /\ loaded'[q] = loaded[q]
    /\ gone'[q] \subseteq gone[q]

\* A step of one request changes nothing of the others, overtaken apart.
LEMMA OthersSame ==
    ASSUME Types, NEW r \in Requests, Arrive(r) \/ Serve(r) \/ Fail(r)
    PROVE  \A q \in Requests \ {r} : Same(q)
  <1> USE DEF Types, RequestTypes, Same
  <1>1. ASSUME NEW query, NEW back, LeaveWith(r, query, back)
        PROVE  \A q \in Requests \ {r} : Same(q)
    BY <1>1 DEF LeaveWith
  <1>2. ASSUME Refuse(r)
        PROVE  \A q \in Requests \ {r} : Same(q)
    BY <1>1, <1>2 DEF Refuse, Leave
  <1>3. ASSUME NEW query, Continue(r, query)
        PROVE  \A q \in Requests \ {r} : Same(q)
    BY <1>3 DEF Continue
  <1>4. ASSUME Arrive(r)
        PROVE  \A q \in Requests \ {r} : Same(q)
    BY <1>4, ArriveBegins DEF Begin, Begins
  <1>5. ASSUME FindBrand(r) \/ FindCategory(r) \/ FindProduct(r) \/ FindOldBrand(r) \/ FindLastBrand(r) \/ Reread(r)
        PROVE  \A q \in Requests \ {r} : Same(q)
    BY <1>2, <1>3, <1>5 DEF FindBrand, FindCategory, FindProduct, FindOldBrand, FindLastBrand, Reread
  <1>6. ASSUME Insert(r) \/ Write(r) \/ SoftDelete(r) \/ InsertBrand(r) \/ UpdateBrand(r) \/ SoftDeleteBrand(r)
        PROVE  \A q \in Requests \ {r} : Same(q)
    BY <1>1, <1>2, <1>6 DEF Insert, Write, SoftDelete, InsertBrand, UpdateBrand, SoftDeleteBrand, Leave
  <1>7. ASSUME LoadProduct(r) \/ FindNewBrand(r) \/ FindNewCategory(r) \/ LoadRow(r) \/ LoadImages(r)
        PROVE  \A q \in Requests \ {r} : Same(q)
    BY <1>2, <1>7 DEF LoadProduct, FindNewBrand, FindNewCategory, LoadRow, LoadImages
  <1> QED
    BY <1>2, <1>4, <1>5, <1>6, <1>7 DEF Serve, Fail

\* What a request looked up or read was not deleted when it came.
SawLive ==
    \A r \in Requests :
        /\ gone[r] \subseteq DeletedRefs
        /\ pc[r] \in {"findCategory", "insert"} => sent[r].brand \notin gone[r]
        /\ pc[r] = "insert" => sent[r].category \notin gone[r]
        /\ held[r] # None => held[r].brand \notin gone[r] /\ held[r].category \notin gone[r]
        /\ pc[r] = "updateBrand" => id[r] \notin gone[r]

\* The same of one request, as a step leaves it.
SawLiveNext(r) ==
    /\ gone'[r] \subseteq DeletedRefs
    /\ pc'[r] \in {"findCategory", "insert"} => sent'[r].brand \notin gone'[r]
    /\ pc'[r] = "insert" => sent'[r].category \notin gone'[r]
    /\ held'[r] # None => held'[r].brand \notin gone'[r] /\ held'[r].category \notin gone'[r]
    /\ pc'[r] = "updateBrand" => id'[r] \notin gone'[r]

\* What is not deleted any more is forgotten by every request.
LEMMA DeletedRefsKept ==
    ASSUME Types, [Next]_vars, NEW d \in DeletedRefs, NEW q \in Requests
    PROVE  d \in DeletedRefs' \/ d \notin gone'[q]
  <1>1. CASE d \in CategoryIds \ categories
    BY <1>1, NextDeletes DEF DeletionsStay, DeletedRefs
  <1>2. CASE d \in BrandIds /\ brands[d] # None /\ brands[d].deleted
    <2>1. brands'[d] # None /\ (brands'[d].deleted \/ DeletionsUndone(d))
      BY <1>2, NextDeletes DEF DeletionsStay
    <2>2. CASE brands'[d].deleted
      BY <1>2, <2>1, <2>2 DEF DeletedRefs
    <2>3. CASE DeletionsUndone(d) /\ ~brands'[d].deleted
      <3>1. PICK r \in Requests : UpdateBrand(r) /\ ~Refuse(r) /\ id[r] = d
        BY <2>3 DEF DeletionsUndone
      <3>2. /\ brands' = [brands EXCEPT ![d] = UpdatedBrand(r)]
            /\ LeaveWith(r, "reread", IF UpdatedBrand(r).deleted THEN {} ELSE {d})
        BY <3>1 DEF UpdateBrand
      <3>3. ~UpdatedBrand(r).deleted
        BY <1>2, <2>3, <3>2 DEF Types, TableTypes
      <3> QED
        BY <3>2, <3>3 DEF LeaveWith
    <2> QED
      BY <2>1, <2>2, <2>3
  <1> QED
    BY <1>1, <1>2 DEF DeletedRefs

\* A request that leaves has nothing to remember.
LEMMA LeaveSaw ==
    ASSUME Types, NEW r \in Requests, NEW query \in {"idle", "reread"}, NEW back, LeaveWith(r, query, back)
    PROVE  SawLiveNext(r)
  BY DEF LeaveWith, Types, RequestTypes, SawLiveNext

\* What is live is not among what is deleted.
LEMMA LiveIsNotDeleted ==
    /\ \A b \in LiveBrands : b \notin DeletedRefs
    /\ \A c \in CategoryIds : c \in categories => c \notin DeletedRefs
    /\ None \notin DeletedRefs
  BY KindsAssumption, NoneAssumption DEF LiveBrands, DeletedRefs

LEMMA StepSaw ==
    ASSUME Types, SawLive, NEW r \in Requests, Arrive(r) \/ Serve(r) \/ Fail(r)
    PROVE  SawLiveNext(r)
  <1>1. ASSUME Refuse(r)
        PROVE  SawLiveNext(r)
    BY <1>1, LeaveSaw DEF Refuse, Leave
  <1>2. ASSUME Insert(r) \/ SoftDelete(r) \/ InsertBrand(r) \/ UpdateBrand(r) \/ SoftDeleteBrand(r)
        PROVE  SawLiveNext(r)
    BY <1>1, <1>2, LeaveSaw DEF Insert, SoftDelete, InsertBrand, UpdateBrand, SoftDeleteBrand, Leave
  <1>3. ASSUME Write(r)
        PROVE  SawLiveNext(r)
    BY <1>1, <1>3, LeaveSaw DEF Write, Leave
  <1>4. ASSUME Arrive(r)
        PROVE  SawLiveNext(r)
    <2>1. PICK query \in {"findBrand", "load", "findProduct", "insertBrand", "findOldBrand", "findLastBrand"},
               x \in ProductIds \cup BrandIds \cup {None}, fields \in Fields, others \in Extras,
               already \in {DeletedRefs, {}} :
               Begin(r, query, x, fields, others, already)
      BY <1>4, ArriveBegins DEF Begins
    <2>2. held[r] = None
      BY <2>1 DEF Begin, Types, Knows, Updating
    <2> QED
      BY <2>1, <2>2 DEF Begin, Types, RequestTypes, SawLiveNext
  <1>5. ASSUME NEW query, Continue(r, query), query \notin {"findCategory", "insert", "updateBrand"}
        PROVE  SawLiveNext(r)
    BY <1>5 DEF Continue, SawLive, SawLiveNext, Types, RequestTypes
  <1>6. ASSUME FindProduct(r) \/ FindLastBrand(r) \/ Reread(r)
        PROVE  SawLiveNext(r)
    BY <1>1, <1>5, <1>6 DEF FindProduct, FindLastBrand, Reread
  <1>13. ASSUME FindOldBrand(r)
         PROVE  SawLiveNext(r)
    BY <1>1, <1>13, LiveIsNotDeleted DEF FindOldBrand, Continue, SawLive, SawLiveNext, Types, RequestTypes
  <1>7. ASSUME FindBrand(r)
        PROVE  SawLiveNext(r)
    BY <1>1, <1>7, LiveIsNotDeleted DEF FindBrand, Continue, SawLive, SawLiveNext, Types, RequestTypes
  <1>8. ASSUME FindCategory(r)
        PROVE  SawLiveNext(r)
    BY <1>1, <1>8, LiveIsNotDeleted
    DEF FindCategory, Continue, SawLive, SawLiveNext, Types, TableTypes, RequestTypes
  <1>9. ASSUME LoadProduct(r)
        PROVE  SawLiveNext(r)
    <2> DEFINE h == IF sent[r].data = None THEN Joined(id[r]) ELSE [Joined(id[r]) EXCEPT !.data = sent[r].data]
    <2>1. /\ Joined(id[r]).brand \notin DeletedRefs
          /\ Joined(id[r]).category \notin DeletedRefs
      BY LiveIsNotDeleted DEF Joined, Types, TableTypes
    <2>2. h.brand = Joined(id[r]).brand /\ h.category = Joined(id[r]).category
      BY DEF Joined
    <2>3. /\ held' = [held EXCEPT ![r] = h] /\ UNCHANGED <<sent, gone>>
          /\ pc'[r] \notin {"findCategory", "insert", "updateBrand"}
      BY <1>9 DEF LoadProduct, Types, RequestTypes
    <2> HIDE DEF h
    <2> QED
      BY <2>1, <2>2, <2>3 DEF SawLive, SawLiveNext, Types, RequestTypes
  <1>10. ASSUME FindNewBrand(r), ~Refuse(r)
         PROVE  SawLiveNext(r)
    <2>1. /\ sent[r].brand \in LiveBrands
          /\ held' = [held EXCEPT ![r].brand = sent[r].brand]
          /\ pc'[r] \notin {"findCategory", "insert", "updateBrand"}
          /\ UNCHANGED <<sent, gone>>
          /\ pc[r] = "findNewBrand"
      BY <1>10 DEF FindNewBrand, Types, RequestTypes
    <2>2. held[r] \in Entities
      BY <2>1 DEF Types, RequestTypes, Knows, Updating
    <2>3. held'[r].brand = sent[r].brand /\ held'[r].category = held[r].category /\ held[r] # None
      BY <2>1, <2>2, NoneAssumption DEF Types, RequestTypes, Entities
    <2> QED
      BY <2>1, <2>3, LiveIsNotDeleted DEF SawLive, SawLiveNext
  <1>11. ASSUME FindNewCategory(r), ~Refuse(r)
         PROVE  SawLiveNext(r)
    <2>1. /\ sent[r].category \in categories
          /\ held' = [held EXCEPT ![r].category = sent[r].category]
          /\ pc'[r] \notin {"findCategory", "insert", "updateBrand"}
          /\ UNCHANGED <<sent, gone>>
          /\ pc[r] = "findNewCategory"
      BY <1>11 DEF FindNewCategory, Types, RequestTypes
    <2>2. held[r] \in Entities
      BY <2>1 DEF Types, RequestTypes, Knows, Updating
    <2>3. held'[r].brand = held[r].brand /\ held'[r].category = sent[r].category /\ held[r] # None
      BY <2>1, <2>2, NoneAssumption DEF Types, RequestTypes, Entities
    <2> QED
      BY <2>1, <2>3, LiveIsNotDeleted DEF SawLive, SawLiveNext, Types, TableTypes
  <1>12. ASSUME LoadRow(r) \/ LoadImages(r)
         PROVE  SawLiveNext(r)
    BY <1>12 DEF LoadRow, LoadImages, SawLive, SawLiveNext, Types, RequestTypes
  <1> QED
    BY <1>1, <1>2, <1>3, <1>4, <1>6, <1>7, <1>8, <1>9, <1>10, <1>11, <1>12, <1>13 DEF Serve, Fail

LEMMA NextSaw ==
    ASSUME Types, SawLive, [Next]_vars
    PROVE  SawLive'
  <1>1. \A d \in DeletedRefs, q \in Requests : d \in DeletedRefs' \/ d \notin gone'[q]
    BY DeletedRefsKept
  <1>2. CASE \E r \in Requests : Arrive(r) \/ Serve(r) \/ Fail(r)
    <2>1. PICK r \in Requests : Arrive(r) \/ Serve(r) \/ Fail(r)
      BY <1>2
    <2>2. SawLiveNext(r)
      BY <2>1, StepSaw
    <2>3. \A q \in Requests \ {r} : Same(q)
      BY <2>1, OthersSame
    <2> QED
      BY <1>1, <2>2, <2>3 DEF SawLive, SawLiveNext, Same
  <1>3. CASE CategoryDeleted \/ ImagesSaved \/ UNCHANGED vars
    BY <1>1, <1>3 DEF CategoryDeleted, ImagesSaved, vars, request, SawLive
  <1> QED
    BY <1>2, <1>3 DEF Next

LEMMA InitSaw == Init => SawLive
  BY DEF Init, SawLive

\* A save that succeeds leaves each of brand and category with what the request
\* had read or looked up, or with what another call wrote.
LEMMA WriteRefers ==
    ASSUME Types, SawLive, NEW r \in Requests, Write(r), ~Refuse(r), NEW c \in {"brand", "category"}
    PROVE  LeavesLive(r, id[r], c)
  <1> DEFINE p == id[r]
             row == Merged(products[p], held[r], loaded[r])
  <1>1. /\ p \in ProductIds /\ products[p] \in ProductRows
        /\ held[r] \in Entities /\ loaded[r] \in Entities
        /\ row.brand # None /\ row.category # None
        /\ products'[p] = row
    BY WriteChanges DEF Allowed, Types, TableTypes
  <1>2. row[c] = IF held[r][c] # loaded[r][c] THEN held[r][c] ELSE products[p][c]
    BY <1>1, MergedType DEF Columns
  <1>4. held[r] # None /\ None \notin gone[r]
    BY <1>1, NoneAssumption, LiveIsNotDeleted DEF SawLive
  <1>5. held[r][c] \notin gone[r]
    <2>1. CASE c = "brand"
      BY <1>4, <2>1 DEF SawLive
    <2>2. CASE c = "category"
      BY <1>4, <2>2 DEF SawLive
    <2> QED
      BY <2>1, <2>2
  <1>6. row[c] # None
    <2>1. CASE c = "brand"
      BY <1>1, <2>1
    <2>2. CASE c = "category"
      BY <1>1, <2>2
    <2> QED
      BY <2>1, <2>2
  <1> HIDE DEF row
  <1> QED
    BY <1>1, <1>2, <1>5, <1>6 DEF LeavesLive

\* Which requests can be at a query before and after a step.
LEMMA OnlyInsertInserts ==
    ASSUME Types, [Next]_vars, NEW r \in Requests, pc[r] \in {"insert", "write"}, pc'[r] = "reread"
    PROVE  Insert(r) \/ (Write(r) /\ ~Refuse(r))
  <1>1. ASSUME NEW q \in Requests, Arrive(q) \/ Serve(q) \/ Fail(q)
        PROVE  q = r
    BY <1>1, OthersSame DEF Same
  <1>2. \E q \in Requests : Arrive(q) \/ Serve(q) \/ Fail(q)
    BY DEF Next, CategoryDeleted, ImagesSaved, vars, request
  <1>3. Arrive(r) \/ Serve(r) \/ Fail(r)
    BY <1>1, <1>2
  <1>4. ~Refuse(r)
    BY DEF Refuse, Leave, LeaveWith, Types, RequestTypes
  <1>5. ~Arrive(r)
    BY ArriveBegins DEF Begin, Begins
  <1> QED
    BY <1>3, <1>4, <1>5
    DEF Serve, Fail, FindBrand, FindCategory, LoadProduct, FindNewBrand, FindNewCategory, LoadRow, LoadImages,
        Reread, FindProduct, SoftDelete, InsertBrand, FindOldBrand, UpdateBrand, FindLastBrand, SoftDeleteBrand

\* A product is created with, or left by an update with, a brand and a category
\* that were not deleted at some moment of the call, or that another call wrote.
THEOREM RefersToWhatWasLive == Spec => RefersToLive
  <1> DEFINE Refers ==
               \A r \in Requests :
                 /\ pc[r] = "insert" /\ pc'[r] = "reread" =>
                      \A p \in ProductIds, c \in {"brand", "category"} :
                        products'[p] # products[p] => products'[p][c] \notin gone[r] \ {extra[r][c]}
                 /\ pc[r] = "write" /\ pc'[r] = "reread" =>
                      LeavesLive(r, id[r], "brand") /\ LeavesLive(r, id[r], "category")
  <1>1. ASSUME Types, SawLive, [Next]_vars
        PROVE  Refers
    <2>1. ASSUME NEW r \in Requests, pc[r] = "insert", pc'[r] = "reread",
                 NEW p \in ProductIds, NEW c \in {"brand", "category"}, products'[p] # products[p]
          PROVE  products'[p][c] \notin gone[r] \ {extra[r][c]}
      <3>1. Insert(r)
        BY <1>1, <2>1, OnlyInsertInserts DEF Write
      <3>2. products'[p] = NewProduct(r)
        BY <1>1, <2>1, <3>1 DEF Insert, Types, TableTypes
      <3>3. NewProduct(r)[c] = Given(extra[r][c], sent[r][c])
        BY DEF NewProduct
      <3>4. sent[r][c] \notin gone[r]
        BY <1>1, <2>1 DEF SawLive
      <3> QED
        BY <3>2, <3>3, <3>4 DEF Given
    <2>2. ASSUME NEW r \in Requests, pc[r] = "write", pc'[r] = "reread"
          PROVE  LeavesLive(r, id[r], "brand") /\ LeavesLive(r, id[r], "category")
      <3>1. Write(r) /\ ~Refuse(r)
        BY <1>1, <2>2, OnlyInsertInserts DEF Insert
      <3> QED
        BY <1>1, <3>1, WriteRefers
    <2> QED
      BY <2>1, <2>2
  <1>2. Types /\ SawLive /\ [Next]_vars => [Refers]_vars
    BY <1>1
  <1>3. Spec => [][Refers]_vars
    BY InitTypes, NextTypes, InitSaw, NextSaw, <1>2, PTL DEF Spec
  <1> QED
    BY <1>3 DEF RefersToLive

\* A deleted brand comes back only with an update that says so, and that found it
\* before it was deleted.
THEOREM BrandsComeBackOnlyAsAsked == Spec => BrandsComeBackAsAsked
  <1> DEFINE Asked == \A b \in BrandIds :
                        brands[b] # None /\ brands[b].deleted =>
                          /\ brands'[b] # None
                          /\ ~brands'[b].deleted =>
                               \E r \in Requests :
                                 pc[r] = "updateBrand" /\ id[r] = b /\ extra[r].deleted = FALSE /\ b \notin gone[r]
  <1>1. ASSUME Types, SawLive, [Next]_vars, NEW b \in BrandIds, brands[b] # None, brands[b].deleted
        PROVE  /\ brands'[b] # None
               /\ ~brands'[b].deleted =>
                    \E r \in Requests :
                      pc[r] = "updateBrand" /\ id[r] = b /\ extra[r].deleted = FALSE /\ b \notin gone[r]
    <2>1. brands'[b] # None /\ (brands'[b].deleted \/ DeletionsUndone(b))
      BY <1>1, NextDeletes DEF DeletionsStay
    <2> QED
      BY <1>1, <2>1 DEF DeletionsUndone, UpdateBrand, SawLive
  <1>2. Types /\ SawLive /\ [Next]_vars => [Asked]_vars
    BY <1>1
  <1>3. Spec => [][Asked]_vars
    BY InitTypes, NextTypes, InitSaw, NextSaw, <1>2, PTL DEF Spec
  <1> QED
    BY <1>3 DEF BrandsComeBackAsAsked

(***************************************************************************)
(* What nobody asked for                                                   *)
(***************************************************************************)

\* What the table held, or holds, when the save of r compares.
Base(r) == IF loaded[r] = None THEN products[id[r]] ELSE loaded[r]

\* Where what a request holds differs from what it compares with, it was sent the
\* difference, or the relation was deleted, or another call wrote the column.
Explained ==
    \A r \in Requests : held[r] # None =>
        \A c \in Columns :
            \/ held[r][c] = Base(r)[c]
            \/ c # "deleted" /\ held[r][c] = sent[r][c]
            \/ held[r][c] = None
            \/ c \in overtaken[r]

\* The steps that change a product.
LEMMA ProductChanges ==
    ASSUME Types, [Next]_vars, NEW p \in ProductIds, products'[p] # products[p]
    PROVE  \E r \in Requests :
             \/ Insert(r) /\ products[p] = None
             \/ Write(r) /\ ~Refuse(r) /\ p = id[r]
             \/ SoftDelete(r) /\ p = id[r]
             \/ InsertBrand(r)
  <1>1. PICK r \in Requests : Insert(r) \/ Write(r) \/ SoftDelete(r) \/ InsertBrand(r)
    BY ZenonT(30) DEF Next, Arrive, Serve, Fail, CategoryDeleted, ImagesSaved, vars, tables, Begin, Continue, Refuse,
           FindBrand, FindCategory, LoadProduct, FindNewBrand, FindNewCategory, LoadRow, LoadImages, Reread,
           FindProduct, FindOldBrand, UpdateBrand, FindLastBrand, SoftDeleteBrand
  <1>2. CASE Insert(r)
    BY <1>2 DEF Insert, Types, TableTypes
  <1>3. CASE Write(r)
    <2>1. ~Refuse(r)
      BY DEF Refuse, tables
    <2>2. \E row : products' = [products EXCEPT ![id[r]] = row]
      BY <1>3, <2>1 DEF Write, Store
    <2> QED
      BY <1>3, <2>1, <2>2 DEF Types, TableTypes
  <1>4. CASE SoftDelete(r)
    BY <1>4 DEF SoftDelete, Store, Types, TableTypes
  <1>5. CASE InsertBrand(r)
    BY <1>5
  <1> QED
    BY <1>1, <1>2, <1>3, <1>4, <1>5

LEMMA InitExplained == Init => Explained
  BY DEF Init, Explained

\* A request that has not compared yet is told of every column that another writes.
LEMMA OvertakenTells ==
    ASSUME Types, NEW r \in Requests, Arrive(r) \/ Serve(r) \/ Fail(r),
           NEW q \in Requests \ {r}, held[q] # None
    PROVE  /\ overtaken[q] \subseteq overtaken'[q]
           /\ \A c \in Columns :
                loaded[q] = None /\ products'[id[q]][c] # products[id[q]][c] => c \in overtaken'[q]
  <1> DEFINE Told == /\ overtaken[q] \subseteq overtaken'[q]
                     /\ \A c \in Columns :
                          loaded[q] = None /\ products'[id[q]][c] # products[id[q]][c] => c \in overtaken'[q]
  <1>1. id[q] \in ProductIds /\ products[id[q]] # None
    BY DEF Types, Knows, OfProducts
  <1>2. ASSUME UNCHANGED products, overtaken'[q] = overtaken[q]
        PROVE  Told
    BY <1>2
  <1>3. ASSUME Refuse(r)
        PROVE  Told
    BY <1>2, <1>3 DEF Refuse, tables, Types, RequestTypes
  <1>4. ASSUME NEW table, Store(r, table)
        PROVE  Told
    BY <1>4 DEF Store
  <1>5. ASSUME Insert(r)
        PROVE  Told
    BY <1>1, <1>5 DEF Insert, Types, TableTypes
  <1>6. ASSUME Write(r)
        PROVE  Told
    <2>1. CASE Refuse(r)
      BY <1>3, <2>1
    <2>2. CASE ~Refuse(r)
      BY <1>4, <1>6, <2>2, WriteChanges
    <2> QED
      BY <2>1, <2>2
  <1>7. ASSUME SoftDelete(r) \/ InsertBrand(r)
        PROVE  Told
    BY <1>4, <1>7 DEF SoftDelete, InsertBrand
  <1> HIDE DEF Told
  <1>8. ASSUME Arrive(r)
        PROVE  Told
    BY <1>2, <1>8, ArriveBegins DEF Begin, Begins, tables
  <1>9. ASSUME FindBrand(r) \/ FindCategory(r) \/ FindProduct(r) \/ FindOldBrand(r) \/ FindLastBrand(r) \/ Reread(r)
        PROVE  Told
    BY <1>2, <1>3, <1>9
    DEF FindBrand, FindCategory, FindProduct, FindOldBrand, FindLastBrand, Reread, Continue, tables
  <1>10. ASSUME LoadProduct(r) \/ FindNewBrand(r) \/ FindNewCategory(r) \/ LoadRow(r) \/ LoadImages(r)
                \/ UpdateBrand(r) \/ SoftDeleteBrand(r)
         PROVE  Told
    BY <1>2, <1>3, <1>10
    DEF LoadProduct, FindNewBrand, FindNewCategory, LoadRow, LoadImages, UpdateBrand,
        SoftDeleteBrand, tables
  <1>11. Told
    BY <1>3, <1>5, <1>6, <1>7, <1>8, <1>9, <1>10 DEF Serve, Fail
  <1> QED
    BY <1>11 DEF Told

\* Explained of one request, as a step leaves it.
ExplainedNext(r) ==
    held'[r] # None =>
        \A c \in Columns :
            \/ held'[r][c] = (IF loaded'[r] = None THEN products'[id'[r]] ELSE loaded'[r])[c]
            \/ c # "deleted" /\ held'[r][c] = sent'[r][c]
            \/ held'[r][c] = None
            \/ c \in overtaken'[r]

LEMMA StepExplained ==
    ASSUME Types, Explained, NEW r \in Requests, Arrive(r) \/ Serve(r) \/ Fail(r)
    PROVE  ExplainedNext(r)
  <1>1. ASSUME NEW query, NEW back, LeaveWith(r, query, back)
        PROVE  ExplainedNext(r)
    BY <1>1 DEF LeaveWith, Types, RequestTypes, ExplainedNext
  <1>2. ASSUME Refuse(r)
        PROVE  ExplainedNext(r)
    BY <1>1, <1>2 DEF Refuse, Leave
  <1>3. ASSUME Insert(r) \/ Write(r) \/ SoftDelete(r) \/ InsertBrand(r) \/ UpdateBrand(r) \/ SoftDeleteBrand(r)
        PROVE  ExplainedNext(r)
    BY <1>1, <1>2, <1>3 DEF Insert, Write, SoftDelete, InsertBrand, UpdateBrand, SoftDeleteBrand, Leave
  <1>4. ASSUME pc[r] \notin Updating, held' = held
        PROVE  ExplainedNext(r)
    BY <1>4 DEF Types, Knows, ExplainedNext
  <1>5. ASSUME Arrive(r)
        PROVE  ExplainedNext(r)
    BY <1>4, <1>5, ArriveBegins DEF Begin, Begins, Updating
  <1>6. ASSUME FindBrand(r) \/ FindCategory(r) \/ FindProduct(r) \/ FindOldBrand(r) \/ FindLastBrand(r) \/ Reread(r)
        PROVE  ExplainedNext(r)
    BY <1>2, <1>4, <1>6
    DEF FindBrand, FindCategory, FindProduct, FindOldBrand, FindLastBrand, Reread, Continue, Updating
  <1>7. ASSUME LoadProduct(r)
        PROVE  ExplainedNext(r)
    <2> DEFINE h == IF sent[r].data = None THEN Joined(id[r]) ELSE [Joined(id[r]) EXCEPT !.data = sent[r].data]
    <2>1. /\ held' = [held EXCEPT ![r] = h]
          /\ UNCHANGED <<products, id, sent, loaded, overtaken>>
          /\ pc[r] = "load"
      BY <1>7 DEF LoadProduct, tables
    <2>2. loaded[r] = None
      BY <2>1 DEF Types, Knows
    <2>3. \A c \in Columns :
            \/ h[c] = products[id[r]][c]
            \/ c # "deleted" /\ h[c] = sent[r][c]
            \/ h[c] = None
      BY DEF Columns, Joined
    <2>4. held'[r] = h
      BY <2>1 DEF Types, RequestTypes
    <2> HIDE DEF h
    <2> QED
      BY <2>1, <2>2, <2>3, <2>4 DEF ExplainedNext
  <1>8. ASSUME FindNewBrand(r), ~Refuse(r)
        PROVE  ExplainedNext(r)
    <2>1. /\ held' = [held EXCEPT ![r].brand = sent[r].brand]
          /\ UNCHANGED <<products, id, sent, loaded, overtaken>>
          /\ pc[r] = "findNewBrand"
      BY <1>8 DEF FindNewBrand, tables
    <2>2. held[r] \in Entities /\ held[r] # None
      BY <2>1 DEF Types, RequestTypes, Knows, Updating
    <2>3. held'[r] = [held[r] EXCEPT !.brand = sent[r].brand]
      BY <2>1 DEF Types, RequestTypes
    <2>4. \A c \in Columns : held'[r][c] = IF c = "brand" THEN sent[r][c] ELSE held[r][c]
      BY <2>2, <2>3 DEF Columns, Entities
    <2> QED
      BY <2>1, <2>2, <2>4 DEF Explained, ExplainedNext, Base
  <1>9. ASSUME FindNewCategory(r), ~Refuse(r)
        PROVE  ExplainedNext(r)
    <2>1. /\ held' = [held EXCEPT ![r].category = sent[r].category]
          /\ UNCHANGED <<products, id, sent, loaded, overtaken>>
          /\ pc[r] = "findNewCategory"
      BY <1>9 DEF FindNewCategory, tables
    <2>2. held[r] \in Entities /\ held[r] # None
      BY <2>1 DEF Types, RequestTypes, Knows, Updating
    <2>3. held'[r] = [held[r] EXCEPT !.category = sent[r].category]
      BY <2>1 DEF Types, RequestTypes
    <2>4. \A c \in Columns : held'[r][c] = IF c = "category" THEN sent[r][c] ELSE held[r][c]
      BY <2>2, <2>3 DEF Columns, Entities
    <2> QED
      BY <2>1, <2>2, <2>4 DEF Explained, ExplainedNext, Base
  <1>10. ASSUME LoadRow(r)
         PROVE  ExplainedNext(r)
    <2> DEFINE row == products[id[r]]
               l == [data |-> row.data, brand |-> row.brand, category |-> row.category,
                     deleted |-> row.deleted, images |-> {}]
    <2>1. /\ loaded' = [loaded EXCEPT ![r] = l]
          /\ UNCHANGED <<products, id, sent, held, overtaken>>
          /\ pc[r] = "loadRow"
      BY <1>10 DEF LoadRow, tables
    <2>2. loaded[r] = None /\ held[r] # None
      BY <2>1 DEF Types, Knows, Updating
    <2>3. \A c \in Columns : l[c] = row[c]
      BY DEF Columns
    <2>4. loaded'[r] = l
      BY <2>1 DEF Types, RequestTypes
    <2>5. loaded'[r] # None
      BY <1>10, LoadRowTypes, <2>1, <2>2 DEF LoadRow, Types, RequestTypes, Knows
    <2> HIDE DEF l
    <2> QED
      BY <2>1, <2>2, <2>3, <2>4, <2>5 DEF Explained, ExplainedNext, Base
  <1>11. ASSUME LoadImages(r)
         PROVE  ExplainedNext(r)
    <2>1. /\ loaded' = [loaded EXCEPT ![r].images = LiveImages(id[r])]
          /\ UNCHANGED <<products, id, sent, held, overtaken>>
          /\ pc[r] = "loadImages"
      BY <1>11 DEF LoadImages, tables
    <2>2. loaded[r] \in Entities /\ loaded[r] # None /\ held[r] # None
      BY <2>1 DEF Types, RequestTypes, Knows, Updating
    <2>3. loaded'[r] = [loaded[r] EXCEPT !.images = LiveImages(id[r])]
      BY <2>1 DEF Types, RequestTypes
    <2>4. \A c \in Columns : loaded'[r][c] = loaded[r][c]
      BY <2>2, <2>3 DEF Columns, Entities
    <2>5. loaded'[r] # None
      <3>1. LiveImages(id[r]) \subseteq ImageIds
        BY DEF LiveImages
      <3> QED
        BY <2>2, <2>3, <3>1, NoneAssumption DEF Entities
    <2> QED
      BY <2>1, <2>2, <2>4, <2>5 DEF Explained, ExplainedNext, Base
  <1> QED
    BY <1>2, <1>3, <1>5, <1>6, <1>7, <1>8, <1>9, <1>10, <1>11 DEF Serve, Fail

LEMMA NextExplained ==
    ASSUME Types, Explained, [Next]_vars
    PROVE  Explained'
  <1>1. CASE \E r \in Requests : Arrive(r) \/ Serve(r) \/ Fail(r)
    <2>1. PICK r \in Requests : Arrive(r) \/ Serve(r) \/ Fail(r)
      BY <1>1
    <2>2. ExplainedNext(r)
      BY <2>1, StepExplained
    <2>3. ASSUME NEW q \in Requests \ {r}, held'[q] # None, NEW c \in Columns
          PROVE  \/ held'[q][c] = Base(q)'[c]
                 \/ c # "deleted" /\ held'[q][c] = sent'[q][c]
                 \/ held'[q][c] = None
                 \/ c \in overtaken'[q]
      <3>1. Same(q)
        BY <2>1, OthersSame
      <3>2. /\ overtaken[q] \subseteq overtaken'[q]
            /\ loaded[q] = None /\ products'[id[q]][c] # products[id[q]][c] => c \in overtaken'[q]
        BY <2>1, <2>3, <3>1, OvertakenTells DEF Same
      <3> QED
        BY <2>3, <3>1, <3>2 DEF Same, Explained, Base
    <2> QED
      BY <2>2, <2>3 DEF Explained, ExplainedNext, Base
  <1>2. CASE CategoryDeleted \/ ImagesSaved \/ UNCHANGED vars
    BY <1>2 DEF CategoryDeleted, ImagesSaved, vars, request, Explained, Base
  <1> QED
    BY <1>1, <1>2 DEF Next

\* A column of a product changes because a call asked for that value, or deletes
\* the product; or because a save puts back what it had read before another call
\* wrote the column.
THEOREM ChangesAreExplained == Spec => ChangesAreAsked
  <1> DEFINE Asked ==
               \A p \in ProductIds, c \in Columns :
                 products[p] # None /\ products'[p][c] # products[p][c] =>
                   \E r \in Requests :
                     \/ c = "brand" /\ pc[r] = "insertBrand" /\ p \in extra[r].products
                     \/ /\ id[r] = p
                        /\ \/ c # "deleted" /\ pc[r] = "write" /\ products'[p][c] = sent[r][c]
                           \/ c = "deleted" /\ pc[r] = "softDelete"
                           \/ c \in overtaken[r] /\ pc[r] = "write" /\ products'[p][c] = held[r][c]
  <1>1. ASSUME Types, Explained, [Next]_vars,
               NEW p \in ProductIds, NEW c \in Columns, products[p] # None, products'[p][c] # products[p][c]
        PROVE  \E r \in Requests :
                 \/ c = "brand" /\ pc[r] = "insertBrand" /\ p \in extra[r].products
                 \/ /\ id[r] = p
                    /\ \/ c # "deleted" /\ pc[r] = "write" /\ products'[p][c] = sent[r][c]
                       \/ c = "deleted" /\ pc[r] = "softDelete"
                       \/ c \in overtaken[r] /\ pc[r] = "write" /\ products'[p][c] = held[r][c]
    <2>1. PICK r \in Requests :
            \/ Write(r) /\ ~Refuse(r) /\ p = id[r]
            \/ SoftDelete(r) /\ p = id[r]
            \/ InsertBrand(r)
      BY <1>1, ProductChanges
    <2>4. CASE InsertBrand(r)
      <3>1. PICK b \in BrandIds : products' = Rebranded(r, b)
        BY <2>4 DEF InsertBrand, Store, Rebranded
      <3>2. c = "brand" /\ p \in extra[r].products
        BY <1>1, <3>1, RebrandedType
      <3> QED
        BY <2>4, <3>2 DEF InsertBrand
    <2>2. CASE SoftDelete(r) /\ p = id[r]
      <3>1. products'[p] = [products[p] EXCEPT !.deleted = TRUE] /\ products[p] \in ProductRows
        BY <1>1, <2>2 DEF SoftDelete, Store, Types, TableTypes
      <3>2. c = "deleted"
        BY <1>1, <3>1 DEF ProductRows, Columns
      <3> QED
        BY <2>1, <2>2, <3>2 DEF SoftDelete
    <2>3. CASE Write(r) /\ ~Refuse(r) /\ p = id[r]
      <3> DEFINE row == Merged(products[p], held[r], loaded[r])
      <3>1. /\ pc[r] = "write" /\ id[r] = p
            /\ products[p] \in ProductRows /\ row \in ProductRows
            /\ held[r] \in Entities /\ loaded[r] \in Entities
            /\ products'[p] = row
        BY <1>1, <2>3, WriteChanges DEF Write, Types, TableTypes
      <3>2. row[c] = IF held[r][c] # loaded[r][c] THEN held[r][c] ELSE products[p][c]
        BY <3>1, MergedType
      <3>3. products'[p][c] = held[r][c] /\ held[r][c] # loaded[r][c]
        BY <1>1, <3>1, <3>2
      <3>4. held[r] # None /\ loaded[r] # None
        BY <3>1, NoneAssumption
      <3>5. row[c] # None
        BY <3>1, NoneAssumption DEF ProductRows, Columns
      <3> HIDE DEF row
      <3> QED
        BY <1>1, <3>1, <3>3, <3>4, <3>5 DEF Explained, Base
    <2> QED
      BY <2>1, <2>2, <2>3, <2>4
  <1>2. Types /\ Explained /\ [Next]_vars => [Asked]_vars
    BY <1>1
  <1>3. Spec => [][Asked]_vars
    BY InitTypes, NextTypes, InitExplained, NextExplained, <1>2, PTL DEF Spec
  <1> QED
    BY <1>3 DEF ChangesAreAsked

=============================================================================
