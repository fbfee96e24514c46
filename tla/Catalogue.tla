------------------------------ MODULE Catalogue ------------------------------
(***************************************************************************)
(* Products and brands: ProductService and BrandService .create, .update   *)
(* and .delete, one step per query, with what other services do meanwhile  *)
(* to the rows they read: categories are deleted, images of products are   *)
(* added and deleted.                                                      *)
(*                                                                         *)
(* An update of a product reads it joined with its brand, its category and *)
(* its images, changes that copy and saves it whole.  save() loads the row *)
(* and the ids of its images, and writes in one transaction what differs.  *)
(* An update of a brand is one UPDATE.                                     *)
(*                                                                         *)
(* Nothing takes properties off a body that its DTO does not declare.  An  *)
(* update of a product reads the declared ones only; the other calls hand  *)
(* the whole body to the repository, but for the id, so it may name the    *)
(* relations of the row and deletedAt as well.                             *)
(*                                                                         *)
(* Abstracted: code, name, model, price, quantity and active are one       *)
(* column, data; created and updated, which no property is about; an id    *)
(* nobody ever created is refused like that of a deleted row; requests     *)
(* with invalid data or ids are refused before any query.                  *)
(***************************************************************************)
EXTENDS Naturals, FiniteSets

CONSTANTS
    ProductIds, BrandIds, CategoryIds, ImageIds,  \* ids (bounds on the rows)
    Values,    \* what clients write into data
    Updates,   \* the fields clients send in an update, a set of Fields
    ProductExtras, \* what bodies have besides when a product is created,
    BrandExtras,   \* and when a brand is created or updated, sets of Extras
    Requests,  \* calls that may be served at the same time
    None       \* null; no row; a field that was not sent

ASSUME KindsAssumption == BrandIds \cap CategoryIds = {} /\ BrandIds \cap ProductIds = {}

VARIABLES
    products,    \* table products: a row, or None
    brands,      \* table brands
    images,      \* table products_images
    categories,  \* the categories that are not deleted
    pc,          \* the query each request is about to make
    id,          \* the product or brand it is about
    sent,        \* the fields it was sent
    extra,       \* what else its body has
    held,        \* the product it read and changed
    loaded,      \* the row and the images save() loaded to compare with
    gone,        \* history: for a create or update, what is deleted since before it came
    overtaken    \* history: columns others wrote between its read and LoadRow

tables  == <<products, brands, images, categories>>
request == <<pc, id, sent, extra, held, loaded, gone, overtaken>>
vars    == <<products, brands, images, categories, pc, id, sent, extra, held, loaded, gone, overtaken>>

Columns == {"data", "brand", "category", "deleted"}

ProductRows == [data: Values, brand: BrandIds, category: CategoryIds, deleted: BOOLEAN]
BrandRows == [data: Values, deleted: BOOLEAN]
ImageRows == [product: ProductIds, deleted: BOOLEAN]

\* A product with the relations TypeORM has loaded for it.
Entities ==
    [data: Values, brand: BrandIds \cup {None}, category: CategoryIds \cup {None}, deleted: BOOLEAN,
     images: SUBSET ImageIds]

Fields == [data: Values \cup {None}, brand: BrandIds \cup {None}, category: CategoryIds \cup {None}]
Nothing == [data |-> None, brand |-> None, category |-> None]

\* What a body may have that its DTO does not declare: deletedAt, null or a date,
\* and relations, as objects with ids.
Extras == [brand: BrandIds \cup {None}, category: CategoryIds \cup {None},
           deleted: BOOLEAN \cup {None}, images: SUBSET ImageIds, products: SUBSET ProductIds]
Plain == [brand |-> None, category |-> None, deleted |-> None, images |-> {}, products |-> {}]

ASSUME BodiesAssumption ==
    Updates \subseteq Fields /\ ProductExtras \subseteq Extras /\ BrandExtras \subseteq Extras

ASSUME NoneAssumption ==
    /\ None \notin ProductIds \cup BrandIds \cup CategoryIds \cup ImageIds \cup Values
    /\ None \notin ProductRows /\ None \notin BrandRows /\ None \notin ImageRows
    /\ None \notin Entities /\ None \notin BOOLEAN

Queries == {"findBrand", "findCategory", "insert",
            "load", "findNewBrand", "findNewCategory", "loadRow", "loadImages", "write", "reread",
            "findProduct", "softDelete",
            "insertBrand", "findOldBrand", "updateBrand", "findLastBrand", "softDeleteBrand"}

\* What findOne({ where: { id } }) finds.
LiveProducts == {p \in ProductIds : products[p] # None /\ ~products[p].deleted}
LiveBrands   == {b \in BrandIds : brands[b] # None /\ ~brands[b].deleted}
LiveImages(p) == {i \in ImageIds : images[i] # None /\ images[i].product = p /\ ~images[i].deleted}

Init ==
    /\ products = [p \in ProductIds |-> None]
    /\ brands = [b \in BrandIds |-> None]
    /\ images = [i \in ImageIds |-> None]
    /\ categories = CategoryIds
    /\ pc = [r \in Requests |-> "idle"]
    /\ id = [r \in Requests |-> None]
    /\ sent = [r \in Requests |-> Nothing]
    /\ extra = [r \in Requests |-> Plain]
    /\ held = [r \in Requests |-> None]
    /\ loaded = [r \in Requests |-> None]
    /\ gone = [r \in Requests |-> {}]
    /\ overtaken = [r \in Requests |-> {}]

(***************************************************************************)
(* Requests                                                                *)
(***************************************************************************)
DeletedRefs ==
    {b \in BrandIds : brands[b] # None /\ brands[b].deleted} \cup (CategoryIds \ categories)

Begin(r, query, x, fields, others, alreadyGone) ==
    /\ pc[r] = "idle"
    /\ pc' = [pc EXCEPT ![r] = query]
    /\ id' = [id EXCEPT ![r] = x]
    /\ sent' = [sent EXCEPT ![r] = fields]
    /\ extra' = [extra EXCEPT ![r] = others]
    /\ gone' = [gone EXCEPT ![r] = alreadyGone]
    /\ UNCHANGED <<tables, held, loaded, overtaken>>

Continue(r, query) ==
    /\ pc' = [pc EXCEPT ![r] = query]
    /\ UNCHANGED <<tables, id, sent, extra, held, loaded, gone, overtaken>>

\* The request is done with what it knew; query is its last one, or none. The
\* rows in back are not deleted any more.
LeaveWith(r, query, back) ==
    /\ pc' = [pc EXCEPT ![r] = query]
    /\ id' = [id EXCEPT ![r] = None]
    /\ sent' = [sent EXCEPT ![r] = Nothing]
    /\ extra' = [extra EXCEPT ![r] = Plain]
    /\ held' = [held EXCEPT ![r] = None]
    /\ loaded' = [loaded EXCEPT ![r] = None]
    /\ gone' = [q \in Requests |-> IF q = r THEN {} ELSE gone[q] \ back]

Leave(r, query) == LeaveWith(r, query, {})

Refuse(r) ==
    /\ Leave(r, "idle")
    /\ overtaken' = [overtaken EXCEPT ![r] = {}]
    /\ UNCHANGED tables

\* Request r writes the table; requests that hold a product and have not compared
\* it yet have been overtaken in what changes of it.
Store(r, table) ==
    /\ products' = table
    /\ overtaken' =
         [q \in Requests |->
            IF q = r THEN {}
            ELSE IF held[q] # None /\ loaded[q] = None
                 THEN overtaken[q] \cup {c \in Columns : products[id[q]][c] # table[id[q]][c]}
                 ELSE overtaken[q]]

Waiting(queries) == {r \in Requests : pc[r] \in queries}

Known(others) ==
    /\ others.brand # None => brands[others.brand] # None
    /\ \A i \in others.images : images[i] # None
    /\ \A p \in others.products : products[p] # None

\* Clients name rows they were told of. A call that creates a row comes only while
\* there is an id left for every request in progress (bound).
Arrive(r) ==
    \/ /\ Cardinality(Waiting({"findBrand", "findCategory", "insert"}))
            < Cardinality({p \in ProductIds : products[p] = None})
       /\ \E v \in Values, b \in BrandIds, c \in CategoryIds, x \in ProductExtras :
            /\ brands[b] # None /\ Known(x)
            /\ Begin(r, "findBrand", None, [data |-> v, brand |-> b, category |-> c], x, DeletedRefs)
    \/ \E p \in ProductIds :
         /\ products[p] # None
         /\ \/ \E f \in Updates :
                 /\ f.brand # None => brands[f.brand] # None
                 /\ Begin(r, "load", p, f, Plain, DeletedRefs)
            \/ Begin(r, "findProduct", p, Nothing, Plain, {})
    \/ /\ Cardinality(Waiting({"insertBrand"})) < Cardinality({b \in BrandIds : brands[b] = None})
       /\ \E v \in Values, x \in BrandExtras :
            /\ Known(x)
            /\ Begin(r, "insertBrand", None, [Nothing EXCEPT !.data = v], x, {})
    \/ \E b \in BrandIds :
         /\ brands[b] # None
         /\ \/ \E v \in Values \cup {None}, x \in BrandExtras :
                 /\ Known(x)
                 /\ Begin(r, "findOldBrand", b, [Nothing EXCEPT !.data = v], x, DeletedRefs)
            \/ Begin(r, "findLastBrand", b, Nothing, Plain, {})

(***************************************************************************)
(* ProductService.create                                                   *)
(***************************************************************************)
FindBrand(r) ==
    /\ pc[r] = "findBrand"
    /\ \/ sent[r].brand \in LiveBrands /\ Continue(r, "findCategory")
       \/ sent[r].brand \notin LiveBrands /\ Refuse(r)

\* Mutant: the category is not looked up.
FindCategoryUnchecked(r) == pc[r] = "findCategory" /\ Continue(r, "insert")

FindCategory(r) ==
    /\ pc[r] = "findCategory"
    /\ \/ sent[r].category \in categories /\ Continue(r, "insert")
       \/ sent[r].category \notin categories /\ Refuse(r)

Given(value, otherwise) == IF value = None THEN otherwise ELSE value

\* A relation in the body wins over the id that was looked up.
NewProduct(r) ==
    [data     |-> sent[r].data,
     brand    |-> Given(extra[r].brand, sent[r].brand),
     category |-> Given(extra[r].category, sent[r].category),
     deleted  |-> Given(extra[r].deleted, FALSE)]

\* Images become those of product p.
Moved(moving, p) ==
    [i \in ImageIds |-> IF i \in moving THEN [images[i] EXCEPT !.product = p] ELSE images[i]]

\* The whole body is saved, with the images it names.
Insert(r) ==
    /\ pc[r] = "insert"
    /\ \E p \in ProductIds :
         /\ products[p] = None
         /\ products' = [products EXCEPT ![p] = NewProduct(r)]
         /\ images' = Moved(extra[r].images, p)
    /\ Leave(r, "reread")
    /\ UNCHANGED <<brands, categories, overtaken>>

(***************************************************************************)
(* ProductService.update                                                   *)
(***************************************************************************)

\* Mutant: withDeleted() comes before the joins.
JoinedWithDeleted(p) ==
    [data |-> products[p].data, brand |-> products[p].brand, category |-> products[p].category,
     deleted |-> products[p].deleted, images |-> LiveImages(p)]

\* The joins are added before withDeleted(): the product is found even if it
\* is deleted, while of its relations only what is not deleted is.
Joined(p) ==
    [data     |-> products[p].data,
     brand    |-> IF products[p].brand \in LiveBrands THEN products[p].brand ELSE None,
     category |-> IF products[p].category \in categories THEN products[p].category ELSE None,
     deleted  |-> products[p].deleted,
     images   |-> LiveImages(p)]

LoadProduct(r) ==
    /\ pc[r] = "load"
    /\ LET found == Joined(id[r])
       IN  held' = [held EXCEPT ![r] =
                      IF sent[r].data = None THEN found ELSE [found EXCEPT !.data = sent[r].data]]
    /\ pc' = [pc EXCEPT ![r] = IF sent[r].brand # None THEN "findNewBrand"
                               ELSE IF sent[r].category # None THEN "findNewCategory"
                               ELSE "loadRow"]
    /\ UNCHANGED <<tables, id, sent, extra, loaded, gone, overtaken>>

FindNewBrand(r) ==
    /\ pc[r] = "findNewBrand"
    /\ \/ sent[r].brand \notin LiveBrands /\ Refuse(r)
       \/ /\ sent[r].brand \in LiveBrands
          /\ held' = [held EXCEPT ![r].brand = sent[r].brand]
          /\ pc' = [pc EXCEPT ![r] = IF sent[r].category # None THEN "findNewCategory" ELSE "loadRow"]
          /\ UNCHANGED <<tables, id, sent, extra, loaded, gone, overtaken>>

FindNewCategory(r) ==
    /\ pc[r] = "findNewCategory"
    /\ \/ sent[r].category \notin categories /\ Refuse(r)
       \/ /\ sent[r].category \in categories
          /\ held' = [held EXCEPT ![r].category = sent[r].category]
          /\ pc' = [pc EXCEPT ![r] = "loadRow"]
          /\ UNCHANGED <<tables, id, sent, extra, loaded, gone, overtaken>>

\* save() loads the row, deleted or not, and the ids of its images that are
\* not deleted, in two queries.
LoadRow(r) ==
    /\ pc[r] = "loadRow"
    /\ LET p == id[r]
       IN  loaded' = [loaded EXCEPT ![r] =
                        [data |-> products[p].data, brand |-> products[p].brand,
                         category |-> products[p].category, deleted |-> products[p].deleted,
                         images |-> {}]]
    /\ pc' = [pc EXCEPT ![r] = "loadImages"]
    /\ UNCHANGED <<tables, id, sent, extra, held, gone, overtaken>>

LoadImages(r) ==
    /\ pc[r] = "loadImages"
    /\ loaded' = [loaded EXCEPT ![r].images = LiveImages(id[r])]
    /\ pc' = [pc EXCEPT ![r] = "write"]
    /\ UNCHANGED <<tables, id, sent, extra, held, gone, overtaken>>

\* Mutant: the whole entity is written, its primary key aside.
MergedWhole(row, entity, base) ==
    [data |-> entity.data, brand |-> entity.brand, category |-> entity.category,
     deleted |-> entity.deleted]

\* The columns in which the entity differs from the row that was loaded are
\* written, the others keep what the table has.
Merged(row, entity, base) ==
    LET col(c) == IF entity[c] # base[c] THEN entity[c] ELSE row[c]
    IN  [data |-> col("data"), brand |-> col("brand"), category |-> col("category"),
         deleted |-> col("deleted")]

\* Images that were loaded to compare and that the entity does not list lose
\* their product; those that it lists and that were not loaded get it.
Detached(r) == loaded[r].images \ held[r].images
Attached(r) == held[r].images \ loaded[r].images

\* Mutants: a column is nullable.
AllowedWithoutProduct(row, detached) == row.brand # None /\ row.category # None
AllowedWithoutBrand(row, detached) == row.category # None /\ detached = {}

\* The columns that are not nullable.
Allowed(row, detached) == row.brand # None /\ row.category # None /\ detached = {}

\* The UPDATEs of the product and of images whose product differs: one
\* transaction.
Write(r) ==
    /\ pc[r] = "write"
    /\ LET p   == id[r]
           row == Merged(products[p], held[r], loaded[r])
       IN  \/ ~Allowed(row, Detached(r)) /\ Refuse(r)
           \/ /\ Allowed(row, Detached(r))
              /\ Store(r, [products EXCEPT ![p] = row])
              /\ images' = [i \in ImageIds |->
                              IF i \in Detached(r) THEN [images[i] EXCEPT !.product = None]
                              ELSE Moved(Attached(r), p)[i]]
              /\ Leave(r, "reread")
              /\ UNCHANGED <<brands, categories>>

\* create and update end with a query for the product they answer with.
Reread(r) == pc[r] = "reread" /\ Refuse(r)

(***************************************************************************)
(* ProductService.delete                                                   *)
(***************************************************************************)
FindProduct(r) ==
    /\ pc[r] = "findProduct"
    /\ \/ id[r] \in LiveProducts /\ Continue(r, "softDelete")
       \/ id[r] \notin LiveProducts /\ Refuse(r)

SoftDelete(r) ==
    /\ pc[r] = "softDelete"
    /\ Store(r, [products EXCEPT ![id[r]].deleted = TRUE])
    /\ Leave(r, "idle")
    /\ UNCHANGED <<brands, images, categories>>

(***************************************************************************)
(* BrandService                                                            *)
(***************************************************************************)

\* The whole body is saved, and the products it names get the brand.
InsertBrand(r) ==
    /\ pc[r] = "insertBrand"
    /\ \E b \in BrandIds :
         /\ brands[b] = None
         /\ brands' = [brands EXCEPT ![b] =
                         [data |-> sent[r].data, deleted |-> Given(extra[r].deleted, FALSE)]]
         /\ Store(r, [p \in ProductIds |-> IF p \in extra[r].products
                                           THEN [products[p] EXCEPT !.brand = b] ELSE products[p]])
    /\ Leave(r, "idle")
    /\ UNCHANGED <<images, categories>>

FindOldBrand(r) ==
    /\ pc[r] = "findOldBrand"
    /\ \/ id[r] \in LiveBrands /\ Continue(r, "updateBrand")
       \/ id[r] \notin LiveBrands /\ Refuse(r)

\* Mutant: the brand is saved as it was read.
UpdatedBrandWhole(r) == [data |-> Given(sent[r].data, brands[id[r]].data), deleted |-> Given(extra[r].deleted, FALSE)]

\* The columns that the body has, whether the row is deleted or not.
UpdatedBrand(r) ==
    [data    |-> Given(sent[r].data, brands[id[r]].data),
     deleted |-> Given(extra[r].deleted, brands[id[r]].deleted)]

\* update() of one row; it takes no lists of products.
UpdateBrand(r) ==
    /\ pc[r] = "updateBrand"
    /\ \/ extra[r].products # {} /\ Refuse(r)
       \/ /\ extra[r].products = {}
          /\ brands' = [brands EXCEPT ![id[r]] = UpdatedBrand(r)]
          /\ LeaveWith(r, "reread", IF UpdatedBrand(r).deleted THEN {} ELSE {id[r]})
          /\ UNCHANGED <<products, images, categories, overtaken>>

FindLastBrand(r) ==
    /\ pc[r] = "findLastBrand"
    /\ \/ id[r] \in LiveBrands /\ Continue(r, "softDeleteBrand")
       \/ id[r] \notin LiveBrands /\ Refuse(r)

\* Only this row: its products keep it.
SoftDeleteBrand(r) ==
    /\ pc[r] = "softDeleteBrand"
    /\ brands' = [brands EXCEPT ![id[r]].deleted = TRUE]
    /\ Leave(r, "idle")
    /\ UNCHANGED <<products, images, categories, overtaken>>

(***************************************************************************)
(* Other services                                                          *)
(***************************************************************************)

\* CategoryService.delete.
CategoryDeleted ==
    /\ \E c \in categories : categories' = categories \ {c}
    /\ UNCHANGED <<products, brands, images, request>>

\* bulkSave adds an image to a product it found, which may be deleted by now,
\* or deletes one.
ImagesSaved ==
    /\ \E i \in ImageIds :
         \/ /\ images[i] = None
            /\ \E p \in ProductIds :
                 /\ products[p] # None
                 /\ images' = [images EXCEPT ![i] = [product |-> p, deleted |-> FALSE]]
         \/ /\ images[i] # None
            /\ ~images[i].deleted
            /\ images' = [images EXCEPT ![i].deleted = TRUE]
    /\ UNCHANGED <<products, brands, categories, request>>

-----------------------------------------------------------------------------
Serve(r) ==
    \/ FindBrand(r) \/ FindCategory(r) \/ Insert(r)
    \/ LoadProduct(r) \/ FindNewBrand(r) \/ FindNewCategory(r)
    \/ LoadRow(r) \/ LoadImages(r) \/ Write(r) \/ Reread(r)
    \/ FindProduct(r) \/ SoftDelete(r)
    \/ InsertBrand(r) \/ FindOldBrand(r) \/ UpdateBrand(r) \/ FindLastBrand(r) \/ SoftDeleteBrand(r)

\* A query fails, or the process stops.
Fail(r) == pc[r] # "idle" /\ Refuse(r)

Next ==
    \/ \E r \in Requests : Arrive(r) \/ Serve(r) \/ Fail(r)
    \/ CategoryDeleted
    \/ ImagesSaved

Spec == Init /\ [][Next]_vars

-----------------------------------------------------------------------------
(***************************************************************************)
(* Properties                                                              *)
(***************************************************************************)

\* The type of every variable; each request knows what its next query needs.
TypeOK ==
    /\ products \in [ProductIds -> ProductRows \cup {None}]
    /\ brands \in [BrandIds -> BrandRows \cup {None}]
    /\ images \in [ImageIds -> ImageRows \cup {None}]
    /\ categories \subseteq CategoryIds
    /\ pc \in [Requests -> Queries \cup {"idle"}]
    /\ id \in [Requests -> ProductIds \cup BrandIds \cup {None}]
    /\ sent \in [Requests -> Fields]
    /\ extra \in [Requests -> Extras]
    /\ held \in [Requests -> Entities \cup {None}]
    /\ loaded \in [Requests -> Entities \cup {None}]
    /\ gone \in [Requests -> SUBSET (BrandIds \cup CategoryIds)]
    /\ overtaken \in [Requests -> SUBSET Columns]
    /\ \A r \in Requests :
         /\ pc[r] \in {"load", "findNewBrand", "findNewCategory", "loadRow", "loadImages", "write",
                      "findProduct", "softDelete"} =>
              id[r] \in ProductIds /\ products[id[r]] # None
         /\ pc[r] \in {"findOldBrand", "updateBrand", "findLastBrand", "softDeleteBrand"} =>
              id[r] \in BrandIds /\ brands[id[r]] # None
         /\ pc[r] \in {"findNewBrand", "findNewCategory", "loadRow", "loadImages", "write"}
              <=> held[r] # None
         /\ pc[r] \in {"loadImages", "write"} <=> loaded[r] # None

\* The column of the product that request r is done with names a row that was
\* live at some moment since r came, unless another call wrote it since save()
\* loaded the product.
LeavesLive(r, p, c) ==
    \/ products'[p][c] \notin gone[r] \cup {None}
    \/ products'[p][c] = products[p][c] /\ products[p][c] # loaded[r][c]

\* However the look-ups of brand and category, the deletion of either and the
\* saves of other calls interleave: a create or an update that succeeds leaves
\* the product with a brand and a category that were live at one moment of the
\* call (the look-ups in create and update, and the joins in update, whose
\* missing brand makes the save fail), but for a relation that the body of a
\* create names itself, which nothing looks up.
RefersToLive ==
    [][\A r \in Requests :
         /\ pc[r] = "insert" /\ pc'[r] = "reread" =>
              \A p \in ProductIds, c \in {"brand", "category"} :
                products'[p] # products[p] => products'[p][c] \notin gone[r] \ {extra[r][c]}
         /\ pc[r] = "write" /\ pc'[r] = "reread" =>
              LeavesLive(r, id[r], "brand") /\ LeavesLive(r, id[r], "category")]_vars

\* However saves of products and of images interleave, no image is ever left
\* without a product (an update that did not see a new image fails), and it moves
\* in two ways only: to a product that is created with it, and back to one whose
\* update had read it before that.
ImagesStay ==
    [][\A i \in ImageIds :
         images[i] # None =>
           /\ images'[i] # None
           /\ images'[i].product # images[i].product =>
                \E r \in Requests :
                  \/ pc[r] = "insert" /\ i \in extra[r].images /\ products[images'[i].product] = None
                  \/ pc[r] = "write" /\ i \in Attached(r) /\ images'[i].product = id[r]]_vars

\* What no call asked for changes in one way only: a column that another call
\* wrote between the read of an update and the load of its save() goes back to
\* what the update read.  This is also how a deleted product can come back.
ChangesAreAsked ==
    [][\A p \in ProductIds, c \in Columns :
         products[p] # None /\ products'[p][c] # products[p][c] =>
           \E r \in Requests :
             \/ c = "brand" /\ pc[r] = "insertBrand" /\ p \in extra[r].products
             \/ /\ id[r] = p
                /\ \/ c # "deleted" /\ pc[r] = "write" /\ products'[p][c] = sent[r][c]
                   \/ c = "deleted" /\ pc[r] = "softDelete"
                   \/ c \in overtaken[r] /\ pc[r] = "write" /\ products'[p][c] = held[r][c]]_vars

\* However updates and deletions of a brand interleave, a deleted brand comes back
\* in one way only: by an update whose body says deletedAt: null, and that found
\* the brand before it was deleted.  An update of other columns never undoes a
\* deletion.
BrandsComeBackAsAsked ==
    [][\A b \in BrandIds :
         brands[b] # None /\ brands[b].deleted =>
           /\ brands'[b] # None
           /\ ~brands'[b].deleted =>
                \E r \in Requests :
                  pc[r] = "updateBrand" /\ id[r] = b /\ extra[r].deleted = FALSE /\ b \notin gone[r]]_vars
=============================================================================
