----------------------------- MODULE CatalogueMC -----------------------------
(***************************************************************************)
(* Instances of Catalogue for TLC.                                         *)
(***************************************************************************)
EXTENDS Catalogue, TLC

\* Updates that name a new brand, and others that name the category.
SmallUpdates ==
    {[Nothing EXCEPT !.brand = b] : b \in BrandIds}
    \cup {[Nothing EXCEPT !.category = c, !.data = v] : c \in CategoryIds, v \in Values}

\* Bodies of products with a brand or an image of their own, or deleted from the
\* start, and of brands with deletedAt or with products.
SmallProductExtras ==
    {Plain, [Plain EXCEPT !.deleted = TRUE]}
    \cup {[Plain EXCEPT !.brand = b] : b \in BrandIds}
    \cup {[Plain EXCEPT !.images = {i}] : i \in ImageIds}
SmallBrandExtras ==
    {Plain} \cup {[Plain EXCEPT !.deleted = x] : x \in BOOLEAN}
    \cup {[Plain EXCEPT !.products = {p}] : p \in ProductIds}

\* Ids are generated, values and requests are alike.
Alike == Permutations(BrandIds) \cup Permutations(ProductIds) \cup Permutations(ImageIds)
           \cup Permutations(Values) \cup Permutations(Requests)

\* Either products or brands are in competition (bound): a second product and the
\* image, or a second brand, bodies with deletedAt or a brand of their own, and
\* the category deleted.
\* Each count includes the rows about to be inserted.
OneProduct ==
    /\ Cardinality({p \in ProductIds : products[p] # None})
         + Cardinality(Waiting({"findBrand", "findCategory", "insert"})) <= 1
    /\ \A i \in ImageIds : images[i] = None
OneBrand ==
    /\ Cardinality({b \in BrandIds : brands[b] # None}) + Cardinality(Waiting({"insertBrand"})) <= 1
    /\ \A r \in Requests : extra[r].deleted = None /\ extra[r].brand = None
    /\ categories = CategoryIds
Small == OneProduct \/ OneBrand
=============================================================================
