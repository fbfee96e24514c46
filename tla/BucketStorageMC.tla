--------------------------- MODULE BucketStorageMC ---------------------------
(***************************************************************************)
(* Instances of BucketStorage for TLC.                                     *)
(***************************************************************************)
EXTENDS BucketStorage, TLC

\* Two objects in one directory, and one in a directory within it.
SomeNames ==
    {<<"public", "products", "a">>, <<"public", "products", "thumbs", "b">>, <<"deleted", "a">>}

SomeDirectories == {<<"public">>, <<"public", "products">>}

\* Contents and requests are alike.
Alike == Permutations(Contents) \cup Permutations(Requests)
=============================================================================
