--------------------------- MODULE ImagePayloadMC ---------------------------
(***************************************************************************)
(* Instances of ImagePayload for TLC.                                      *)
(***************************************************************************)
EXTENDS ImagePayload

Png == [ext |-> ".png", large |-> FALSE]

\* No form; none to three files, the third one too many; files that are refused.
SomeFileLists ==
    {None, <<>>, <<Png>>, <<Png, Png>>, <<Png, Png, Png>>,
     <<[ext |-> ".webp", large |-> FALSE]>>, <<Png, [ext |-> ".pdf", large |-> FALSE]>>,
     <<[ext |-> ".jpg", large |-> TRUE], Png>>}

Fraction == [type |-> "number", form |-> "fraction", n |-> 0]

\* An element that names an image or a file, and another value for one field.
ForImage(u) == [NoFields EXCEPT !["imageId"] = Uuid(u)]
ForFile(k)  == [NoFields EXCEPT !["fileIdx"] = Number(k)]

Variants ==
    {[ForFile(0) EXCEPT ![f] = v] :
        f \in {"name", "description"}, v \in {Null, Text(0), Text(1), Text(2), Uuid(1), Bit(FALSE)}}
    \cup {[ForImage(1) EXCEPT ![f] = v] :
        f \in {"main", "active", "delete"}, v \in {Null, Bit(TRUE), Bit(FALSE), Text(0), Text(1), Uuid(0), Fraction}}
    \cup {[ForFile(0) EXCEPT !["imageId"] = v] : v \in {Null, Uuid(1), Text(1), Number(1)}}
    \cup {[ForImage(1) EXCEPT !["fileIdx"] = v] : v \in {Null, Number(0), Number(-1), Fraction, Text(1)}}
    \cup {[NoFields EXCEPT !["fileIdx"] = v] : v \in {Undefined, Null, Number(-1), Fraction, Text(1)}}
    \cup {[NoFields EXCEPT !["imageId"] = v] : v \in {Null, Text(1), Number(1)}}
    \cup {[ForImage(2) EXCEPT !["main"] = Bit(TRUE)], ForFile(1),
          [ForFile(1) EXCEPT !["main"] = Bit(TRUE)], [ForFile(1) EXCEPT !["delete"] = Bit(TRUE)]}

SomeItems ==
    {[shape |-> s, fields |-> NoFields] : s \in {"null", "scalar", "array"}}
    \cup {[shape |-> "object", fields |-> i] : i \in Variants}

\* Every form of metadata, and every list of at most two elements.
SomeBodies ==
    {[form |-> f, items |-> <<>>] : f \in BodyForms}
    \cup {[form |-> "list", items |-> <<i>>] : i \in SomeItems}
    \cup {[form |-> "list", items |-> <<i, j>>] : i, j \in SomeItems}
=============================================================================
