------------------------------ MODULE QueriesMC ------------------------------
(***************************************************************************)
(* Instances of Queries for TLC.                                           *)
(***************************************************************************)
EXTENDS Queries, TLC

CONSTANTS p1, p2, b1, b2, c1, c2, u1, i1, i2

BrandOfValue    == (p1 :> b1) @@ (p2 :> b2)
CategoryOfValue == (p1 :> c1) @@ (p2 :> c2)
ImageOfValue    == (i1 :> p1) @@ (i2 :> p1)
ParentOfValue   == (c1 :> None) @@ (c2 :> c1)

\* Products of the same name, categories of different names.
NameOfValue == [x \in Rows |-> IF x = c1 THEN 2 ELSE 1]

Absent  == [form |-> "absent", value |-> "other"]
Text(v) == [form |-> "text", value |-> v]
NoIds   == [form |-> "absent", items |-> <<>>]
Ids(items) == [form |-> "list", items |-> items]

Plain ==
    [form |-> "object", filters |-> [f \in FilterFields |-> Absent], text |-> "absent",
     brandIds |-> NoIds, categoryIds |-> NoIds, parentIds |-> NoIds,
     page |-> None, pageSize |-> None, orderBy |-> None]

Finds(kind, caller, queries) ==
    {[kind |-> kind, op |-> "find", caller |-> caller, query |-> q, id |-> None] : q \in queries}

\* Every valid combination of filters, for staff.
Filtered(kind) ==
    {[Plain EXCEPT !.filters = [f \in FilterFields |-> IF f \in FieldsOf(kind) THEN Text(v[f]) ELSE Absent]] :
       v \in Filters}

\* Every way to send one filter.
OneFilter ==
    {[Plain EXCEPT !.filters[f] = raw] :
       f \in FilterFields, raw \in {Absent} \cup {r \in RawFilter : r.form # "absent"}}

\* Every form of the parameter, and the other fields one by one.
Others ==
    {[Plain EXCEPT !.form = x] : x \in {"absent", "notText", "notJson", "null", "false", "scalar"}}
    \cup {[Plain EXCEPT !.text = x] : x \in {"blank", "match", "other"}}
    \cup {[Plain EXCEPT !.brandIds = x] :
            x \in {Ids(<<b1, b1>>), Ids(<<b1, b2>>), Ids(<<b1, b2, c1>>), Ids(<<None>>), [NoIds EXCEPT !.form = "other"]}}
    \cup {[Plain EXCEPT !.categoryIds = Ids(<<c2>>), !.filters["activeCategories"] = x] : x \in {Absent, Text("all")}}
    \cup {[Plain EXCEPT !.parentIds = x] :
            x \in {Ids(<<>>), Ids(<<c1>>), Ids(<<c1, c2>>), Ids(<<None>>), Ids(<<c1, None>>), Ids(<<c2, None>>),
                   Ids(<<c1, c2, None>>), Ids(<<"malformed">>)}}

\* Pages and orders, with all rows.
All == [Plain EXCEPT !.filters = [f \in FilterFields |->
                                    IF f \in {"activeBrands", "activeCategories"} THEN Absent ELSE Text("all")]]
Paged ==
    {[All EXCEPT !.page = n, !.pageSize = m, !.orderBy = o] :
       n \in {None, 0, 2}, m \in {None, 0, 1, 9},
       o \in {None, <<[column |-> "active", direction |-> "desc"]>>,
              <<[column |-> "name", direction |-> "asc"], [column |-> "name", direction |-> "desc"]>>}}

Calls ==
    UNION {Finds(kind, "ADMIN", Filtered(kind)) : kind \in Kinds}
    \cup UNION {Finds(kind, caller, OneFilter) : kind \in Kinds, caller \in {"visitor", "USER"}}
    \cup UNION {Finds(kind, "ROOT", Others \cup Paged) : kind \in Kinds}
    \cup UNION {Finds(kind, caller, Others) : kind \in Kinds, caller \in {"stranger", "visitor"}}
    \cup {[kind |-> "categories", op |-> "findById", caller |-> caller, query |-> q, id |-> x] :
            caller \in Callers, q \in OneFilter \cup Others, x \in Categories}
    \cup {[kind |-> "brands", op |-> "findById", caller |-> caller, query |-> q, id |-> b1] :
            caller \in Callers, q \in Others}
    \cup {c \in [kind: Kinds, op: {"findById"}, caller: Callers, query: {Plain}, id: Rows] :
            c.id \in RowsOf(c.kind)}
=============================================================================
