------------------------------ MODULE Validators ------------------------------
(***************************************************************************)
(* The validation decorators Text, Num, Bool, Uuid and                     *)
(* MutuallyExclusiveFields: what each accepts, and the message a refused   *)
(* value gets.  class-validator asks the two questions one after the       *)
(* other, and the code answers them by two chains of conditions.           *)
(*                                                                         *)
(* A value is known by its JavaScript type and what the validators look    *)
(* at.  Objects and arrays are refused like every value of a wrong type.   *)
(***************************************************************************)
EXTENDS Integers, Sequences

CONSTANT None  \* an option that is not set

\* n is the length of a text, which uuid it is, a number (rounded down), or 1
\* for true.  There is one text of each length and one fraction after each whole
\* number, so that equal values are equal.
Undefined   == [type |-> "undefined", form |-> "", n |-> 0]
Null        == [type |-> "null", form |-> "", n |-> 0]
Bit(b)      == [type |-> "boolean", form |-> "", n |-> IF b THEN 1 ELSE 0]
Text(len)   == [type |-> "string", form |-> "", n |-> len]
Uuid(which) == [type |-> "string", form |-> "uuid", n |-> which]
Number(k)   == [type |-> "number", form |-> "int", n |-> k]

Texts   == [type: {"string"}, form: {"", "uuid"}, n: Nat]
Numbers == [type: {"number"}, form: {"int", "fraction"}, n: Int]
Value   == {Undefined, Null, Bit(TRUE), Bit(FALSE)} \cup Texts \cup Numbers

UuidLength == 36
Length(v)  == IF v.form = "uuid" THEN UuidLength ELSE v.n

Nil(v)     == v.type \in {"undefined", "null"}  \* v == null
Truthy(v)  == v.n # 0 \/ v.form \in {"uuid", "fraction"}
IsText(v)  == v.type = "string"
IsBit(v)   == v.type = "boolean"
IsNum(v)   == v.type = "number"

(***************************************************************************)
(* Messages                                                                *)
(***************************************************************************)
NoMessage == <<>>

\* What class-validator is given when defaultMessage returns nothing.
Wordless == <<"", "">>

When(condition, message) == IF condition THEN message ELSE NoMessage

\* The first message of a list, if there is any.
First(messages) ==
    IF \A k \in DOMAIN messages : messages[k] = NoMessage THEN NoMessage
    ELSE messages[CHOOSE k \in DOMAIN messages :
                    messages[k] # NoMessage /\ \A j \in 1..(k - 1) : messages[j] = NoMessage]

\* What a validator that accepts or not, and has a message or not, results in.
Checked(valid, message) ==
    IF valid THEN NoMessage ELSE IF message = NoMessage THEN Wordless ELSE message

\* A value that must not be null or undefined; both are allowed or not.
Missing(v, o) == (~o.null /\ v = Null) \/ (~o.undefined /\ v = Undefined)

MissingMessage(f, v, o) ==
    First(<<When(~o.null /\ v = Null, <<f, "NULL">>),
            When(~o.undefined /\ v = Undefined, <<f, "REQUIRED">>)>>)

(***************************************************************************)
(* Text: both chains call the same functions                               *)
(***************************************************************************)
TooShort(v, o) == o.min # 0 /\ IsText(v) /\ Length(v) < o.min
TooLong(v, o)  == o.max # None /\ IsText(v) /\ Length(v) > o.max

TextValid(v, o) ==
    /\ ~Missing(v, o)
    /\ Nil(v) \/ IsText(v)
    /\ ~TooShort(v, o)
    /\ ~TooLong(v, o)

TextMessage(f, v, o) ==
    First(<<MissingMessage(f, v, o),
            When(~Nil(v) /\ ~IsText(v), <<f, "INVALID">>),
            When(TooShort(v, o), <<f, "MIN_LEN">>),
            When(TooLong(v, o), <<f, "MAX_LEN">>)>>)

(***************************************************************************)
(* Num                                                                     *)
(***************************************************************************)
TooSmall(v, o) == o.min # None /\ v.n < o.min
TooLarge(v, o) == o.max # None /\ (v.n > o.max \/ (v.form = "fraction" /\ v.n = o.max))

NumValid(v, o) ==
    /\ ~Missing(v, o)
    /\ \/ Nil(v)
       \/ IsNum(v) /\ ~(o.int /\ v.form # "int") /\ ~TooSmall(v, o) /\ ~TooLarge(v, o)

NumMessage(f, v, o) ==
    IF ~Missing(v, o) /\ Nil(v) THEN NoMessage
    ELSE First(<<MissingMessage(f, v, o),
                 When(~IsNum(v), <<f, "INVALID">>),
                 When(o.int /\ v.form # "int", <<f, "INT">>),
                 When(TooSmall(v, o), <<f, "MIN">>),
                 When(TooLarge(v, o), <<f, "MAX">>),
                 <<f, "INVALID">> >>)

(***************************************************************************)
(* Bool and Uuid                                                           *)
(***************************************************************************)
BoolValid(v, o) == ~Missing(v, o) /\ (Nil(v) \/ IsBit(v))

BoolMessage(f, v, o) == First(<<MissingMessage(f, v, o), <<f, "INVALID">> >>)

IsValidUUID(v) == IsText(v) /\ v.form = "uuid"

UuidValid(v, o) == ~Missing(v, o) /\ (Nil(v) \/ IsValidUUID(v))

UuidMessage(f, v, o) ==
    IF ~Missing(v, o) /\ Nil(v) THEN NoMessage
    ELSE First(<<MissingMessage(f, v, o), When(IsText(v), <<f, "INVALID">>), <<f, "STRING">> >>)

(***************************************************************************)
(* MutuallyExclusiveFields: one of the two, and not both                   *)
(***************************************************************************)
\* Mutant: both are accepted.
ExclusiveValidAny(source, target) == ~(Nil(source) /\ Nil(target))

ExclusiveValid(source, target) == Nil(source) # Nil(target)

ExclusiveMessage(f, source, target) ==
    First(<<When(~Nil(source) /\ ~Nil(target), <<f, "BOTH_DEFINED">>),
            When(Nil(source) /\ Nil(target), <<f, "NONE_DEFINED">>)>>)
=============================================================================
