-------------------------- MODULE ImagePayloadProofs --------------------------
(***************************************************************************)
(* Proofs about ImagePayload: what is accepted, what is refused and why,   *)
(* and that every file ends in one item.                                   *)
(***************************************************************************)
EXTENDS ImagePayload, SequenceTheorems, FiniteSetTheorems, WellFoundedInduction, TLAPS

(***************************************************************************)
(* The first message of a list                                             *)
(***************************************************************************)
LEMMA LeastNumber ==
    ASSUME NEW T, T \subseteq Nat, T # {}
    PROVE  \E x \in T : \A y \in T : x <= y
  <1>1. PICK x \in T : \A y \in T : ~(<<y, x>> \in OpToRel(<, Nat))
    BY NatLessThanWellFounded, WFMin
  <1>2. ASSUME NEW y \in T PROVE x <= y
    <2>1. x \in Nat /\ y \in Nat
      OBVIOUS
    <2>2. <<y, x>> \in Nat \X Nat
      BY <2>1
    <2>3. ~(y < x)
      BY <1>1, <2>2 DEF OpToRel
    <2> QED
      BY <2>1, <2>3
  <1> QED
    BY <1>2

LEMMA FirstOfNone ==
    ASSUME NEW s, \A k \in DOMAIN s : s[k] = NoMessage
    PROVE  First(s) = NoMessage
  BY DEF First

LEMMA FirstOfSome ==
    ASSUME NEW n \in Nat, NEW s, DOMAIN s = 1..n, \E k \in 1..n : s[k] # NoMessage
    PROVE  \E k \in 1..n :
              /\ s[k] # NoMessage
              /\ First(s) = s[k]
              /\ \A j \in 1..n : j < k => s[j] = NoMessage
  <1> DEFINE T == {k \in 1..n : s[k] # NoMessage}
  <1>1. PICK k \in T : \A j \in T : k <= j
    <2>1. T \subseteq Nat /\ T # {}
      OBVIOUS
    <2> HIDE DEF T
    <2> QED
      BY <2>1, LeastNumber
  <1> DEFINE IsFirst(l) == s[l] # NoMessage /\ \A j \in 1..(l - 1) : s[j] = NoMessage
  <1>2. k \in 1..n /\ IsFirst(k)
    BY <1>1
  <1>3. \A l \in 1..n : IsFirst(l) => l = k
    BY <1>2
  <1>4. (CHOOSE l \in DOMAIN s : s[l] # NoMessage /\ \A j \in 1..(l - 1) : s[j] = NoMessage) = k
    BY <1>2, <1>3
  <1>5. First(s) = s[k]
    BY <1>2, <1>4 DEF First
  <1> QED
    BY <1>2, <1>5

FirstIn(s, n) ==
    \/ First(s) = NoMessage /\ \A k \in 1..n : s[k] = NoMessage
    \/ \E k \in 1..n :
          /\ s[k] # NoMessage
          /\ First(s) = s[k]
          /\ \A j \in 1..n : j < k => s[j] = NoMessage

LEMMA FirstOfList ==
    ASSUME NEW n \in Nat, NEW s, DOMAIN s = 1..n
    PROVE  FirstIn(s, n)
  BY FirstOfNone, FirstOfSome DEF FirstIn

LEMMA First2 ==
    ASSUME NEW a, NEW b
    PROVE  First(<<a, b>>) =
              IF a # NoMessage THEN a ELSE b
  <1> DEFINE s == <<a, b>>
  <1>1. DOMAIN s = 1..2 /\ s[1] = a /\ s[2] = b
    OBVIOUS
  <1> HIDE DEF s
  <1>2. FirstIn(s, 2)
    BY <1>1, FirstOfList
  <1>3. First(s) = IF a # NoMessage THEN a ELSE b
    BY <1>1, <1>2 DEF FirstIn
  <1> QED
    BY <1>3 DEF s

LEMMA First3 ==
    ASSUME NEW a, NEW b, NEW c
    PROVE  First(<<a, b, c>>) =
              IF a # NoMessage THEN a ELSE IF b # NoMessage THEN b ELSE c
  <1> DEFINE s == <<a, b, c>>
  <1>1. DOMAIN s = 1..3 /\ s[1] = a /\ s[2] = b /\ s[3] = c
    OBVIOUS
  <1> HIDE DEF s
  <1>2. FirstIn(s, 3)
    BY <1>1, FirstOfList
  <1>3. First(s) = IF a # NoMessage THEN a ELSE IF b # NoMessage THEN b ELSE c
    BY <1>1, <1>2 DEF FirstIn
  <1> QED
    BY <1>3 DEF s

LEMMA First4 ==
    ASSUME NEW a, NEW b, NEW c, NEW d
    PROVE  First(<<a, b, c, d>>) =
              IF a # NoMessage THEN a ELSE IF b # NoMessage THEN b ELSE IF c # NoMessage THEN c ELSE d
  <1> DEFINE s == <<a, b, c, d>>
  <1>1. DOMAIN s = 1..4 /\ s[1] = a /\ s[2] = b /\ s[3] = c /\ s[4] = d
    OBVIOUS
  <1> HIDE DEF s
  <1>2. FirstIn(s, 4)
    BY <1>1, FirstOfList
  <1>3. First(s) = IF a # NoMessage THEN a ELSE IF b # NoMessage THEN b ELSE IF c # NoMessage THEN c ELSE d
    BY <1>1, <1>2 DEF FirstIn
  <1> QED
    BY <1>3 DEF s

LEMMA First5 ==
    ASSUME NEW a, NEW b, NEW c, NEW d, NEW e
    PROVE  First(<<a, b, c, d, e>>) =
              IF a # NoMessage THEN a ELSE IF b # NoMessage THEN b ELSE IF c # NoMessage THEN c
              ELSE IF d # NoMessage THEN d ELSE e
  <1> DEFINE s == <<a, b, c, d, e>>
  <1>1. DOMAIN s = 1..5 /\ s[1] = a /\ s[2] = b /\ s[3] = c /\ s[4] = d /\ s[5] = e
    OBVIOUS
  <1> HIDE DEF s
  <1>2. FirstIn(s, 5)
    BY <1>1, FirstOfList
  <1>3. First(s) = IF a # NoMessage THEN a ELSE IF b # NoMessage THEN b ELSE IF c # NoMessage THEN c
                   ELSE IF d # NoMessage THEN d ELSE e
    BY <1>1, <1>2 DEF FirstIn
  <1> QED
    BY <1>3 DEF s

LEMMA First6 ==
    ASSUME NEW a, NEW b, NEW c, NEW d, NEW e, NEW f
    PROVE  First(<<a, b, c, d, e, f>>) =
              IF a # NoMessage THEN a ELSE IF b # NoMessage THEN b ELSE IF c # NoMessage THEN c
              ELSE IF d # NoMessage THEN d ELSE IF e # NoMessage THEN e ELSE f
  <1> DEFINE s == <<a, b, c, d, e, f>>
  <1>1. DOMAIN s = 1..6 /\ s[1] = a /\ s[2] = b /\ s[3] = c /\ s[4] = d /\ s[5] = e /\ s[6] = f
    OBVIOUS
  <1> HIDE DEF s
  <1>2. FirstIn(s, 6)
    BY <1>1, FirstOfList
  <1>3. First(s) = IF a # NoMessage THEN a ELSE IF b # NoMessage THEN b ELSE IF c # NoMessage THEN c
                   ELSE IF d # NoMessage THEN d ELSE IF e # NoMessage THEN e ELSE f
    BY <1>1, <1>2 DEF FirstIn
  <1> QED
    BY <1>3 DEF s

LEMMA First9 ==
    ASSUME NEW a, NEW b, NEW c, NEW d, NEW e, NEW f, NEW g, NEW h, NEW i
    PROVE  First(<<a, b, c, d, e, f, g, h, i>>) =
              IF a # NoMessage THEN a ELSE IF b # NoMessage THEN b ELSE IF c # NoMessage THEN c
              ELSE IF d # NoMessage THEN d ELSE IF e # NoMessage THEN e ELSE IF f # NoMessage THEN f
              ELSE IF g # NoMessage THEN g ELSE IF h # NoMessage THEN h ELSE i
  <1> DEFINE s == <<a, b, c, d, e, f, g, h, i>>
  <1>1. /\ DOMAIN s = 1..9 /\ s[1] = a /\ s[2] = b /\ s[3] = c /\ s[4] = d /\ s[5] = e
        /\ s[6] = f /\ s[7] = g /\ s[8] = h /\ s[9] = i
    OBVIOUS
  <1> HIDE DEF s
  <1>2. FirstIn(s, 9)
    BY <1>1, FirstOfList
  <1>3. First(s) = IF a # NoMessage THEN a ELSE IF b # NoMessage THEN b ELSE IF c # NoMessage THEN c
                   ELSE IF d # NoMessage THEN d ELSE IF e # NoMessage THEN e
                   ELSE IF f # NoMessage THEN f ELSE IF g # NoMessage THEN g
                   ELSE IF h # NoMessage THEN h ELSE i
    BY <1>1, <1>2 DEF FirstIn
  <1> QED
    BY <1>3 DEF s

(***************************************************************************)
(* Values and decorators                                                   *)
(***************************************************************************)
LEMMA ValueKinds ==
    ASSUME NEW v \in Value
    PROVE  /\ Nil(v) <=> v \in {Undefined, Null}
           /\ IsBit(v) <=> v \in {Bit(TRUE), Bit(FALSE)}
           /\ IsText(v) <=> v \in Texts
           /\ IsNum(v) <=> v \in Numbers
           /\ IsText(v) => v.form \in {"", "uuid"} /\ v.n \in Nat /\ Length(v) \in Nat
           /\ IsNum(v) => v.form \in {"int", "fraction"} /\ v.n \in Int
  <1>1. \A x \in Texts : x.type = "string" /\ x.form \in {"", "uuid"} /\ x.n \in Nat
    BY DEF Texts
  <1>2. \A x \in Numbers : x.type = "number" /\ x.form \in {"int", "fraction"} /\ x.n \in Int
    BY DEF Numbers
  <1>3. Undefined.type = "undefined" /\ Null.type = "null"
    BY DEF Undefined, Null
  <1>4. Bit(TRUE).type = "boolean" /\ Bit(FALSE).type = "boolean"
    BY DEF Bit
  <1>5. \/ v = Undefined \/ v = Null \/ v = Bit(TRUE) \/ v = Bit(FALSE)
        \/ v \in Texts \/ v \in Numbers
    BY DEF Value
  <1>6. Length(v) = IF v.form = "uuid" THEN 36 ELSE v.n
    BY DEF Length, UuidLength
  <1>7. /\ Nil(v) <=> v.type \in {"undefined", "null"}
        /\ IsText(v) <=> v.type = "string"
        /\ IsBit(v) <=> v.type = "boolean"
        /\ IsNum(v) <=> v.type = "number"
    BY DEF Nil, IsBit, IsText, IsNum
  <1>8. Nil(v) <=> v \in {Undefined, Null}
    BY <1>1, <1>2, <1>3, <1>4, <1>5, <1>7
  <1>9. IsBit(v) <=> v \in {Bit(TRUE), Bit(FALSE)}
    BY <1>1, <1>2, <1>3, <1>4, <1>5, <1>7
  <1>10. IsText(v) <=> v \in Texts
    BY <1>1, <1>2, <1>3, <1>4, <1>5, <1>7
  <1>11. IsNum(v) <=> v \in Numbers
    BY <1>1, <1>2, <1>3, <1>4, <1>5, <1>7
  <1>12. IsText(v) => v.form \in {"", "uuid"} /\ v.n \in Nat /\ Length(v) \in Nat
    <2> SUFFICES ASSUME IsText(v)
                 PROVE  v.form \in {"", "uuid"} /\ v.n \in Nat /\ Length(v) \in Nat
      OBVIOUS
    <2>1. v.form \in {"", "uuid"} /\ v.n \in Nat
      BY <1>1, <1>10
    <2>2. CASE v.form = "uuid"
      BY <1>6, <2>1, <2>2
    <2>3. CASE v.form # "uuid"
      BY <1>6, <2>1, <2>3
    <2> QED
      BY <2>1, <2>2, <2>3
  <1>13. IsNum(v) => v.form \in {"int", "fraction"} /\ v.n \in Int
    BY <1>2, <1>11
  <1> QED
    BY <1>8, <1>9, <1>10, <1>11, <1>12, <1>13

\* No message is the same as a message.
LEMMA SomeMessage == \A f, what : <<f, what>> # NoMessage
  BY DEF NoMessage

LEMMA TextDecorator ==
    ASSUME NEW f, NEW v \in Value
    PROVE  TextChecked(f, v) = IF ~Nil(v) /\ ~IsText(v) THEN <<f, "INVALID">>
                               ELSE IF IsText(v) /\ Length(v) > MaxText THEN <<f, "MAX_LEN">>
                               ELSE NoMessage
  <1> DEFINE o == TextOptions
  <1>1. o.null /\ o.undefined /\ o.min = 0 /\ o.max = MaxText
    BY DEF TextOptions
  <1>2. MaxText # None
    BY NoneAssumption, LimitAssumption
  <1> HIDE DEF o
  <1>3. ~Missing(v, o) /\ MissingMessage(f, v, o) = NoMessage
    BY <1>1, First2 DEF Missing, MissingMessage, When
  <1>4. ~TooShort(v, o) /\ (TooLong(v, o) <=> IsText(v) /\ Length(v) > MaxText)
    BY <1>1, <1>2 DEF TooShort, TooLong
  <1>5. TextMessage(f, v, o) = IF ~Nil(v) /\ ~IsText(v) THEN <<f, "INVALID">>
                               ELSE IF IsText(v) /\ Length(v) > MaxText THEN <<f, "MAX_LEN">>
                               ELSE NoMessage
    BY <1>3, <1>4, First4, SomeMessage DEF TextMessage, When
  <1>6. TextValid(v, o) <=> (Nil(v) \/ IsText(v)) /\ ~(IsText(v) /\ Length(v) > MaxText)
    BY <1>3, <1>4 DEF TextValid
  <1> QED
    BY <1>5, <1>6, SomeMessage DEF TextChecked, Checked, o

LEMMA BoolDecorator ==
    ASSUME NEW f, NEW v \in Value
    PROVE  BoolChecked(f, v) = IF v = Null THEN <<f, "NULL">>
                               ELSE IF v # Undefined /\ ~IsBit(v) THEN <<f, "INVALID">>
                               ELSE NoMessage
  <1> DEFINE o == BoolOptions
  <1>1. ~o.null /\ o.undefined
    BY DEF BoolOptions
  <1> HIDE DEF o
  <1>2. Missing(v, o) <=> v = Null
    BY <1>1 DEF Missing
  <1>3. MissingMessage(f, v, o) = IF v = Null THEN <<f, "NULL">> ELSE NoMessage
    BY <1>1, First2, SomeMessage DEF MissingMessage, When
  <1>4. BoolMessage(f, v, o) = IF v = Null THEN <<f, "NULL">> ELSE <<f, "INVALID">>
    BY <1>3, First2, SomeMessage DEF BoolMessage
  <1>5. BoolValid(v, o) <=> v # Null /\ (v = Undefined \/ IsBit(v))
    BY <1>2, ValueKinds DEF BoolValid
  <1> QED
    BY <1>4, <1>5, SomeMessage DEF BoolChecked, Checked, o

LEMMA UuidDecorator ==
    ASSUME NEW v \in Value
    PROVE  Checked(UuidValid(v, Optional), UuidMessage("imageId", v, Optional)) =
              IF Nil(v) \/ NamesImage(v) THEN NoMessage
              ELSE IF IsText(v) THEN <<"imageId", "INVALID">>
              ELSE <<"imageId", "STRING">>
  <1> DEFINE o == Optional
  <1>1. o.null /\ o.undefined
    BY DEF Optional
  <1> HIDE DEF o
  <1>2. ~Missing(v, o) /\ MissingMessage("imageId", v, o) = NoMessage
    BY <1>1, First2 DEF Missing, MissingMessage, When
  <1>3. UuidMessage("imageId", v, o) = IF Nil(v) THEN NoMessage
                                       ELSE IF IsText(v) THEN <<"imageId", "INVALID">>
                                       ELSE <<"imageId", "STRING">>
    BY <1>2, First3, SomeMessage DEF UuidMessage, When
  <1>4. UuidValid(v, o) <=> Nil(v) \/ NamesImage(v)
    BY <1>2 DEF UuidValid, IsValidUUID, NamesImage, IsText
  <1> QED
    BY <1>3, <1>4, SomeMessage DEF Checked, o

LEMMA NumDecorator ==
    ASSUME NEW v \in Value
    PROVE  Checked(NumValid(v, IndexOptions), NumMessage("fileIdx", v, IndexOptions)) =
              IF Nil(v) THEN NoMessage
              ELSE IF ~IsNum(v) THEN <<"fileIdx", "INVALID">>
              ELSE IF v.form # "int" THEN <<"fileIdx", "INT">>
              ELSE IF v.n < 0 THEN <<"fileIdx", "MIN">>
              ELSE NoMessage
  <1> DEFINE o == IndexOptions
  <1>1. o.null /\ o.undefined /\ o.min = 0 /\ o.max = None /\ o.int
    BY DEF IndexOptions
  <1>2. None # 0
    BY NoneAssumption
  <1> HIDE DEF o
  <1>3. ~Missing(v, o) /\ MissingMessage("fileIdx", v, o) = NoMessage
    BY <1>1, First2 DEF Missing, MissingMessage, When
  <1>4. ~TooLarge(v, o) /\ (TooSmall(v, o) <=> v.n < 0)
    BY <1>1, <1>2 DEF TooSmall, TooLarge
  <1>5. NumMessage("fileIdx", v, o) = IF Nil(v) THEN NoMessage
                                      ELSE IF ~IsNum(v) THEN <<"fileIdx", "INVALID">>
                                      ELSE IF v.form # "int" THEN <<"fileIdx", "INT">>
                                      ELSE IF v.n < 0 THEN <<"fileIdx", "MIN">>
                                      ELSE <<"fileIdx", "INVALID">>
    BY <1>1, <1>3, <1>4, First6, SomeMessage DEF NumMessage, When
  <1>6. NumValid(v, o) <=> Nil(v) \/ (IsNum(v) /\ v.form = "int" /\ ~(v.n < 0))
    BY <1>1, <1>3, <1>4 DEF NumValid
  <1> QED
    BY <1>5, <1>6, SomeMessage DEF Checked, o

LEMMA ExclusiveDecorator ==
    ASSUME NEW f, NEW v, NEW w
    PROVE  ExclusiveChecked(f, v, w) = IF ~Nil(v) /\ ~Nil(w) THEN <<f, "BOTH_DEFINED">>
                                       ELSE IF Nil(v) /\ Nil(w) THEN <<f, "NONE_DEFINED">>
                                       ELSE NoMessage
  <1>1. ExclusiveMessage(f, v, w) = IF ~Nil(v) /\ ~Nil(w) THEN <<f, "BOTH_DEFINED">>
                                    ELSE IF Nil(v) /\ Nil(w) THEN <<f, "NONE_DEFINED">>
                                    ELSE NoMessage
    BY First2, SomeMessage DEF ExclusiveMessage, When
  <1>2. ExclusiveValid(v, w) <=> (Nil(v) /\ ~Nil(w)) \/ (~Nil(v) /\ Nil(w))
    BY DEF ExclusiveValid, Nil
  <1> HIDE DEF Nil
  <1> QED
    BY <1>1, <1>2, SomeMessage DEF ExclusiveChecked, Checked

(***************************************************************************)
(* The fields of one element                                               *)
(***************************************************************************)
TextFits(v) == Nil(v) \/ (IsText(v) /\ ~(Length(v) > MaxText))
FlagFits(v) == v # Null /\ (v = Undefined \/ IsBit(v))
IndexFits(v) == IsNum(v) /\ v.form = "int" /\ ~(v.n < 0)

\* What the decorators of SaveMetadataItemDto let through.
Fits(i) ==
    /\ TextFits(i["name"]) /\ TextFits(i["description"])
    /\ FlagFits(i["main"]) /\ FlagFits(i["active"]) /\ FlagFits(i["delete"])
    /\ \/ NamesImage(i["imageId"]) /\ Nil(i["fileIdx"])
       \/ Nil(i["imageId"]) /\ IndexFits(i["fileIdx"])

\* What DtoMessage asks, one by one.
DtoChecks(i) ==
    <<TextChecked("name", i["name"]), TextChecked("description", i["description"]),
      BoolChecked("main", i["main"]), BoolChecked("active", i["active"]),
      BoolChecked("delete", i["delete"]),
      ExclusiveChecked("imageId", i["imageId"], i["fileIdx"]),
      Checked(UuidValid(i["imageId"], Optional), UuidMessage("imageId", i["imageId"], Optional)),
      ExclusiveChecked("fileIdx", i["fileIdx"], i["imageId"]),
      Checked(NumValid(i["fileIdx"], IndexOptions), NumMessage("fileIdx", i["fileIdx"], IndexOptions))>>

LEMMA DtoMessageIsFirst ==
    ASSUME NEW i
    PROVE  FirstIn(DtoChecks(i), 9) /\ DtoMessage(i) = First(DtoChecks(i))
  <1>1. DOMAIN DtoChecks(i) = 1..9
    BY DEF DtoChecks
  <1>2. FirstIn(DtoChecks(i), 9)
    BY <1>1, FirstOfList
  <1>3. DtoMessage(i) = First(DtoChecks(i))
    BY DEF DtoMessage, DtoChecks
  <1> QED
    BY <1>2, <1>3

LEMMA DtoAccepts ==
    ASSUME NEW i \in [FieldNames -> Value], DtoMessage(i) = NoMessage
    PROVE  Fits(i)
  <1>1. \A k \in 1..9 : DtoChecks(i)[k] = NoMessage
    BY DtoMessageIsFirst DEF FirstIn
  <1>2. \A f \in {"name", "description", "main", "active", "delete", "imageId", "fileIdx"} :
            i[f] \in Value
    BY DEF FieldNames
  <1>3. \A f \in {"name", "description"} : TextChecked(f, i[f]) = NoMessage
    BY <1>1 DEF DtoChecks
  <1>4. \A f \in {"main", "active", "delete"} : BoolChecked(f, i[f]) = NoMessage
    BY <1>1 DEF DtoChecks
  <1>5. ExclusiveChecked("imageId", i["imageId"], i["fileIdx"]) = NoMessage
    BY <1>1 DEF DtoChecks
  <1>6. Checked(UuidValid(i["imageId"], Optional), UuidMessage("imageId", i["imageId"], Optional)) = NoMessage
    BY <1>1 DEF DtoChecks
  <1>7. Checked(NumValid(i["fileIdx"], IndexOptions), NumMessage("fileIdx", i["fileIdx"], IndexOptions)) = NoMessage
    BY <1>1 DEF DtoChecks
  <1>8. \A f \in {"name", "description"} : TextFits(i[f])
    BY <1>2, <1>3, TextDecorator, SomeMessage DEF TextFits
  <1>9. \A f \in {"main", "active", "delete"} : FlagFits(i[f])
    BY <1>2, <1>4, BoolDecorator, SomeMessage DEF FlagFits
  <1>10. Nil(i["imageId"]) \/ NamesImage(i["imageId"])
    BY <1>2, <1>6, UuidDecorator, SomeMessage
  <1>11. Nil(i["fileIdx"]) \/ IndexFits(i["fileIdx"])
    BY <1>2, <1>7, NumDecorator, SomeMessage DEF IndexFits
  <1>12. (Nil(i["imageId"]) /\ ~Nil(i["fileIdx"])) \/ (~Nil(i["imageId"]) /\ Nil(i["fileIdx"]))
    BY <1>5, ExclusiveDecorator, SomeMessage
  <1> QED
    BY <1>8, <1>9, <1>10, <1>11, <1>12 DEF Fits

LEMMA DtoRefuses ==
    ASSUME NEW i \in [FieldNames -> Value], DtoMessage(i) # NoMessage
    PROVE  \/ \E f \in FieldNames : CauseInField(DtoMessage(i), f, i[f])
           \/ CauseInElement(DtoMessage(i), i)
  <1> DEFINE m == DtoMessage(i)
  <1>1. PICK k \in 1..9 : m = DtoChecks(i)[k]
    BY DtoMessageIsFirst DEF FirstIn
  <1>2. \A f \in {"name", "description", "main", "active", "delete", "imageId", "fileIdx"} :
            f \in FieldNames /\ i[f] \in Value
    BY DEF FieldNames
  <1>3. m # NoMessage
    OBVIOUS
  <1> HIDE DEF m
  <1>4. ASSUME NEW f \in {"name", "description"}, m = TextChecked(f, i[f])
        PROVE  \E g \in FieldNames : CauseInField(m, g, i[g])
    <2>1. CauseInField(m, f, i[f])
      BY <1>2, <1>3, <1>4, TextDecorator DEF CauseInField
    <2> QED
      BY <1>2, <2>1
  <1>5. ASSUME NEW f \in {"main", "active", "delete"}, m = BoolChecked(f, i[f])
        PROVE  \E g \in FieldNames : CauseInField(m, g, i[g])
    <2>1. CauseInField(m, f, i[f])
      BY <1>2, <1>3, <1>5, BoolDecorator, ValueKinds DEF CauseInField
    <2> QED
      BY <1>2, <2>1
  <1>6. ASSUME \/ m = ExclusiveChecked("imageId", i["imageId"], i["fileIdx"])
               \/ m = ExclusiveChecked("fileIdx", i["fileIdx"], i["imageId"])
        PROVE  CauseInElement(m, i)
    BY <1>3, <1>6, ExclusiveDecorator DEF CauseInElement
  <1>7. ASSUME m = Checked(UuidValid(i["imageId"], Optional), UuidMessage("imageId", i["imageId"], Optional))
        PROVE  \E g \in FieldNames : CauseInField(m, g, i[g])
    <2>1. CauseInField(m, "imageId", i["imageId"])
      BY <1>2, <1>3, <1>7, UuidDecorator DEF CauseInField, NamesImage, IsText
    <2> QED
      BY <1>2, <2>1
  <1>8. ASSUME m = Checked(NumValid(i["fileIdx"], IndexOptions), NumMessage("fileIdx", i["fileIdx"], IndexOptions))
        PROVE  \E g \in FieldNames : CauseInField(m, g, i[g])
    <2>1. CauseInField(m, "fileIdx", i["fileIdx"])
      BY <1>2, <1>3, <1>8, NumDecorator, ValueKinds DEF CauseInField
    <2> QED
      BY <1>2, <2>1
  <1>9. \/ m = TextChecked("name", i["name"]) \/ m = TextChecked("description", i["description"])
        \/ m = BoolChecked("main", i["main"]) \/ m = BoolChecked("active", i["active"])
        \/ m = BoolChecked("delete", i["delete"])
        \/ m = ExclusiveChecked("imageId", i["imageId"], i["fileIdx"])
        \/ m = Checked(UuidValid(i["imageId"], Optional), UuidMessage("imageId", i["imageId"], Optional))
        \/ m = ExclusiveChecked("fileIdx", i["fileIdx"], i["imageId"])
        \/ m = Checked(NumValid(i["fileIdx"], IndexOptions), NumMessage("fileIdx", i["fileIdx"], IndexOptions))
    BY <1>1 DEF DtoChecks
  <1> QED
    BY <1>4, <1>5, <1>6, <1>7, <1>8, <1>9 DEF m

(***************************************************************************)
(* The list as a whole                                                     *)
(***************************************************************************)
Raw(list) == list \in Seq(RawItem)

LEMMA RawList ==
    ASSUME NEW list, Raw(list)
    PROVE  /\ Len(list) \in Nat /\ DOMAIN list = 1..Len(list)
           /\ \A k \in DOMAIN list :
                /\ list[k].shape \in {"null", "scalar", "array", "object"}
                /\ list[k].fields \in [FieldNames -> Value]
                /\ \A f \in FieldNames : list[k].fields[f] \in Value
  <1>1. Len(list) \in Nat /\ DOMAIN list = 1..Len(list)
    BY LenProperties DEF Raw
  <1>2. \A k \in DOMAIN list : list[k] \in RawItem
    BY <1>1, ElementOfSeq DEF Raw
  <1> QED
    BY <1>1, <1>2 DEF RawItem

\* A set with more than one element has two.
LEMMA TwoOrMore ==
    ASSUME NEW S, IsFiniteSet(S)
    PROVE  /\ Cardinality(S) \in Nat
           /\ Cardinality(S) > 1 <=> \E x, y \in S : x # y
  <1>1. Cardinality(S) \in Nat
    BY FS_CardinalityType
  <1>2. ASSUME NEW x \in S, NEW y \in S, x # y
        PROVE  Cardinality(S) > 1
    <2>1. IsFiniteSet({x}) /\ Cardinality({x}) = 1
      BY FS_Singleton
    <2>2. IsFiniteSet({x} \cup {y}) /\ Cardinality({x} \cup {y}) = 2
      <3> DEFINE T == {x}
      <3>1. IsFiniteSet(T) /\ Cardinality(T) = 1 /\ y \notin T
        BY <1>2, <2>1
      <3> HIDE DEF T
      <3>2. IsFiniteSet(T \cup {y}) /\ Cardinality(T \cup {y}) = Cardinality(T) + 1
        BY <3>1, FS_AddElement
      <3> QED
        BY <3>1, <3>2 DEF T
    <2>3. {x} \cup {y} \subseteq S
      OBVIOUS
    <2>4. Cardinality({x} \cup {y}) <= Cardinality(S)
      BY <2>3, FS_Subset
    <2> QED
      BY <1>1, <2>2, <2>4
  <1>3. ASSUME \A x, y \in S : x = y
        PROVE  ~(Cardinality(S) > 1)
    <2>1. CASE S = {}
      BY <2>1, FS_EmptySet
    <2>2. CASE S # {}
      <3>1. PICK x \in S : TRUE
        BY <2>2
      <3>2. S = {x}
        BY <1>3, <3>1
      <3>3. Cardinality({x}) = 1
        BY FS_Singleton
      <3> QED
        BY <3>2, <3>3
    <2> QED
      BY <2>1, <2>2
  <1> QED
    BY <1>1, <1>2, <1>3

TwoMains(list) ==
    \E j, k \in DOMAIN list :
        j # k /\ Truthy(list[j].fields["main"]) /\ Truthy(list[k].fields["main"])

LEMMA MainsCounted ==
    ASSUME NEW list, Raw(list)
    PROVE  /\ Cardinality(Mains(list)) \in Nat
           /\ Cardinality(Mains(list)) > 1 <=> TwoMains(list)
  <1>1. IsFiniteSet(DOMAIN list)
    <2>1. \A n \in Nat : IsFiniteSet(1..n)
      BY FS_Interval
    <2> QED
      BY <2>1, RawList
  <1>2. Mains(list) \subseteq DOMAIN list
    BY DEF Mains
  <1>3. IsFiniteSet(Mains(list))
    BY <1>1, <1>2, FS_Subset
  <1>4. (\E x, y \in Mains(list) : x # y) <=> TwoMains(list)
    BY DEF Mains, TwoMains
  <1> QED
    BY <1>3, <1>4, TwoOrMore

\* The message of one element that is no object.
ShapeMessage(item) ==
    First(<<When(item.shape = "null", <<"metadata", "METADATA_ITEM_NOT_DEFINED">>),
            When(item.shape # "object", <<"metadata", "METADATA_ITEM_INVALID_TYPE">>)>>)

LEMMA ShapeMessageIs ==
    ASSUME NEW item
    PROVE  ShapeMessage(item) = IF item.shape = "null" THEN <<"metadata", "METADATA_ITEM_NOT_DEFINED">>
                                ELSE IF item.shape # "object" THEN <<"metadata", "METADATA_ITEM_INVALID_TYPE">>
                                ELSE NoMessage
  BY First2, SomeMessage DEF ShapeMessage, When

LEMMA MetadataMessageIs ==
    ASSUME NEW isArray \in BOOLEAN, NEW list, Raw(list)
    PROVE  MetadataMessage(isArray, list) =
              IF ~isArray THEN <<"metadata", "METADATA_ARRAY_INVALID">>
              ELSE IF First([k \in DOMAIN list |-> ShapeMessage(list[k])]) # NoMessage
                   THEN First([k \in DOMAIN list |-> ShapeMessage(list[k])])
              ELSE IF TwoMains(list) THEN <<"metadata", "MULTIPLE_MAINS">>
              ELSE IF Repeats(list, "imageId") THEN <<"metadata", "IMAGE_ID_DUPLICATED">>
              ELSE IF Repeats(list, "fileIdx") THEN <<"metadata", "FILE_IDX_DUPLICATED">>
              ELSE NoMessage
  <1> DEFINE shapes == First([k \in DOMAIN list |-> ShapeMessage(list[k])])
  <1>1. MetadataMessage(isArray, list) =
          First(<<When(~isArray, <<"metadata", "METADATA_ARRAY_INVALID">>), shapes,
                  When(Cardinality(Mains(list)) > 1, <<"metadata", "MULTIPLE_MAINS">>),
                  When(Repeats(list, "imageId"), <<"metadata", "IMAGE_ID_DUPLICATED">>),
                  When(Repeats(list, "fileIdx"), <<"metadata", "FILE_IDX_DUPLICATED">>)>>)
    BY DEF MetadataMessage, ShapeMessage
  <1>2. Cardinality(Mains(list)) > 1 <=> TwoMains(list)
    BY MainsCounted
  <1> HIDE DEF shapes
  <1>3. MetadataMessage(isArray, list) =
              IF ~isArray THEN <<"metadata", "METADATA_ARRAY_INVALID">>
              ELSE IF shapes # NoMessage THEN shapes
              ELSE IF TwoMains(list) THEN <<"metadata", "MULTIPLE_MAINS">>
              ELSE IF Repeats(list, "imageId") THEN <<"metadata", "IMAGE_ID_DUPLICATED">>
              ELSE IF Repeats(list, "fileIdx") THEN <<"metadata", "FILE_IDX_DUPLICATED">>
              ELSE NoMessage
    BY <1>1, <1>2, First5, SomeMessage DEF When
  <1> QED
    BY <1>3 DEF shapes

\* Of the elements of a list, the first that has a message gives it.
LEMMA ShapesOfList ==
    ASSUME NEW list, Raw(list)
    PROVE  LET shapes == First([k \in DOMAIN list |-> ShapeMessage(list[k])])
           IN  \/ shapes = NoMessage /\ \A k \in DOMAIN list : list[k].shape = "object"
               \/ \E k \in DOMAIN list : shapes = ShapeMessage(list[k]) /\ list[k].shape # "object"
  <1> DEFINE s == [k \in DOMAIN list |-> ShapeMessage(list[k])]
  <1>1. FirstIn(s, Len(list)) /\ DOMAIN list = 1..Len(list)
    <2>1. DOMAIN s = 1..Len(list) /\ Len(list) \in Nat
      BY RawList
    <2> HIDE DEF s
    <2> QED
      BY <2>1, RawList, FirstOfList
  <1>2. \A k \in DOMAIN list : s[k] = ShapeMessage(list[k])
    OBVIOUS
  <1>3. \A k \in DOMAIN list : s[k] = NoMessage <=> list[k].shape = "object"
    BY <1>2, ShapeMessageIs, SomeMessage
  <1> HIDE DEF s
  <1>4. \/ First(s) = NoMessage /\ \A k \in DOMAIN list : list[k].shape = "object"
        \/ \E k \in DOMAIN list : First(s) = ShapeMessage(list[k]) /\ list[k].shape # "object"
    BY <1>1, <1>2, <1>3 DEF FirstIn
  <1> QED
    BY <1>4 DEF s

\* What the pipe lets through.
GoodList(list) ==
    /\ \A k \in DOMAIN list : list[k].shape = "object" /\ Fits(list[k].fields)
    /\ ~TwoMains(list)
    /\ ~Repeats(list, "imageId")
    /\ ~Repeats(list, "fileIdx")

LEMMA ValidMetadata ==
    ASSUME NEW isArray \in BOOLEAN, NEW list, Raw(list)
    PROVE  /\ MetadataValid(isArray, list) <=> MetadataMessage(isArray, list) = NoMessage
           /\ MetadataValid(isArray, list) <=>
                /\ isArray
                /\ \A k \in DOMAIN list : list[k].shape = "object"
                /\ ~TwoMains(list)
                /\ ~Repeats(list, "imageId")
                /\ ~Repeats(list, "fileIdx")
  <1> DEFINE shapes == First([k \in DOMAIN list |-> ShapeMessage(list[k])])
  <1>1. shapes = NoMessage <=> \A k \in DOMAIN list : list[k].shape = "object"
    BY ShapesOfList, ShapeMessageIs, SomeMessage
  <1>2. MetadataMessage(isArray, list) =
              IF ~isArray THEN <<"metadata", "METADATA_ARRAY_INVALID">>
              ELSE IF shapes # NoMessage THEN shapes
              ELSE IF TwoMains(list) THEN <<"metadata", "MULTIPLE_MAINS">>
              ELSE IF Repeats(list, "imageId") THEN <<"metadata", "IMAGE_ID_DUPLICATED">>
              ELSE IF Repeats(list, "fileIdx") THEN <<"metadata", "FILE_IDX_DUPLICATED">>
              ELSE NoMessage
    BY MetadataMessageIs
  <1>3. Cardinality(Mains(list)) <= 1 <=> ~TwoMains(list)
    BY MainsCounted
  <1> HIDE DEF shapes
  <1>4. MetadataValid(isArray, list) <=>
                /\ isArray
                /\ \A k \in DOMAIN list : list[k].shape = "object"
                /\ ~TwoMains(list)
                /\ ~Repeats(list, "imageId")
                /\ ~Repeats(list, "fileIdx")
    BY <1>3 DEF MetadataValid
  <1> QED
    BY <1>1, <1>2, <1>4, SomeMessage

LEMMA PipeMessageIs ==
    ASSUME NEW isArray \in BOOLEAN, NEW list, Raw(list)
    PROVE  /\ ~MetadataValid(isArray, list) => PipeMessage(isArray, list) = MetadataMessage(isArray, list)
           /\ MetadataValid(isArray, list) =>
                \/ /\ PipeMessage(isArray, list) = NoMessage
                   /\ \A k \in DOMAIN list : DtoMessage(list[k].fields) = NoMessage
                \/ /\ PipeMessage(isArray, list) # NoMessage
                   /\ \E k \in DOMAIN list : PipeMessage(isArray, list) = DtoMessage(list[k].fields)
  <1>1. CASE ~MetadataValid(isArray, list)
    BY <1>1, ValidMetadata DEF PipeMessage, Checked
  <1>2. CASE MetadataValid(isArray, list)
    <2> DEFINE s == [k \in DOMAIN list |-> DtoMessage(list[k].fields)]
    <2>1. FirstIn(s, Len(list)) /\ DOMAIN list = 1..Len(list)
      <3>1. DOMAIN s = 1..Len(list) /\ Len(list) \in Nat
        BY RawList
      <3> HIDE DEF s
      <3> QED
        BY <3>1, RawList, FirstOfList
    <2>2. \A k \in DOMAIN list : s[k] = DtoMessage(list[k].fields)
      OBVIOUS
    <2>3. PipeMessage(isArray, list) = First(s)
      BY <1>2 DEF PipeMessage
    <2> HIDE DEF s
    <2> QED
      BY <1>2, <2>1, <2>2, <2>3 DEF FirstIn
  <1> QED
    BY <1>1, <1>2

LEMMA PipeAccepts ==
    ASSUME NEW isArray \in BOOLEAN, NEW list, Raw(list), PipeMessage(isArray, list) = NoMessage
    PROVE  isArray /\ GoodList(list)
  <1>1. MetadataValid(isArray, list)
    BY PipeMessageIs, ValidMetadata
  <1>2. \A k \in DOMAIN list : DtoMessage(list[k].fields) = NoMessage
    BY <1>1, PipeMessageIs
  <1>3. \A k \in DOMAIN list : Fits(list[k].fields)
    BY <1>2, DtoAccepts, RawList
  <1> QED
    BY <1>1, <1>3, ValidMetadata DEF GoodList

\* transform changes null into undefined and nothing else.
LEMMA DtosKeep ==
    ASSUME NEW list, Raw(list)
    PROVE  /\ Raw(Dtos(list))
           /\ DOMAIN Dtos(list) = DOMAIN list /\ Len(Dtos(list)) = Len(list)
           /\ \A k \in DOMAIN list : Dtos(list)[k].shape = list[k].shape
           /\ \A k \in DOMAIN list : \A f \in FieldNames :
                /\ Nil(Dtos(list)[k].fields[f]) <=> Nil(list[k].fields[f])
                /\ ~Nil(list[k].fields[f]) => Dtos(list)[k].fields[f] = list[k].fields[f]
                /\ f \notin {"imageId", "fileIdx"} => Dtos(list)[k].fields[f] = list[k].fields[f]
  <1>1. ASSUME NEW k \in DOMAIN list
        PROVE  /\ ToDto(list[k]) \in RawItem
               /\ ToDto(list[k]).shape = list[k].shape
               /\ \A f \in FieldNames :
                    ToDto(list[k]).fields[f] = IF /\ list[k].shape = "object"
                                                  /\ f \in {"imageId", "fileIdx"}
                                                  /\ list[k].fields[f] = Null
                                               THEN Undefined ELSE list[k].fields[f]
    <2>1. list[k] \in RawItem
      BY RawList, ElementOfSeq DEF Raw
    <2>2. Undefined \in Value
      BY DEF Value
    <2>3. CASE list[k].shape # "object"
      BY <2>1, <2>3 DEF ToDto
    <2>4. CASE list[k].shape = "object"
      <3> DEFINE g == [f \in FieldNames |->
                          IF f \in {"imageId", "fileIdx"} /\ list[k].fields[f] = Null THEN Undefined
                          ELSE list[k].fields[f]]
      <3>1. g \in [FieldNames -> Value]
        BY <2>2, RawList
      <3>2. ToDto(list[k]) = [list[k] EXCEPT !.fields = g]
        BY <2>4 DEF ToDto
      <3>3. \A f \in FieldNames : g[f] = IF f \in {"imageId", "fileIdx"} /\ list[k].fields[f] = Null
                                        THEN Undefined ELSE list[k].fields[f]
        OBVIOUS
      <3> HIDE DEF g
      <3>4. ToDto(list[k]) \in RawItem /\ ToDto(list[k]).fields = g /\ ToDto(list[k]).shape = list[k].shape
        BY <2>1, <3>1, <3>2 DEF RawItem
      <3> QED
        BY <2>4, <3>3, <3>4
    <2> QED
      BY <2>3, <2>4
  <1>2. DOMAIN Dtos(list) = DOMAIN list /\ \A k \in DOMAIN list : Dtos(list)[k] = ToDto(list[k])
    BY DEF Dtos
  <1>3. Dtos(list) \in [1..Len(list) -> RawItem] /\ Len(list) \in Nat
    BY <1>1, RawList DEF Dtos
  <1>4. Dtos(list) \in Seq(RawItem) /\ Len(Dtos(list)) = Len(list)
    BY <1>3, SeqDef, LenProperties
  <1>5. Nil(Undefined) /\ Nil(Null)
    BY DEF Nil, Undefined, Null
  <1> QED
    BY <1>1, <1>2, <1>4, <1>5 DEF Raw

(***************************************************************************)
(* What is refused has the defect its message names                        *)
(***************************************************************************)
LEMMA PairsOfDtos ==
    ASSUME NEW list, Raw(list)
    PROVE  /\ TwoMains(Dtos(list)) => TwoMains(list)
           /\ \A f \in {"imageId", "fileIdx"} :
                Repeats(Dtos(list), f) =>
                    \E j, k \in DOMAIN list :
                        j # k /\ ~Nil(list[j].fields[f]) /\ list[j].fields[f] = list[k].fields[f]
  <1>1. "main" \in FieldNames /\ "imageId" \in FieldNames /\ "fileIdx" \in FieldNames
    BY DEF FieldNames
  <1>2. \A k \in DOMAIN list : Dtos(list)[k].fields["main"] = list[k].fields["main"]
    BY <1>1, DtosKeep
  <1>3. TwoMains(Dtos(list)) => TwoMains(list)
    BY <1>2, DtosKeep DEF TwoMains
  <1>4. ASSUME NEW f \in {"imageId", "fileIdx"}, Repeats(Dtos(list), f)
        PROVE  \E j, k \in DOMAIN list :
                  j # k /\ ~Nil(list[j].fields[f]) /\ list[j].fields[f] = list[k].fields[f]
    <2>1. PICK j, k \in DOMAIN Dtos(list) :
            /\ j # k /\ ~Nil(Dtos(list)[j].fields[f])
            /\ Dtos(list)[j].fields[f] = Dtos(list)[k].fields[f]
      BY <1>4 DEF Repeats
    <2>2. j \in DOMAIN list /\ k \in DOMAIN list /\ f \in FieldNames
      BY <1>1, DtosKeep
    <2>3. ~Nil(Dtos(list)[k].fields[f])
      BY <2>1
    <2>4. /\ ~Nil(list[j].fields[f]) /\ ~Nil(list[k].fields[f])
          /\ Dtos(list)[j].fields[f] = list[j].fields[f]
          /\ Dtos(list)[k].fields[f] = list[k].fields[f]
      BY <2>1, <2>2, <2>3, DtosKeep
    <2> QED
      BY <2>1, <2>2, <2>4
  <1> QED
    BY <1>3, <1>4

LEMMA FieldsOfDtos ==
    ASSUME NEW m, NEW list, Raw(list), NEW k \in DOMAIN list
    PROVE  /\ \A f \in FieldNames : CauseInField(m, f, Dtos(list)[k].fields[f]) =>
                                        CauseInField(m, f, list[k].fields[f])
           /\ CauseInElement(m, Dtos(list)[k].fields) => CauseInElement(m, list[k].fields)
  <1> DEFINE old == list[k].fields
             new == Dtos(list)[k].fields
  <1>1. \A f \in FieldNames :
                /\ Nil(new[f]) <=> Nil(old[f])
                /\ ~Nil(old[f]) => new[f] = old[f]
                /\ f \notin {"imageId", "fileIdx"} => new[f] = old[f]
    BY DtosKeep
  <1>2. \A v : Nil(v) => ~IsText(v) /\ ~IsNum(v)
    BY DEF Nil, IsText, IsNum
  <1>3. "imageId" \in FieldNames /\ "fileIdx" \in FieldNames
    BY DEF FieldNames
  <1> HIDE DEF old, new
  <1>4. \A f \in FieldNames : CauseInField(m, f, new[f]) => CauseInField(m, f, old[f])
    BY <1>1, <1>2 DEF CauseInField
  <1>5. CauseInElement(m, new) => CauseInElement(m, old)
    BY <1>1, <1>3 DEF CauseInElement
  <1> QED
    BY <1>4, <1>5 DEF old, new

LEMMA PairIsCause ==
    ASSUME NEW m, NEW j \in DOMAIN SentItems, NEW k \in DOMAIN SentItems, j # k,
           \/ /\ m = <<"metadata", "MULTIPLE_MAINS">>
              /\ Truthy(SentItems[j].fields["main"]) /\ Truthy(SentItems[k].fields["main"])
           \/ /\ m = <<"metadata", "IMAGE_ID_DUPLICATED">>
              /\ ~Nil(SentItems[j].fields["imageId"])
              /\ SentItems[j].fields["imageId"] = SentItems[k].fields["imageId"]
           \/ /\ m = <<"metadata", "FILE_IDX_DUPLICATED">>
              /\ ~Nil(SentItems[j].fields["fileIdx"])
              /\ SentItems[j].fields["fileIdx"] = SentItems[k].fields["fileIdx"]
    PROVE  CauseInPair(m)
  BY DEF CauseInPair

LEMMA PipeRefuses ==
    ASSUME Raw(SentItems), array \in BOOLEAN, array = (body.form # "false"),
           PipeMessage(array, Dtos(SentItems)) # NoMessage
    PROVE  CauseOf(PipeMessage(array, Dtos(SentItems)))
  <1> DEFINE list == Dtos(SentItems)
             m == PipeMessage(array, list)
  <1>1. Raw(list) /\ DOMAIN list = DOMAIN SentItems
    BY DtosKeep
  <1>2. m # NoMessage
    OBVIOUS
  <1>3. CASE ~MetadataValid(array, list)
    <2> DEFINE shapes == First([k \in DOMAIN list |-> ShapeMessage(list[k])])
    <2>1. m = MetadataMessage(array, list)
      BY <1>1, <1>3, PipeMessageIs
    <2>2. \/ m = <<"metadata", "METADATA_ARRAY_INVALID">> /\ ~array
          \/ m = shapes /\ shapes # NoMessage
          \/ m = <<"metadata", "MULTIPLE_MAINS">> /\ TwoMains(list)
          \/ m = <<"metadata", "IMAGE_ID_DUPLICATED">> /\ Repeats(list, "imageId")
          \/ m = <<"metadata", "FILE_IDX_DUPLICATED">> /\ Repeats(list, "fileIdx")
      <3>1. m = IF ~array THEN <<"metadata", "METADATA_ARRAY_INVALID">>
              ELSE IF shapes # NoMessage THEN shapes
              ELSE IF TwoMains(list) THEN <<"metadata", "MULTIPLE_MAINS">>
              ELSE IF Repeats(list, "imageId") THEN <<"metadata", "IMAGE_ID_DUPLICATED">>
              ELSE IF Repeats(list, "fileIdx") THEN <<"metadata", "FILE_IDX_DUPLICATED">>
              ELSE NoMessage
        BY <1>1, <2>1, MetadataMessageIs
      <3> HIDE DEF m, list, shapes
      <3> QED
        BY <1>2, <3>1
    <2>3. CASE m = <<"metadata", "METADATA_ARRAY_INVALID">> /\ ~array
      <3>1. body.form = "false"
        BY <2>3
      <3> HIDE DEF m, list
      <3>2. CauseInList(m)
        BY <2>3, <3>1 DEF CauseInList
      <3> QED
        BY <3>2 DEF CauseOf, m, list
    <2>4. CASE m = shapes /\ shapes # NoMessage
      <3>1. PICK k \in DOMAIN list : m = ShapeMessage(list[k]) /\ list[k].shape # "object"
        BY <1>1, <2>4, ShapesOfList
      <3>2. list[k].shape = SentItems[k].shape /\ k \in DOMAIN SentItems
        BY <1>1, DtosKeep
      <3>3. SentItems[k].shape \in {"null", "scalar", "array", "object"}
        BY <3>2, RawList
      <3>4. m = IF list[k].shape = "null" THEN <<"metadata", "METADATA_ITEM_NOT_DEFINED">>
                                ELSE <<"metadata", "METADATA_ITEM_INVALID_TYPE">>
        BY <3>1, ShapeMessageIs
      <3> HIDE DEF m, list
      <3>5. CauseInList(m)
        BY <3>1, <3>2, <3>3, <3>4 DEF CauseInList
      <3> QED
        BY <3>5 DEF CauseOf, m, list
    <2>5. CASE \/ m = <<"metadata", "MULTIPLE_MAINS">> /\ TwoMains(list)
               \/ m = <<"metadata", "IMAGE_ID_DUPLICATED">> /\ Repeats(list, "imageId")
               \/ m = <<"metadata", "FILE_IDX_DUPLICATED">> /\ Repeats(list, "fileIdx")
      <3>1. /\ TwoMains(list) => TwoMains(SentItems)
            /\ \A f \in {"imageId", "fileIdx"} : Repeats(list, f) =>
                    \E j, k \in DOMAIN SentItems :
                        /\ j # k /\ ~Nil(SentItems[j].fields[f])
                        /\ SentItems[j].fields[f] = SentItems[k].fields[f]
        BY PairsOfDtos
      <3> HIDE DEF m, list
      <3>2. ASSUME m = <<"metadata", "MULTIPLE_MAINS">> /\ TwoMains(list)
            PROVE  CauseInPair(m)
        BY <3>1, <3>2, PairIsCause DEF TwoMains
      <3>3. ASSUME m = <<"metadata", "IMAGE_ID_DUPLICATED">> /\ Repeats(list, "imageId")
            PROVE  CauseInPair(m)
        BY <3>1, <3>3, PairIsCause
      <3>4. ASSUME m = <<"metadata", "FILE_IDX_DUPLICATED">> /\ Repeats(list, "fileIdx")
            PROVE  CauseInPair(m)
        BY <3>1, <3>4, PairIsCause
      <3>5. CauseInPair(m)
        BY <2>5, <3>2, <3>3, <3>4
      <3> QED
        BY <3>5 DEF CauseOf, m, list
    <2> QED
      BY <2>2, <2>3, <2>4, <2>5
  <1>4. CASE MetadataValid(array, list)
    <2>1. PICK k \in DOMAIN list : m = DtoMessage(list[k].fields)
      BY <1>1, <1>2, <1>4, PipeMessageIs
    <2>2. list[k].shape = "object" /\ list[k].fields \in [FieldNames -> Value]
      BY <1>1, <1>4, ValidMetadata, RawList
    <2>3. \/ \E f \in FieldNames : CauseInField(m, f, list[k].fields[f])
          \/ CauseInElement(m, list[k].fields)
      BY <1>2, <2>1, <2>2, DtoRefuses
    <2>4. \/ \E f \in FieldNames : CauseInField(m, f, SentItems[k].fields[f])
          \/ CauseInElement(m, SentItems[k].fields)
      BY <1>1, <2>3, FieldsOfDtos
    <2>5. k \in DOMAIN SentItems /\ SentItems[k].shape = "object"
      BY <1>1, <2>2, DtosKeep
    <2> HIDE DEF m, list
    <2> QED
      BY <2>4, <2>5 DEF CauseOf, m, list
  <1> QED
    BY <1>3, <1>4

(***************************************************************************)
(* The n-th of a finite set of numbers                                     *)
(***************************************************************************)
UpTo(S, x) == {y \in S : y <= x}

LEMMA UpToGrows ==
    ASSUME NEW S, S \subseteq Nat, IsFiniteSet(S), NEW x \in S
    PROVE  /\ Cardinality(UpTo(S, x)) \in 1..Cardinality(S)
           /\ \A y \in S : x < y => Cardinality(UpTo(S, x)) < Cardinality(UpTo(S, y))
  <1>1. \A z : UpTo(S, z) \subseteq S
    BY DEF UpTo
  <1>2. \A z : /\ IsFiniteSet(UpTo(S, z))
               /\ Cardinality(UpTo(S, z)) \in Nat
               /\ Cardinality(UpTo(S, z)) <= Cardinality(S)
    BY <1>1, FS_Subset, FS_CardinalityType
  <1>3. Cardinality(S) \in Nat
    BY FS_CardinalityType
  <1>4. UpTo(S, x) # {}
    BY DEF UpTo
  <1>5. Cardinality(UpTo(S, x)) # 0
    BY <1>2, <1>4, FS_EmptySet
  <1>6. ASSUME NEW y \in S, x < y
        PROVE  Cardinality(UpTo(S, x)) < Cardinality(UpTo(S, y))
    <2>1. y \notin UpTo(S, x) /\ UpTo(S, x) \cup {y} \subseteq UpTo(S, y)
      <3>1. \A z \in S : z \in Nat
        OBVIOUS
      <3>2. y <= y /\ ~(y <= x) /\ \A z \in S : z <= x => z <= y
        BY <1>6, <3>1
      <3> QED
        BY <3>2 DEF UpTo
    <2>2. Cardinality(UpTo(S, x) \cup {y}) = Cardinality(UpTo(S, x)) + 1
      BY <1>2, <2>1, FS_AddElement
    <2>3. Cardinality(UpTo(S, x) \cup {y}) <= Cardinality(UpTo(S, y))
      BY <1>2, <2>1, FS_Subset
    <2> QED
      BY <1>2, <2>2, <2>3
  <1> QED
    BY <1>2, <1>3, <1>5, <1>6

LEMMA NthInOrder ==
    ASSUME NEW S, S \subseteq Nat, IsFiniteSet(S)
    PROVE  /\ Cardinality(S) \in Nat
           /\ \A n \in 1..Cardinality(S) : Nth(S, n) \in S
           /\ \A n, m \in 1..Cardinality(S) : n < m => Nth(S, n) < Nth(S, m)
           /\ \A x \in S : \E n \in 1..Cardinality(S) : Nth(S, n) = x
  <1> DEFINE N == Cardinality(S)
             rank == [x \in S |-> Cardinality(UpTo(S, x))]
  <1>1. N \in Nat /\ IsFiniteSet(1..N) /\ Cardinality(1..N) = N
    <2>1. N \in Nat
      BY FS_CardinalityType
    <2>2. \A n \in Nat : IsFiniteSet(1..n) /\ Cardinality(1..n) = n
      BY FS_Interval
    <2> HIDE DEF N
    <2> QED
      BY <2>1, <2>2
  <1>2. rank \in [S -> 1..N]
    BY UpToGrows
  <1>3. \A x, y \in S : x < y => rank[x] < rank[y]
    BY UpToGrows
  <1>4. \A x \in S : rank[x] = Cardinality({y \in S : y <= x})
    BY DEF UpTo
  <1> HIDE DEF rank
  <1>5. \A x, y \in S : rank[x] = rank[y] => x = y
    <2>1. \A x, y \in S : x \in Nat /\ y \in Nat /\ rank[x] \in Nat /\ rank[y] \in Nat
      BY <1>1, <1>2
    <2> QED
      BY <1>3, <2>1
  <1>6. rank \in Injection(S, 1..N)
    BY <1>2, <1>5 DEF Injection, IsInjective
  <1>7. rank \in Surjection(S, 1..N)
    BY <1>1, <1>6, FS_Injection
  <1>8. \A n \in 1..N : \E x \in S : rank[x] = n
    BY <1>7 DEF Surjection
  <1>9. ASSUME NEW n \in 1..N
        PROVE  Nth(S, n) \in S /\ rank[Nth(S, n)] = n
    BY <1>4, <1>8 DEF Nth
  <1>10. ASSUME NEW n \in 1..N, NEW m \in 1..N, n < m
         PROVE  Nth(S, n) < Nth(S, m)
    <2>1. Nth(S, n) \in Nat /\ Nth(S, m) \in Nat /\ n \in Nat /\ m \in Nat
      <3>1. Nth(S, n) \in S /\ Nth(S, m) \in S
        BY <1>9
      <3>2. \A z \in S : z \in Nat
        OBVIOUS
      <3>3. n \in Nat /\ m \in Nat
        BY <1>1
      <3> QED
        BY <3>1, <3>2, <3>3
    <2>2. Nth(S, n) \in S /\ Nth(S, m) \in S /\ rank[Nth(S, n)] = n /\ rank[Nth(S, m)] = m
      BY <1>9
    <2>3. ~(Nth(S, m) < Nth(S, n)) /\ Nth(S, m) # Nth(S, n)
      BY <1>3, <1>10, <2>1, <2>2
    <2> QED
      BY <2>1, <2>3
  <1>11. ASSUME NEW x \in S
         PROVE  \E n \in 1..N : Nth(S, n) = x
    <2>1. rank[x] \in 1..N
      BY <1>2
    <2>2. Nth(S, rank[x]) \in S /\ rank[Nth(S, rank[x])] = rank[x]
      BY <1>9, <2>1
    <2> QED
      BY <1>5, <2>1, <2>2
  <1> QED
    BY <1>1, <1>9, <1>10, <1>11

(***************************************************************************)
(* imageDataMapper                                                         *)
(***************************************************************************)

\* The files that metadata may name are there.
FileFits(v) == Nil(v) \/ (IsNum(v) /\ ~(v.n < 0) /\ ~(v.n >= Len(files)))

\* What imageDataMapper says of one element.
FileMessageOf(v) ==
    IF Nil(v) THEN NoMessage
    ELSE First(<<When(~IsNum(v), <<"metadata", "FILE_IDX_INVALID">>),
                 When(v.n < 0 \/ v.n >= Len(files), <<"metadata", "FILE_IDX_NOT_FOUND">>)>>)

LEMMA FileMessageOfIs ==
    ASSUME NEW v
    PROVE  /\ FileMessageOf(v) = NoMessage <=> FileFits(v)
           /\ FileMessageOf(v) \in {NoMessage, <<"metadata", "FILE_IDX_INVALID">>,
                                    <<"metadata", "FILE_IDX_NOT_FOUND">>}
           /\ FileMessageOf(v) = <<"metadata", "FILE_IDX_INVALID">> => ~Nil(v) /\ ~IsNum(v)
           /\ FileMessageOf(v) = <<"metadata", "FILE_IDX_NOT_FOUND">> =>
                ~Nil(v) /\ IsNum(v) /\ (v.n < 0 \/ v.n >= Len(files))
  <1>1. FileMessageOf(v) = IF Nil(v) THEN NoMessage
                           ELSE IF ~IsNum(v) THEN <<"metadata", "FILE_IDX_INVALID">>
                           ELSE IF v.n < 0 \/ v.n >= Len(files) THEN <<"metadata", "FILE_IDX_NOT_FOUND">>
                           ELSE NoMessage
    BY First2, SomeMessage DEF FileMessageOf, When
  <1>2. <<"metadata", "FILE_IDX_INVALID">> # <<"metadata", "FILE_IDX_NOT_FOUND">>
    OBVIOUS
  <1> QED
    BY <1>1, <1>2, SomeMessage DEF FileFits

LEMMA MapMessageIs ==
    ASSUME NEW list, Raw(list)
    PROVE  \/ MapMessage(list) = <<"images", "FILES_NOT_DEFINED">> /\ sent = None
           \/ /\ MapMessage(list) = NoMessage /\ sent # None
              /\ \A k \in DOMAIN list : FileFits(list[k].fields["fileIdx"])
           \/ /\ MapMessage(list) # NoMessage /\ sent # None
              /\ \E k \in DOMAIN list : MapMessage(list) = FileMessageOf(list[k].fields["fileIdx"])
  <1>1. CASE sent = None
    BY <1>1 DEF MapMessage
  <1>2. CASE sent # None
    <2> DEFINE s == [k \in DOMAIN list |-> FileMessageOf(list[k].fields["fileIdx"])]
    <2>1. FirstIn(s, Len(list)) /\ DOMAIN list = 1..Len(list)
      <3>1. DOMAIN s = 1..Len(list) /\ Len(list) \in Nat
        BY RawList
      <3> HIDE DEF s
      <3> QED
        BY <3>1, RawList, FirstOfList
    <2>2. \A k \in DOMAIN list : s[k] = FileMessageOf(list[k].fields["fileIdx"])
      OBVIOUS
    <2>3. MapMessage(list) = First(s)
      BY <1>2 DEF MapMessage, FileMessageOf
    <2> HIDE DEF s
    <2>4. \A k \in DOMAIN list : s[k] = NoMessage <=> FileFits(list[k].fields["fileIdx"])
      BY <2>2, FileMessageOfIs
    <2> QED
      BY <1>2, <2>1, <2>2, <2>3, <2>4 DEF FirstIn
  <1> QED
    BY <1>1, <1>2

LEMMA MapRefuses ==
    ASSUME Raw(SentItems), GoodList(Dtos(SentItems)),
           sent # None => Len(files) = Len(sent),
           MapMessage(Dtos(SentItems)) # NoMessage
    PROVE  CauseOf(MapMessage(Dtos(SentItems)))
  <1> DEFINE list == Dtos(SentItems)
             m == MapMessage(list)
  <1>1. Raw(list) /\ DOMAIN list = DOMAIN SentItems
    BY DtosKeep
  <1>2. m # NoMessage
    OBVIOUS
  <1>3. \/ m = <<"images", "FILES_NOT_DEFINED">> /\ sent = None
        \/ /\ sent # None
           /\ \E k \in DOMAIN list : m = FileMessageOf(list[k].fields["fileIdx"])
    BY <1>1, <1>2, MapMessageIs
  <1>4. CASE m = <<"images", "FILES_NOT_DEFINED">> /\ sent = None
    BY <1>4 DEF CauseOf, CauseInFiles
  <1>5. CASE sent # None /\ \E k \in DOMAIN list : m = FileMessageOf(list[k].fields["fileIdx"])
    <2>1. PICK k \in DOMAIN list : m = FileMessageOf(list[k].fields["fileIdx"])
      BY <1>5
    <2>2. list[k].shape = "object" /\ Fits(list[k].fields)
      BY DEF GoodList
    <2>3. ~Nil(list[k].fields["fileIdx"]) => IndexFits(list[k].fields["fileIdx"])
      BY <2>2 DEF Fits
    <2> DEFINE v == list[k].fields["fileIdx"]
    <2>4. m = <<"metadata", "FILE_IDX_NOT_FOUND">> /\ IsNum(v) /\ v.n >= Len(files)
      BY <1>2, <2>1, <2>3, FileMessageOfIs DEF IndexFits
    <2>5. CauseInField(m, "fileIdx", v)
      BY <1>5, <2>4 DEF CauseInField, SentCount
    <2>6. k \in DOMAIN SentItems /\ SentItems[k].shape = "object"
      BY <1>1, <2>2, DtosKeep
    <2>7. "fileIdx" \in FieldNames
      BY DEF FieldNames
    <2>8. CauseInField(m, "fileIdx", SentItems[k].fields["fileIdx"])
      BY <2>5, <2>6, <2>7, FieldsOfDtos
    <2> HIDE DEF m, list
    <2> QED
      BY <2>6, <2>7, <2>8 DEF CauseOf, m, list
  <1> QED
    BY <1>3, <1>4, <1>5

\* The files that no element names.
Unnamed(list) == DOMAIN files \ Named(list)

LEMMA JoinedIs ==
    ASSUME NEW list, Raw(list), files \in Seq(File),
           \A k \in DOMAIN list : FileFits(list[k].fields["fileIdx"])
    PROVE  /\ Unnamed(list) \subseteq Nat \ {0} /\ IsFiniteSet(Unnamed(list))
           /\ Cardinality(Unnamed(list)) \in Nat
           /\ Joined(list) \in Seq(Item)
           /\ Len(Joined(list)) = Len(list) + Cardinality(Unnamed(list))
           /\ \A k \in DOMAIN list : /\ Joined(list)[k].fields = list[k].fields
                                     /\ Joined(list)[k].file = FileOf(list[k])
                                     /\ FileOf(list[k]) \in 0..Len(files)
           /\ \A n \in 1..Cardinality(Unnamed(list)) :
                /\ Joined(list)[Len(list) + n].fields = NoFields
                /\ Joined(list)[Len(list) + n].file = Nth(Unnamed(list), n)
  <1> DEFINE U == Unnamed(list)
             C == Cardinality(U)
             N == Len(list)
             given == [k \in DOMAIN list |-> [fields |-> list[k].fields, file |-> FileOf(list[k])]]
             rest == [n \in 1..C |-> [fields |-> NoFields, file |-> Nth(U, n)]]
  <1>1. Len(files) \in Nat /\ DOMAIN files = 1..Len(files)
    BY LenProperties
  <1>2. U \subseteq Nat \ {0} /\ U \subseteq DOMAIN files
    BY <1>1 DEF Unnamed
  <1>3. IsFiniteSet(U)
    <2>1. \A n \in Nat : IsFiniteSet(1..n)
      BY FS_Interval
    <2>2. IsFiniteSet(DOMAIN files)
      BY <1>1, <2>1
    <2> QED
      BY <1>2, <2>2, FS_Subset
  <1>4. C \in Nat /\ \A n \in 1..C : Nth(U, n) \in U
    <2>1. U \subseteq Nat
      BY <1>2
    <2> HIDE DEF U
    <2> QED
      BY <1>3, <2>1, NthInOrder
  <1>5. N \in Nat /\ DOMAIN list = 1..N
    BY RawList
  <1>6. \A k \in DOMAIN list : FileOf(list[k]) \in 0..Len(files)
    <2> SUFFICES ASSUME NEW k \in DOMAIN list
                 PROVE  FileOf(list[k]) \in 0..Len(files)
      OBVIOUS
    <2> DEFINE v == list[k].fields["fileIdx"]
    <2>1. v \in Value
      BY RawList DEF FieldNames
    <2>2. FileOf(list[k]) = IF Nil(v) THEN 0 ELSE v.n + 1
      BY DEF FileOf, NoFile
    <2>3. FileFits(v)
      OBVIOUS
    <2> HIDE DEF v
    <2>4. CASE Nil(v)
      BY <1>1, <2>2, <2>4
    <2>5. CASE ~Nil(v)
      <3>1. v.n \in Int /\ ~(v.n < 0) /\ ~(v.n >= Len(files))
        BY <2>1, <2>3, <2>5, ValueKinds DEF FileFits
      <3>2. FileOf(list[k]) = v.n + 1
        BY <2>2, <2>5
      <3> QED
        BY <1>1, <3>1, <3>2
    <2> QED
      BY <2>4, <2>5
  <1>7. Joined(list) = given \o rest
    BY DEF Joined, Leftovers, Unnamed
  <1>8. NoFields \in [FieldNames -> Value]
    BY DEF NoFields, Value
  <1>9. given \in [1..N -> Item] /\ rest \in [1..C -> Item]
    <2>1. \A k \in DOMAIN list : [fields |-> list[k].fields, file |-> FileOf(list[k])] \in Item
      <3>1. \A k \in DOMAIN list : list[k].fields \in [FieldNames -> Value] /\ FileOf(list[k]) \in Nat
        BY <1>1, <1>6, RawList
      <3> QED
        BY <3>1 DEF Item
    <2>2. \A n \in 1..C : [fields |-> NoFields, file |-> Nth(U, n)] \in Item
      <3>1. \A n \in 1..C : Nth(U, n) \in Nat
        BY <1>2, <1>4
      <3> QED
        BY <1>8, <3>1 DEF Item
    <2> QED
      BY <1>5, <2>1, <2>2
  <1>10. /\ \A k \in DOMAIN list : given[k].fields = list[k].fields /\ given[k].file = FileOf(list[k])
         /\ \A n \in 1..C : rest[n].fields = NoFields /\ rest[n].file = Nth(U, n)
    OBVIOUS
  <1> HIDE DEF U, C, N, given, rest
  <1>11. /\ given \in Seq(Item) /\ Len(given) = N
         /\ rest \in Seq(Item) /\ Len(rest) = C
    BY <1>4, <1>5, <1>9, SeqDef, LenProperties
  <1>12. /\ given \o rest \in Seq(Item) /\ Len(given \o rest) = N + C
         /\ \A k \in 1..(N + C) : (given \o rest)[k] = IF k <= N THEN given[k] ELSE rest[k - N]
    BY <1>11, ConcatProperties
  <1>13. \A k \in DOMAIN list : (given \o rest)[k] = given[k]
    BY <1>4, <1>5, <1>12
  <1>14. \A n \in 1..C : (given \o rest)[N + n] = rest[n]
    <2> SUFFICES ASSUME NEW n \in 1..C
                 PROVE  (given \o rest)[N + n] = rest[n]
      OBVIOUS
    <2>1. N + n \in 1..(N + C) /\ ~(N + n <= N) /\ (N + n) - N = n
      BY <1>4, <1>5
    <2> QED
      BY <1>12, <2>1
  <1>15. /\ U \subseteq Nat \ {0} /\ IsFiniteSet(U) /\ C \in Nat
         /\ Joined(list) \in Seq(Item) /\ Len(Joined(list)) = N + C
    BY <1>2, <1>3, <1>4, <1>7, <1>12
  <1>16. \A k \in DOMAIN list : Joined(list)[k].fields = list[k].fields /\ Joined(list)[k].file = FileOf(list[k])
    BY <1>7, <1>10, <1>13
  <1>17. \A n \in 1..C : Joined(list)[N + n].fields = NoFields /\ Joined(list)[N + n].file = Nth(U, n)
    BY ZenonT(30), <1>7, <1>10, <1>14
  <1> QED
    BY <1>6, <1>15, <1>16, <1>17 DEF U, C, N

\* An item is made of an element of the metadata, or of a file nobody named.
LEMMA JoinedItem ==
    ASSUME NEW list, Raw(list), files \in Seq(File),
           \A k \in DOMAIN list : FileFits(list[k].fields["fileIdx"]),
           NEW k \in DOMAIN Joined(list)
    PROVE  \/ /\ k \in DOMAIN list /\ k <= Len(list)
              /\ Joined(list)[k].fields = list[k].fields
              /\ Joined(list)[k].file = FileOf(list[k])
           \/ /\ k - Len(list) \in 1..Cardinality(Unnamed(list)) /\ k > Len(list)
              /\ Joined(list)[k].fields = NoFields
              /\ Joined(list)[k].file = Nth(Unnamed(list), k - Len(list))
  <1> DEFINE N == Len(list)
             C == Cardinality(Unnamed(list))
  <1>1. N \in Nat /\ C \in Nat /\ DOMAIN list = 1..N /\ DOMAIN Joined(list) = 1..(N + C)
    BY RawList, JoinedIs, LenProperties
  <1>2. /\ \A l \in DOMAIN list : /\ Joined(list)[l].fields = list[l].fields
                                  /\ Joined(list)[l].file = FileOf(list[l])
        /\ \A n \in 1..C : /\ Joined(list)[N + n].fields = NoFields
                           /\ Joined(list)[N + n].file = Nth(Unnamed(list), n)
    BY JoinedIs
  <1> HIDE DEF N, C
  <1>3. k \in 1..(N + C)
    BY <1>1
  <1>4. CASE k <= N
    <2>1. k \in DOMAIN list
      BY <1>1, <1>3, <1>4
    <2> QED
      BY <1>2, <1>4, <2>1 DEF N
  <1>5. CASE ~(k <= N)
    <2>1. k - N \in 1..C /\ N + (k - N) = k /\ k > N
      BY <1>1, <1>3, <1>5
    <2>2. Joined(list)[N + (k - N)].fields = NoFields /\ Joined(list)[N + (k - N)].file = Nth(Unnamed(list), k - N)
      BY <1>2, <2>1
    <2> QED
      BY <2>1, <2>2 DEF N, C
  <1> QED
    BY <1>4, <1>5

\* Different elements name different files.
LEMMA NamesDiffer ==
    ASSUME NEW list, Raw(list), GoodList(list),
           NEW j \in DOMAIN list, NEW k \in DOMAIN list,
           FileOf(list[j]) = FileOf(list[k]), FileOf(list[k]) # 0,
           \A l \in DOMAIN list : FileFits(list[l].fields["fileIdx"])
    PROVE  j = k
  <1> DEFINE v == list[j].fields["fileIdx"]
             w == list[k].fields["fileIdx"]
  <1>1. v \in Value /\ w \in Value
    BY RawList DEF FieldNames
  <1>2. /\ FileOf(list[j]) = IF Nil(v) THEN 0 ELSE v.n + 1
        /\ FileOf(list[k]) = IF Nil(w) THEN 0 ELSE w.n + 1
    BY DEF FileOf, NoFile
  <1>3. (Nil(v) \/ IndexFits(v)) /\ (Nil(w) \/ IndexFits(w))
    BY DEF GoodList, Fits
  <1>4. j # k => Nil(v) \/ v # w
    BY DEF GoodList, Repeats
  <1> HIDE DEF v, w
  <1>5. ~Nil(v) /\ ~Nil(w)
    BY <1>2
  <1>6. /\ v \in Numbers /\ w \in Numbers /\ v.form = "int" /\ w.form = "int"
        /\ v.n \in Int /\ w.n \in Int
    BY <1>1, <1>3, <1>5, ValueKinds DEF IndexFits
  <1>7. v.n = w.n
    <2>1. v.n + 1 = w.n + 1
      BY <1>2, <1>5
    <2> QED
      BY <1>6, <2>1
  <1>8. v = w
    BY <1>6, <1>7 DEF Numbers
  <1> QED
    BY <1>4, <1>5, <1>8

\* Every file of the request is in exactly one item.
LEMMA FilesInOneItem ==
    ASSUME NEW list, Raw(list), GoodList(list), files \in Seq(File),
           \A l \in DOMAIN list : FileFits(list[l].fields["fileIdx"]),
           NEW n \in DOMAIN files
    PROVE  \E k \in DOMAIN Joined(list) :
              /\ Joined(list)[k].file = n
              /\ \A j \in DOMAIN Joined(list) : Joined(list)[j].file = n => j = k
  <1> DEFINE N == Len(list)
             U == Unnamed(list)
             C == Cardinality(U)
             J == Joined(list)
  <1>1. N \in Nat /\ C \in Nat /\ DOMAIN list = 1..N /\ DOMAIN J = 1..(N + C)
    BY RawList, JoinedIs, LenProperties
  <1>2. n \in Nat /\ n # 0
    BY LenProperties
  <1>3. \A j \in DOMAIN J :
            \/ j \in DOMAIN list /\ J[j].file = FileOf(list[j])
            \/ j - N \in 1..C /\ J[j].file = Nth(U, j - N)
    BY JoinedItem
  <1>4. /\ \A l \in DOMAIN list : J[l].file = FileOf(list[l])
        /\ \A m \in 1..C : J[N + m].file = Nth(U, m)
    BY JoinedIs
  <1>5. /\ \A m \in 1..C : Nth(U, m) \in U
        /\ \A m, l \in 1..C : m < l => Nth(U, m) < Nth(U, l)
        /\ \A x \in U : \E m \in 1..C : Nth(U, m) = x
    <2>1. U \subseteq Nat /\ IsFiniteSet(U)
      BY JoinedIs
    <2> HIDE DEF U
    <2> QED
      BY <2>1, NthInOrder
  <1>6. \A x : x \in U <=> x \in DOMAIN files /\ \A l \in DOMAIN list : FileOf(list[l]) # x
    BY DEF Unnamed, Named
  <1>7. \A j, l \in DOMAIN list : FileOf(list[j]) = FileOf(list[l]) /\ FileOf(list[l]) = n => j = l
    BY <1>2, NamesDiffer
  <1>8. U \subseteq Nat
    BY JoinedIs
  <1> HIDE DEF N, U, C, J
  <1>9. CASE \E l \in DOMAIN list : FileOf(list[l]) = n
    <2>1. PICK l \in DOMAIN list : FileOf(list[l]) = n
      BY <1>9
    <2>2. l \in DOMAIN J /\ J[l].file = n
      BY <1>1, <1>4, <2>1
    <2>3. ASSUME NEW j \in DOMAIN J, J[j].file = n
          PROVE  j = l
      <3>1. n \notin U
        BY <1>6, <2>1
      <3>2. j \in DOMAIN list /\ J[j].file = FileOf(list[j])
        BY <1>3, <1>5, <2>3, <3>1
      <3> QED
        BY <1>7, <2>1, <2>3, <3>2
    <2> QED
      BY <2>2, <2>3 DEF J
  <1>10. CASE ~\E l \in DOMAIN list : FileOf(list[l]) = n
    <2>1. n \in U
      BY <1>6, <1>10
    <2>2. PICK m \in 1..C : Nth(U, m) = n
      BY <1>5, <2>1
    <2>3. N + m \in DOMAIN J /\ J[N + m].file = n
      BY <1>1, <1>4, <2>2
    <2>4. ASSUME NEW j \in DOMAIN J, J[j].file = n
          PROVE  j = N + m
      <3>1. j - N \in 1..C /\ J[j].file = Nth(U, j - N)
        BY <1>3, <1>10, <2>4
      <3>2. ~(j - N < m) /\ ~(m < j - N)
        <4>1. Nth(U, j - N) = n /\ Nth(U, m) = n
          BY <2>2, <2>4, <3>1
        <4>2. ~(n < n)
          BY <1>2
        <4> QED
          BY <1>5, <3>1, <4>1, <4>2
      <3>3. j \in Int /\ m \in Int
        BY <1>1
      <3> QED
        BY <1>1, <3>1, <3>2, <3>3
    <2> QED
      BY <2>3, <2>4 DEF J
  <1> QED
    BY <1>9, <1>10

\* The elements of the metadata come first and keep their fields; the rest are
\* in the order of the files.
LEMMA ItemsInOrder ==
    ASSUME NEW list, Raw(list), files \in Seq(File),
           \A l \in DOMAIN list : FileFits(list[l].fields["fileIdx"])
    PROVE  /\ Len(list) <= Len(Joined(list))
           /\ \A k \in DOMAIN Joined(list) :
                IF k <= Len(list)
                THEN /\ Joined(list)[k].fields = list[k].fields
                     /\ ~Nil(Joined(list)[k].fields["fileIdx"]) =>
                          Joined(list)[k].file = Joined(list)[k].fields["fileIdx"].n + 1
                ELSE /\ Joined(list)[k].fields = NoFields
                     /\ k > Len(list) + 1 => Joined(list)[k - 1].file < Joined(list)[k].file
  <1> DEFINE N == Len(list)
             U == Unnamed(list)
             C == Cardinality(U)
             J == Joined(list)
  <1>1. N \in Nat /\ C \in Nat /\ DOMAIN list = 1..N /\ DOMAIN J = 1..(N + C) /\ Len(J) = N + C
    BY RawList, JoinedIs, LenProperties
  <1>2. ASSUME NEW k \in DOMAIN J
        PROVE  \/ /\ k \in DOMAIN list /\ k <= N
                  /\ J[k].fields = list[k].fields /\ J[k].file = FileOf(list[k])
               \/ /\ k - N \in 1..C /\ k > N
                  /\ J[k].fields = NoFields /\ J[k].file = Nth(U, k - N)
    BY JoinedItem
  <1>3. \A m, l \in 1..C : m < l => Nth(U, m) < Nth(U, l)
    <2>1. U \subseteq Nat /\ IsFiniteSet(U)
      BY JoinedIs
    <2> HIDE DEF U
    <2> QED
      BY <2>1, NthInOrder
  <1>4. \A l \in DOMAIN list :
            FileOf(list[l]) = IF Nil(list[l].fields["fileIdx"]) THEN 0 ELSE list[l].fields["fileIdx"].n + 1
    BY DEF FileOf, NoFile
  <1> HIDE DEF N, U, C, J
  <1>5. ASSUME NEW k \in DOMAIN J
        PROVE  IF k <= N
               THEN /\ J[k].fields = list[k].fields
                    /\ ~Nil(J[k].fields["fileIdx"]) => J[k].file = J[k].fields["fileIdx"].n + 1
               ELSE /\ J[k].fields = NoFields
                    /\ k > N + 1 => J[k - 1].file < J[k].file
    <2>1. k \in 1..(N + C)
      BY <1>1
    <2>2. CASE k <= N
      BY <1>1, <1>2, <1>4, <2>1, <2>2
    <2>3. CASE ~(k <= N)
      <3>1. k - N \in 1..C /\ J[k].fields = NoFields /\ J[k].file = Nth(U, k - N)
        BY <1>1, <1>2, <2>1, <2>3
      <3>2. ASSUME k > N + 1
            PROVE  J[k - 1].file < J[k].file
        <4>1. k - 1 \in DOMAIN J /\ ~(k - 1 <= N)
          BY <1>1, <2>1, <3>2
        <4>2. (k - 1) - N \in 1..C /\ J[k - 1].file = Nth(U, (k - 1) - N)
          BY <1>1, <1>2, <4>1
        <4>3. (k - 1) - N < k - N
          BY <1>1, <2>1
        <4> QED
          BY <1>3, <3>1, <4>2, <4>3
      <3> QED
        BY <2>3, <3>1, <3>2
    <2> QED
      BY <2>2, <2>3
  <1>6. N <= Len(J)
    BY <1>1
  <1> QED
    BY <1>5, <1>6 DEF N, J

(***************************************************************************)
(* validateImageData                                                       *)
(***************************************************************************)
LEMMA RulesAgree ==
    ASSUME NEW f, NEW v
    PROVE  /\ TextFits(v) => TextRule(f, v) = NoMessage
           /\ FlagFits(v) => BoolRule(f, v) = NoMessage
  <1>1. TextFits(v) => TextRule(f, v) = NoMessage
    <2>1. CASE Nil(v)
      BY <2>1 DEF TextRule
    <2>2. CASE ~Nil(v) /\ TextFits(v)
      BY <2>2, First2 DEF TextRule, TextFits, When
    <2> QED
      BY <2>1, <2>2
  <1>2. FlagFits(v) => BoolRule(f, v) = NoMessage
    <2>1. CASE v = Undefined
      BY <2>1 DEF BoolRule
    <2>2. CASE v # Undefined /\ FlagFits(v)
      BY <2>2, First2 DEF BoolRule, FlagFits, When
    <2> QED
      BY <2>1, <2>2
  <1> QED
    BY <1>1, <1>2

IsMain(list, k) == list[k].fields["main"] = Bit(TRUE)

\* An item that has nothing wrong with it.
LEMMA ItemPasses ==
    ASSUME NEW list, NEW k,
           TextFits(list[k].fields["name"]), TextFits(list[k].fields["description"]),
           FlagFits(list[k].fields["main"]), FlagFits(list[k].fields["active"]),
           FlagFits(list[k].fields["delete"]),
           ~(IsMain(list, k) /\ \E j \in 1..(k - 1) : IsMain(list, j)),
           \/ list[k].file = NoFile /\ ~Nil(list[k].fields["imageId"]) /\ NamesImage(list[k].fields["imageId"])
           \/ list[k].file # NoFile /\ Nil(list[k].fields["imageId"])
    PROVE  ItemMessage(list, k) = NoMessage
  <1> DEFINE i == list[k].fields
             file == list[k].file # NoFile
             s == <<TextRule("name", i["name"]), TextRule("description", i["description"]),
                    BoolRule("main", i["main"]),
                    When(IsMain(list, k) /\ \E j \in 1..(k - 1) : IsMain(list, j), <<"images", "MULTIPLE_MAINS">>),
                    BoolRule("active", i["active"]), BoolRule("delete", i["delete"]),
                    When(~Nil(i["imageId"]) /\ ~IsValidUUID(i["imageId"]), <<"imageId", "INVALID">>),
                    When(file /\ ~Nil(i["imageId"]), <<"images", "INVALID_FILE">>),
                    When(~file /\ Nil(i["imageId"]), <<"images", "NONE_DEFINED">>)>>
  <1>1. ItemMessage(list, k) = First(s)
    BY DEF ItemMessage, IsMain
  <1>2. /\ TextRule("name", i["name"]) = NoMessage /\ TextRule("description", i["description"]) = NoMessage
        /\ BoolRule("main", i["main"]) = NoMessage /\ BoolRule("active", i["active"]) = NoMessage
        /\ BoolRule("delete", i["delete"]) = NoMessage
    BY RulesAgree
  <1>3. When(IsMain(list, k) /\ \E j \in 1..(k - 1) : IsMain(list, j), <<"images", "MULTIPLE_MAINS">>) = NoMessage
    BY DEF When
  <1>4. When(~Nil(i["imageId"]) /\ ~IsValidUUID(i["imageId"]), <<"imageId", "INVALID">>) = NoMessage
    BY DEF When, IsValidUUID, NamesImage, IsText
  <1>5. /\ When(file /\ ~Nil(i["imageId"]), <<"images", "INVALID_FILE">>) = NoMessage
        /\ When(~file /\ Nil(i["imageId"]), <<"images", "NONE_DEFINED">>) = NoMessage
    BY DEF When
  <1>6. First(s) = NoMessage
    BY <1>2, <1>3, <1>4, <1>5, First9
  <1> QED
    BY <1>1, <1>6

LEMMA UndefinedFits ==
    /\ Nil(Undefined) /\ TextFits(Undefined) /\ FlagFits(Undefined) /\ ~Truthy(Undefined)
    /\ Truthy(Bit(TRUE))
  <1>1. /\ Undefined.type = "undefined" /\ Undefined.form = "" /\ Undefined.n = 0
        /\ Null.type = "null"
    BY DEF Undefined, Null
  <1>2. Bit(TRUE).n = 1
    BY DEF Bit
  <1>3. Nil(Undefined) /\ TextFits(Undefined)
    BY <1>1 DEF Nil, TextFits
  <1>4. Undefined # Null
    BY <1>1
  <1>5. FlagFits(Undefined)
    BY <1>4 DEF FlagFits
  <1>6. ~Truthy(Undefined)
    BY <1>1 DEF Truthy
  <1>7. Truthy(Bit(TRUE))
    <2>1. \A v : v.n = 1 => Truthy(v)
      BY DEF Truthy
    <2> QED
      BY <1>2, <2>1
  <1> QED
    BY <1>3, <1>5, <1>6, <1>7

LEMMA NoFieldsIs == \A f \in FieldNames : NoFields[f] = Undefined
  BY DEF NoFields

\* Whatever the pipe and imageDataMapper let through has nothing that
\* validateImageData refuses, unless it is empty.
LEMMA CheckPasses ==
    ASSUME NEW list, Raw(list), GoodList(list), files \in Seq(File),
           \A l \in DOMAIN list : FileFits(list[l].fields["fileIdx"])
    PROVE  CheckMessage(Joined(list)) = IF Joined(list) = <<>> THEN <<"images", "IMAGE_LIST_EMPTY">>
                                        ELSE NoMessage
  <1> DEFINE N == Len(list)
             U == Unnamed(list)
             C == Cardinality(U)
             J == Joined(list)
  <1>1. /\ N \in Nat /\ C \in Nat /\ DOMAIN list = 1..N /\ DOMAIN J = 1..(N + C)
        /\ Len(J) \in Nat /\ DOMAIN J = 1..Len(J)
    BY RawList, JoinedIs, LenProperties
  <1>2. ASSUME NEW k \in DOMAIN J
        PROVE  \/ /\ k \in DOMAIN list /\ k <= N
                  /\ J[k].fields = list[k].fields /\ J[k].file = FileOf(list[k])
               \/ /\ k - N \in 1..C /\ k > N
                  /\ J[k].fields = NoFields /\ J[k].file = Nth(U, k - N)
    BY JoinedItem
  <1>3. \A n \in 1..C : Nth(U, n) # 0
    <2>1. U \subseteq Nat /\ IsFiniteSet(U) /\ 0 \notin U
      BY JoinedIs
    <2> HIDE DEF U
    <2> QED
      BY <2>1, NthInOrder
  <1>4. \A f \in {"name", "description", "main", "active", "delete", "imageId", "fileIdx"} :
            NoFields[f] = Undefined
    BY NoFieldsIs DEF FieldNames
  <1>5. \A l \in DOMAIN list : Fits(list[l].fields)
    BY DEF GoodList
  <1>6. \A l \in DOMAIN list : FileOf(list[l]) = 0 <=> Nil(list[l].fields["fileIdx"])
    <2> SUFFICES ASSUME NEW l \in DOMAIN list
                 PROVE  FileOf(list[l]) = 0 <=> Nil(list[l].fields["fileIdx"])
      OBVIOUS
    <2> DEFINE v == list[l].fields["fileIdx"]
    <2>1. FileOf(list[l]) = IF Nil(v) THEN 0 ELSE v.n + 1
      BY DEF FileOf, NoFile
    <2>2. v \in Value
      BY RawList DEF FieldNames
    <2>3. ~Nil(v) => v.n \in Int /\ ~(v.n < 0)
      BY <1>5, <2>2, ValueKinds DEF Fits, IndexFits
    <2> HIDE DEF v
    <2>4. ~Nil(v) => v.n + 1 # 0
      BY <2>3
    <2>5. FileOf(list[l]) = 0 <=> Nil(v)
      BY <2>1, <2>4
    <2> QED
      BY <2>5 DEF v
  <1>7. \A v : NamesImage(v) => ~Nil(v)
    BY DEF NamesImage, Nil
  <1>8. \A v : IndexFits(v) => ~Nil(v)
    BY DEF IndexFits, IsNum, Nil
  <1>9. \A k \in DOMAIN J : IsMain(J, k) => k \in DOMAIN list /\ IsMain(list, k)
    <2>1. Undefined # Bit(TRUE)
      BY UndefinedFits
    <2> HIDE DEF J
    <2> QED
      BY <1>2, <1>4, <2>1 DEF IsMain
  <1>10. \A j, k \in DOMAIN list : IsMain(list, j) /\ IsMain(list, k) => j = k
    BY UndefinedFits DEF IsMain, GoodList, TwoMains
  <1> HIDE DEF J, U, C, N
  <1>11. ASSUME NEW k \in DOMAIN J
         PROVE  ItemMessage(J, k) = NoMessage
    <2>1. ~(IsMain(J, k) /\ \E j \in 1..(k - 1) : IsMain(J, j))
      <3> SUFFICES ASSUME IsMain(J, k), NEW j \in 1..(k - 1), IsMain(J, j)
                   PROVE  FALSE
        OBVIOUS
      <3>1. j \in DOMAIN J /\ j # k
        BY <1>1
      <3> QED
        BY <1>9, <1>10, <3>1
    <2>2. CASE k \in DOMAIN list /\ J[k].fields = list[k].fields /\ J[k].file = FileOf(list[k])
      <3>1. Fits(J[k].fields)
        BY <1>5, <2>2
      <3>2. \/ J[k].file = 0 /\ ~Nil(J[k].fields["imageId"]) /\ NamesImage(J[k].fields["imageId"])
            \/ J[k].file # 0 /\ Nil(J[k].fields["imageId"])
        BY <1>6, <1>7, <1>8, <2>2, <3>1 DEF Fits
      <3> QED
        BY <2>1, <3>1, <3>2, ItemPasses DEF Fits, NoFile
    <2>3. CASE k - N \in 1..C /\ J[k].fields = NoFields /\ J[k].file = Nth(U, k - N)
      <3>1. J[k].file # 0
        BY <1>3, <2>3
      <3>2. /\ TextFits(J[k].fields["name"]) /\ TextFits(J[k].fields["description"])
            /\ FlagFits(J[k].fields["main"]) /\ FlagFits(J[k].fields["active"])
            /\ FlagFits(J[k].fields["delete"]) /\ Nil(J[k].fields["imageId"])
        BY <1>4, <2>3, UndefinedFits
      <3> QED
        BY <2>1, <3>1, <3>2, ItemPasses DEF NoFile
    <2> QED
      BY <1>2, <2>2, <2>3
  <1>12. ~Repeats(J, "imageId")
    <2> SUFFICES ASSUME NEW j \in DOMAIN J, NEW k \in DOMAIN J, j # k,
                        ~Nil(J[j].fields["imageId"]),
                        J[j].fields["imageId"] = J[k].fields["imageId"]
                 PROVE  FALSE
      BY DEF Repeats
    <2>1. \A l \in DOMAIN J : ~Nil(J[l].fields["imageId"]) => l \in DOMAIN list /\ J[l].fields = list[l].fields
      BY <1>2, <1>4, UndefinedFits
    <2>2. ~Nil(J[k].fields["imageId"])
      OBVIOUS
    <2>3. /\ j \in DOMAIN list /\ J[j].fields = list[j].fields
          /\ k \in DOMAIN list /\ J[k].fields = list[k].fields
      BY <2>1, <2>2
    <2> QED
      BY <2>3 DEF GoodList, Repeats
  <1>13. First([k \in DOMAIN J |-> ItemMessage(J, k)]) = NoMessage
    <2> DEFINE s == [k \in DOMAIN J |-> ItemMessage(J, k)]
    <2>1. \A k \in DOMAIN s : s[k] = NoMessage
      BY <1>11
    <2> HIDE DEF s
    <2>2. First(s) = NoMessage
      BY <2>1, FirstOfNone
    <2> QED
      BY <2>2 DEF s
  <1>14. CheckMessage(J) = First(<<When(J = <<>>, <<"images", "IMAGE_LIST_EMPTY">>), NoMessage, NoMessage>>)
    BY <1>12, <1>13 DEF CheckMessage, When
  <1>15. CheckMessage(J) = IF J = <<>> THEN <<"images", "IMAGE_LIST_EMPTY">> ELSE NoMessage
    BY <1>14, First3, SomeMessage DEF When
  <1> QED
    BY <1>15 DEF J

(***************************************************************************)
(* Well-formed requests                                                    *)
(***************************************************************************)
LEMMA AllowedIs ==
    ASSUME NEW file
    PROVE  Allowed(file) <=> file.ext \in {".jpeg", ".jpg", ".png", ".gif"}
  <1> DEFINE S == {".jpeg", ".jpg", ".png", ".gif"}
  <1>1. /\ Declared[1] = ".jpeg" /\ Declared[2] = ".jpg"
        /\ Declared[3] = ".png" /\ Declared[4] = ".gif"
    BY DEF Declared
  <1>2. Len(Declared) = 5
    BY DEF Declared
  <1>3. AllowedTypes = SubSeq(Declared, 1, 4)
    BY <1>2 DEF AllowedTypes
  <1>4. \A k \in 1..4 : Declared[k] \in S
    BY <1>1
  <1> HIDE DEF S
  <1>5. /\ AllowedTypes \in Seq(S) /\ Len(AllowedTypes) = 4
        /\ \A k \in 1..4 : AllowedTypes[k] = Declared[k]
    BY <1>3, <1>4, SubSeqProperties
  <1>6. DOMAIN AllowedTypes = 1..4
    BY <1>5, LenProperties
  <1> QED
    BY <1>1, <1>5, <1>6 DEF Allowed

LEMMA DeclaredIs ==
    ASSUME NEW ext
    PROVE  ext \in DeclaredTypes <=> ext \in {".jpeg", ".jpg", ".png", ".gif"} \/ ext = ".webp"
  <1>1. DOMAIN Declared = 1..5
    BY DEF Declared
  <1>2. /\ Declared[1] = ".jpeg" /\ Declared[2] = ".jpg" /\ Declared[3] = ".png"
        /\ Declared[4] = ".gif" /\ Declared[5] = ".webp"
    BY DEF Declared
  <1>3. \A k \in 1..5 : k = 1 \/ k = 2 \/ k = 3 \/ k = 4 \/ k = 5
    OBVIOUS
  <1> QED
    BY <1>1, <1>2, <1>3 DEF DeclaredTypes

LEMMA CauseIsMessage ==
    ASSUME NEW m, CauseOf(m) \/ WebpRefused(m)
    PROVE  \E a, b : m = <<a, b>>
  <1>1. CauseInFiles(m) => \E a, b : m = <<a, b>>
    BY DEF CauseInFiles
  <1>2. CauseInList(m) => \E a, b : m = <<a, b>>
    BY DEF CauseInList
  <1>3. CauseInPair(m) => \E a, b : m = <<a, b>>
    BY DEF CauseInPair
  <1>4. ASSUME NEW f, NEW v, CauseInField(m, f, v)
        PROVE  \E a, b : m = <<a, b>>
    BY <1>4 DEF CauseInField
  <1>5. ASSUME NEW i, CauseInElement(m, i)
        PROVE  \E a, b : m = <<a, b>>
    BY <1>5 DEF CauseInElement
  <1> QED
    BY <1>1, <1>2, <1>3, <1>4, <1>5 DEF CauseOf, WebpRefused

LEMMA GoodElement ==
    ASSUME NEW item, item.fields \in [FieldNames -> Value], GoodItem(item), NEW m,
           SentCount \in Nat
    PROVE  /\ \A f \in FieldNames : ~CauseInField(m, f, item.fields[f])
           /\ ~CauseInElement(m, item.fields)
           /\ Truthy(item.fields["main"]) => item.fields["main"] = Bit(TRUE)
  <1> DEFINE i == item.fields
  <1>1. \A f \in {"name", "description", "main", "active", "delete", "imageId", "fileIdx"} :
            i[f] \in Value
    BY DEF FieldNames
  <1>2. /\ GoodText(i["name"]) /\ GoodText(i["description"])
        /\ GoodFlag(i["main"]) /\ GoodFlag(i["active"]) /\ GoodFlag(i["delete"])
        /\ \/ NamesImage(i["imageId"]) /\ i["fileIdx"] \in {Undefined, Null}
           \/ NamesFile(i["fileIdx"]) /\ i["imageId"] \in {Undefined, Null}
    BY DEF GoodItem
  <1> HIDE DEF i
  <1>3. Nil(Undefined) /\ Nil(Null) /\ ~Truthy(Undefined) /\ ~Truthy(Bit(FALSE)) /\ Null # Undefined
    <2>1. Undefined.type = "undefined" /\ Null.type = "null"
      BY DEF Undefined, Null
    <2>2. Nil(Undefined) /\ Nil(Null) /\ Null # Undefined
      BY <2>1 DEF Nil
    <2>3. Bit(FALSE).n = 0 /\ Bit(FALSE).form = ""
      BY DEF Bit
    <2>4. \A v : v.n = 0 /\ v.form = "" => ~Truthy(v)
      BY DEF Truthy
    <2> QED
      BY <2>2, <2>3, <2>4, UndefinedFits
  <1>4. Null # Bit(TRUE) /\ Null # Bit(FALSE) /\ IsBit(Bit(TRUE)) /\ IsBit(Bit(FALSE))
    <2>1. Null.type = "null" /\ Bit(TRUE).type = "boolean" /\ Bit(FALSE).type = "boolean"
      BY DEF Null, Bit
    <2> QED
      BY <2>1 DEF IsBit
  <1>5. \A v : (Nil(v) => ~IsText(v) /\ ~IsNum(v) /\ ~IsBit(v)) /\ (IsText(v) => ~IsNum(v))
    BY DEF Nil, IsText, IsNum, IsBit
  <1>6. ASSUME NEW v \in Value, GoodText(v)
        PROVE  (Nil(v) \/ IsText(v)) /\ ~(IsText(v) /\ Length(v) > MaxText)
    <2>1. CASE v \in {Undefined, Null}
      BY <1>3, <1>5, <2>1
    <2>2. CASE v.type = "string" /\ Length(v) <= MaxText
      <3>1. IsText(v)
        BY <2>2 DEF IsText
      <3>2. Length(v) \in Nat /\ MaxText \in Nat
        BY <3>1, ValueKinds, LimitAssumption
      <3> QED
        BY <2>2, <3>1, <3>2
    <2> QED
      BY <1>6, <2>1, <2>2 DEF GoodText
  <1>7. ASSUME NEW v, GoodFlag(v)
        PROVE  v # Null /\ (Nil(v) \/ IsBit(v)) /\ (Truthy(v) => v = Bit(TRUE))
    <2>1. CASE v = Undefined
      BY <1>3, <2>1
    <2>2. CASE v = Bit(TRUE)
      BY <1>4, <2>2
    <2>3. CASE v = Bit(FALSE)
      BY <1>3, <1>4, <2>3
    <2> QED
      BY <1>7, <2>1, <2>2, <2>3 DEF GoodFlag
  <1>8. \A v : NamesImage(v) => IsText(v) /\ v.form = "uuid" /\ ~Nil(v)
    BY DEF NamesImage, IsText, Nil
  <1>9. \A v : NamesFile(v) => IsNum(v) /\ v.form = "int" /\ ~Nil(v) /\ v.n \in 0..(SentCount - 1)
    BY DEF NamesFile, IsNum, Nil
  <1>10. ASSUME NEW f \in FieldNames
         PROVE  ~CauseInField(m, f, i[f])
    <2>1. CASE f \in {"name", "description"}
      <3>1. (Nil(i[f]) \/ IsText(i[f])) /\ ~(IsText(i[f]) /\ Length(i[f]) > MaxText)
        BY <1>1, <1>2, <1>6, <2>1
      <3> QED
        BY <2>1, <3>1 DEF CauseInField
    <2>2. CASE f \in {"main", "active", "delete"}
      <3>1. i[f] # Null /\ (Nil(i[f]) \/ IsBit(i[f]))
        BY <1>2, <1>7, <2>2
      <3> QED
        BY <2>2, <3>1 DEF CauseInField
    <2>3. CASE f = "imageId"
      <3>1. Nil(i[f]) \/ (IsText(i[f]) /\ i[f].form = "uuid")
        BY <1>2, <1>3, <1>8, <2>3
      <3> QED
        BY <1>5, <2>3, <3>1 DEF CauseInField
    <2>4. CASE f = "fileIdx"
      <3>1. Nil(i[f]) \/ (IsNum(i[f]) /\ i[f].form = "int" /\ i[f].n \in 0..(SentCount - 1))
        BY <1>2, <1>3, <1>9, <2>4
      <3>2. IsNum(i[f]) => i[f].form = "int" /\ ~(i[f].n < 0) /\ ~(i[f].n >= SentCount)
        <4>1. ASSUME IsNum(i[f])
              PROVE  i[f].form = "int" /\ ~(i[f].n < 0) /\ ~(i[f].n >= SentCount)
          <5>1. i[f].form = "int" /\ i[f].n \in 0..(SentCount - 1)
            BY <1>5, <3>1, <4>1
          <5> QED
            BY <5>1
        <4> QED
          BY <4>1
      <3> QED
        BY <1>5, <2>4, <3>1, <3>2 DEF CauseInField
    <2> QED
      BY <2>1, <2>2, <2>3, <2>4 DEF FieldNames
  <1>11. ~CauseInElement(m, i)
    BY <1>2, <1>3, <1>8, <1>9 DEF CauseInElement
  <1>12. Truthy(i["main"]) => i["main"] = Bit(TRUE)
    BY <1>2, <1>7
  <1> QED
    BY <1>10, <1>11, <1>12 DEF i

LEMMA SentItemsRaw ==
    ASSUME body \in Body
    PROVE  Raw(SentItems)
  <1>1. body.items \in Seq(RawItem)
    BY DEF Body
  <1>2. <<>> \in Seq(RawItem)
    OBVIOUS
  <1> QED
    BY <1>1, <1>2 DEF SentItems, Raw

LEMMA SentCountIs ==
    ASSUME sent \in Seq(File) \cup {None}
    PROVE  SentCount \in Nat /\ (sent # None => SentCount = Len(sent) /\ DOMAIN sent = 1..Len(sent))
  BY LenProperties DEF SentCount

\* A request that has a defect is not well-formed.
LEMMA CauseIsDefect ==
    ASSUME NEW m, CauseOf(m), body \in Body, sent \in Seq(File) \cup {None}
    PROVE  ~WellFormed
  <1> SUFFICES ASSUME WellFormed
               PROVE  FALSE
    OBVIOUS
  <1>1. sent # None /\ SentCount = Len(sent) /\ SentCount \in Nat /\ SentCount <= MaxImages
    BY SentCountIs DEF WellFormed
  <1>2. \A k \in DOMAIN sent : sent[k].ext \in DeclaredTypes /\ ~sent[k].large
    BY DEF WellFormed
  <1>3. body.form \in {"absent", "null", "list"}
    BY DEF WellFormed
  <1>4. \A k \in DOMAIN SentItems : GoodItem(SentItems[k])
    BY DEF WellFormed
  <1>5. \A j, k \in DOMAIN SentItems : j # k =>
            /\ SentItems[j].fields["main"] = Bit(TRUE) => SentItems[k].fields["main"] # Bit(TRUE)
            /\ \A f \in {"imageId", "fileIdx"} :
                  SentItems[j].fields[f] = SentItems[k].fields[f] => Nil(SentItems[j].fields[f])
    BY DEF WellFormed
  <1>6. Len(SentItems) \in Nat /\ (SentItems = <<>> => Len(SentItems) = 0)
    BY SentItemsRaw, RawList
  <1>7. Len(sent) + Len(SentItems) > 0
    BY DEF WellFormed
  <1>8. ASSUME NEW k \in DOMAIN SentItems
        PROVE  /\ \A f \in FieldNames : ~CauseInField(m, f, SentItems[k].fields[f])
               /\ ~CauseInElement(m, SentItems[k].fields)
               /\ Truthy(SentItems[k].fields["main"]) => SentItems[k].fields["main"] = Bit(TRUE)
    <2>1. SentItems[k].fields \in [FieldNames -> Value]
      BY SentItemsRaw, RawList
    <2> QED
      BY <1>1, <1>4, <2>1, GoodElement
  <1>9. ~CauseInFiles(m)
    BY <1>1, <1>2, <1>6, <1>7, LimitAssumption DEF CauseInFiles
  <1>10. ~CauseInList(m)
    <2>1. \A k \in DOMAIN SentItems : SentItems[k].shape = "object"
      BY <1>4 DEF GoodItem
    <2> QED
      BY <1>3, <2>1 DEF CauseInList
  <1>11. ~CauseInPair(m)
    BY <1>5, <1>8 DEF CauseInPair
  <1> QED
    BY <1>8, <1>9, <1>10, <1>11 DEF CauseOf

\* A request that passes every validation is well-formed.
LEMMA PassedIsWellFormed ==
    ASSUME body \in Body, sent \in Seq(File), sent # None, files \in Seq(File),
           Len(files) = Len(sent), \A n \in DOMAIN files : files[n] = sent[n],
           \A n \in DOMAIN files : Allowed(files[n]) /\ ~files[n].large,
           Len(files) <= MaxImages,
           body.form \in {"absent", "null", "list"},
           GoodList(Dtos(SentItems)),
           \A k \in DOMAIN Dtos(SentItems) : FileFits(Dtos(SentItems)[k].fields["fileIdx"]),
           Joined(Dtos(SentItems)) # <<>>
    PROVE  WellFormed
  <1> DEFINE list == Dtos(SentItems)
  <1>1. Raw(SentItems) /\ Raw(list) /\ DOMAIN list = DOMAIN SentItems /\ Len(list) = Len(SentItems)
    BY SentItemsRaw, DtosKeep
  <1>2. DOMAIN files = 1..Len(files) /\ DOMAIN sent = 1..Len(sent) /\ Len(sent) \in Nat /\ SentCount = Len(sent)
    BY LenProperties, SentCountIs
  <1>3. \A k \in DOMAIN sent : sent[k].ext \in DeclaredTypes /\ ~sent[k].large
    BY <1>2, AllowedIs, DeclaredIs
  <1>4. Len(sent) + Len(SentItems) > 0
    <2> SUFFICES ASSUME ~(Len(sent) + Len(SentItems) > 0)
                 PROVE  FALSE
      OBVIOUS
    <2>1. Len(sent) = 0 /\ Len(list) = 0
      BY <1>1, <1>2, RawList
    <2>2. Unnamed(list) = {}
      BY <1>2, <2>1 DEF Unnamed
    <2>3. Cardinality(Unnamed(list)) = 0
      BY <2>2, FS_EmptySet
    <2>4. Joined(list) \in Seq(Item) /\ Len(Joined(list)) = 0 + 0
      BY <1>1, <2>1, <2>3, JoinedIs
    <2> HIDE DEF list
    <2> QED
      BY <2>4, EmptySeq DEF list
  <1>5. \A k \in DOMAIN SentItems :
            /\ list[k].shape = SentItems[k].shape
            /\ \A f \in {"name", "description", "main", "active", "delete", "imageId", "fileIdx"} :
                /\ SentItems[k].fields[f] \in Value
                /\ Nil(list[k].fields[f]) <=> Nil(SentItems[k].fields[f])
                /\ ~Nil(SentItems[k].fields[f]) => list[k].fields[f] = SentItems[k].fields[f]
                /\ f \notin {"imageId", "fileIdx"} => list[k].fields[f] = SentItems[k].fields[f]
    BY <1>1, DtosKeep, RawList DEF FieldNames
  <1>6. \A k \in DOMAIN SentItems : /\ list[k].shape = "object" /\ Fits(list[k].fields)
                                    /\ FileFits(list[k].fields["fileIdx"])
    BY <1>1 DEF GoodList
  <1>7. ~TwoMains(list) /\ ~Repeats(list, "imageId") /\ ~Repeats(list, "fileIdx")
    BY DEF GoodList
  <1> HIDE DEF list
  <1>8. ASSUME NEW k \in DOMAIN SentItems
        PROVE  GoodItem(SentItems[k])
    <2> DEFINE old == SentItems[k].fields
               new == list[k].fields
    <2>1. \A f \in {"name", "description", "main", "active", "delete", "imageId", "fileIdx"} :
                /\ old[f] \in Value
                /\ Nil(new[f]) <=> Nil(old[f])
                /\ ~Nil(old[f]) => new[f] = old[f]
                /\ f \notin {"imageId", "fileIdx"} => new[f] = old[f]
      BY <1>5
    <2>2. SentItems[k].shape = "object" /\ Fits(new) /\ FileFits(new["fileIdx"])
      BY <1>5, <1>6
    <2> HIDE DEF old, new
    <2>3. ASSUME NEW v \in Value, TextFits(v)
          PROVE  GoodText(v)
      <3>1. CASE Nil(v)
        BY <3>1, ValueKinds DEF GoodText
      <3>2. CASE ~Nil(v)
        <4>1. IsText(v) /\ ~(Length(v) > MaxText)
          BY <2>3, <3>2 DEF TextFits
        <4>2. Length(v) \in Nat /\ MaxText \in Nat
          BY <4>1, ValueKinds, LimitAssumption
        <4>3. v.type = "string" /\ Length(v) <= MaxText
          BY <4>1, <4>2 DEF IsText
        <4> QED
          BY <4>3 DEF GoodText
      <3> QED
        BY <3>1, <3>2
    <2>4. \A v \in Value : FlagFits(v) => GoodFlag(v)
      BY ValueKinds DEF FlagFits, GoodFlag
    <2>5. \A v \in Value : Nil(v) => v \in {Undefined, Null}
      BY ValueKinds
    <2>6. \A v : NamesImage(v) => ~Nil(v)
      BY DEF NamesImage, Nil
    <2>7. ASSUME NEW v \in Value, IndexFits(v), FileFits(v)
          PROVE  NamesFile(v) /\ ~Nil(v)
      <3>1. IsNum(v) /\ v.form = "int" /\ ~(v.n < 0) /\ ~Nil(v)
        BY <2>7 DEF IndexFits, IsNum, Nil
      <3>2. v.n \in Int /\ ~(v.n >= Len(files))
        BY <2>7, <3>1, ValueKinds DEF FileFits
      <3>3. v.n \in 0..(SentCount - 1)
        BY <1>2, <3>1, <3>2
      <3> QED
        BY <3>1, <3>3 DEF NamesFile, IsNum
    <2>8. GoodText(old["name"]) /\ GoodText(old["description"])
      BY <2>1, <2>2, <2>3 DEF Fits
    <2>9. GoodFlag(old["main"]) /\ GoodFlag(old["active"]) /\ GoodFlag(old["delete"])
      BY <2>1, <2>2, <2>4 DEF Fits
    <2>10. CASE NamesImage(new["imageId"]) /\ Nil(new["fileIdx"])
      <3>1. NamesImage(old["imageId"]) /\ old["fileIdx"] \in {Undefined, Null}
        BY <2>1, <2>5, <2>6, <2>10
      <3> QED
        BY <2>2, <2>8, <2>9, <3>1 DEF GoodItem, old
    <2>11. CASE Nil(new["imageId"]) /\ IndexFits(new["fileIdx"])
      <3>1. ~Nil(new["fileIdx"])
        BY <2>11 DEF IndexFits, IsNum, Nil
      <3>2. new["fileIdx"] = old["fileIdx"] /\ old["fileIdx"] \in Value
        BY <2>1, <3>1
      <3>3. NamesFile(old["fileIdx"]) /\ old["imageId"] \in {Undefined, Null}
        BY <2>1, <2>2, <2>5, <2>7, <2>11, <3>2
      <3> QED
        BY <2>2, <2>8, <2>9, <3>3 DEF GoodItem, old
    <2> QED
      BY <2>2, <2>10, <2>11 DEF Fits
  <1>9. ASSUME NEW j \in DOMAIN SentItems, NEW k \in DOMAIN SentItems, j # k
        PROVE  /\ SentItems[j].fields["main"] = Bit(TRUE) => SentItems[k].fields["main"] # Bit(TRUE)
               /\ \A f \in {"imageId", "fileIdx"} :
                    SentItems[j].fields[f] = SentItems[k].fields[f] => Nil(SentItems[j].fields[f])
    <2>1. SentItems[j].fields["main"] = Bit(TRUE) => SentItems[k].fields["main"] # Bit(TRUE)
      <3>1. /\ list[j].fields["main"] = SentItems[j].fields["main"]
            /\ list[k].fields["main"] = SentItems[k].fields["main"]
        BY <1>5
      <3>2. ~(Truthy(list[j].fields["main"]) /\ Truthy(list[k].fields["main"]))
        BY <1>1, <1>7, <1>9 DEF TwoMains
      <3> QED
        BY <3>1, <3>2, UndefinedFits
    <2>2. ASSUME NEW f \in {"imageId", "fileIdx"}, SentItems[j].fields[f] = SentItems[k].fields[f],
                 ~Nil(SentItems[j].fields[f])
          PROVE  FALSE
      <3>1. /\ list[j].fields[f] = SentItems[j].fields[f] /\ list[k].fields[f] = SentItems[k].fields[f]
            /\ j \in DOMAIN list /\ k \in DOMAIN list
        BY <1>1, <1>5, <2>2
      <3>2. Repeats(list, f)
        BY <1>9, <2>2, <3>1 DEF Repeats
      <3> QED
        BY <1>7, <3>2
    <2> QED
      BY <2>1, <2>2
  <1> QED
    BY <1>2, <1>3, <1>4, <1>8, <1>9 DEF WellFormed

(***************************************************************************)
(* The inductive invariant: what each stage has made of the request        *)
(***************************************************************************)
Uploaded == {"parse", "validate", "map", "check", "saved"}

\* The files taken are the first ones the client sends, and were let through.
FilesPassed ==
    /\ stage = "idle" \/ sent = None => files = <<>>
    /\ sent # None => Len(files) <= Len(sent) /\ \A n \in DOMAIN files : files[n] = sent[n]
    /\ stage \in Uploaded /\ sent # None => Len(files) = Len(sent)
    /\ \A n \in DOMAIN files : Allowed(files[n]) /\ ~files[n].large
    /\ Len(files) <= MaxImages

MetadataParsed ==
    stage = "validate" =>
        /\ body.form \in {"absent", "null", "list", "false"}
        /\ array = (body.form # "false")
        /\ metadata = SentItems

MetadataPassed ==
    stage \in {"map", "check", "saved"} =>
        /\ body.form \in {"absent", "null", "list"}
        /\ metadata = Dtos(SentItems)
        /\ GoodList(metadata)

ItemsJoined ==
    stage \in {"check", "saved"} =>
        /\ sent # None
        /\ \A k \in DOMAIN metadata : FileFits(metadata[k].fields["fileIdx"])
        /\ items = Joined(metadata)

ItemsPassed == stage = "saved" => items # <<>>

RefusalCaused == stage = "refused" => CauseOf(answer) \/ WebpRefused(answer)

PayloadInv ==
    /\ TypeOK
    /\ FilesPassed
    /\ MetadataParsed
    /\ MetadataPassed
    /\ ItemsJoined
    /\ ItemsPassed
    /\ RefusalCaused

LEMMA NoRequestInv ==
    ASSUME stage' = "idle", sent' = None, body' = [form |-> "absent", items |-> <<>>],
           files' = <<>>, array' = TRUE, metadata' = <<>>, items' = <<>>, answer' = NoMessage
    PROVE  PayloadInv'
  <1>1. <<>> \in Seq(File) /\ <<>> \in Seq(RawItem) /\ <<>> \in Seq(Item)
    OBVIOUS
  <1>2. body' \in Body
    BY <1>1 DEF Body, BodyForms
  <1>3. Len(NoMessage) = 0
    BY DEF NoMessage
  <1>4. TypeOK'
    BY <1>1, <1>2, <1>3 DEF TypeOK, Stages
  <1>5. FilesPassed'
    <2>1. Len(<<>>) = 0 /\ DOMAIN <<>> = {}
      OBVIOUS
    <2> QED
      BY <2>1, LimitAssumption DEF FilesPassed, Uploaded
  <1>6. MetadataParsed' /\ MetadataPassed' /\ ItemsJoined' /\ ItemsPassed' /\ RefusalCaused'
    BY DEF MetadataParsed, MetadataPassed, ItemsJoined, ItemsPassed, RefusalCaused
  <1> QED
    BY <1>4, <1>5, <1>6 DEF PayloadInv

LEMMA InitPayloadInv == Init => PayloadInv
  <1> SUFFICES ASSUME Init
               PROVE  PayloadInv
    OBVIOUS
  <1>1. <<>> \in Seq(File) /\ <<>> \in Seq(RawItem) /\ <<>> \in Seq(Item)
    OBVIOUS
  <1>2. body \in Body
    BY <1>1 DEF Init, Body, BodyForms
  <1>3. Len(NoMessage) = 0
    BY DEF NoMessage
  <1>4. TypeOK
    BY <1>1, <1>2, <1>3 DEF Init, TypeOK, Stages
  <1>5. FilesPassed
    <2>1. Len(<<>>) = 0 /\ DOMAIN <<>> = {}
      OBVIOUS
    <2> QED
      BY <2>1, LimitAssumption DEF Init, FilesPassed, Uploaded
  <1>6. MetadataParsed /\ MetadataPassed /\ ItemsJoined /\ ItemsPassed /\ RefusalCaused
    BY DEF Init, MetadataParsed, MetadataPassed, ItemsJoined, ItemsPassed, RefusalCaused
  <1> QED
    BY <1>4, <1>5, <1>6 DEF PayloadInv

LEMMA RefuseInv ==
    ASSUME PayloadInv, NEW m, CauseOf(m) \/ WebpRefused(m), Refuse(m)
    PROVE  PayloadInv'
  <1>1. /\ stage' = "refused" /\ answer' = m
        /\ UNCHANGED <<sent, body, files, array, metadata, items>>
    BY DEF Refuse
  <1>2. CauseOf(answer)' \/ WebpRefused(answer)'
    <2>7. WebpRefused(answer)' <=> WebpRefused(m)
      BY <1>1 DEF WebpRefused
    <2>1. SentItems' = SentItems /\ SentCount' = SentCount
      BY <1>1 DEF SentItems, SentCount
    <2>2. CauseInFiles(answer)' <=> CauseInFiles(m)
      BY <1>1, <2>1 DEF CauseInFiles
    <2>3. CauseInList(answer)' <=> CauseInList(m)
      BY <1>1, <2>1 DEF CauseInList
    <2>4. CauseInPair(answer)' <=> CauseInPair(m)
      BY <1>1, <2>1 DEF CauseInPair
    <2>5. \A f, v : CauseInField(answer, f, v)' <=> CauseInField(m, f, v)
      BY <1>1, <2>1 DEF CauseInField
    <2>6. \A i : CauseInElement(answer, i)' <=> CauseInElement(m, i)
      BY <1>1 DEF CauseInElement
    <2> QED
      BY <2>1, <2>2, <2>3, <2>4, <2>5, <2>6, <2>7 DEF CauseOf
  <1>3. Len(m) = 2 /\ m # NoMessage
    <2>1. PICK a, b : m = <<a, b>>
      BY CauseIsMessage
    <2> QED
      BY <2>1, SomeMessage
  <1>4. TypeOK'
    BY <1>1, <1>3 DEF PayloadInv, TypeOK, Stages
  <1>5. FilesPassed'
    BY <1>1 DEF PayloadInv, FilesPassed, Uploaded
  <1>6. MetadataParsed' /\ MetadataPassed' /\ ItemsJoined' /\ ItemsPassed' /\ RefusalCaused'
    BY <1>1, <1>2 DEF MetadataParsed, MetadataPassed, ItemsJoined, ItemsPassed, RefusalCaused
  <1> QED
    BY <1>4, <1>5, <1>6 DEF PayloadInv

LEMMA ArriveInv ==
    ASSUME PayloadInv, Arrive
    PROVE  PayloadInv'
  <1>1. /\ stage = "idle" /\ stage' = "upload" /\ sent' \in FileLists /\ body' \in Bodies
        /\ UNCHANGED <<files, array, metadata, items, answer>>
    BY DEF Arrive
  <1>2. sent' \in Seq(File) \cup {None} /\ body' \in Body
    BY <1>1, InputAssumption
  <1>3. TypeOK'
    BY <1>1, <1>2 DEF PayloadInv, TypeOK, Stages
  <1>4. files = <<>> /\ Len(<<>>) = 0 /\ DOMAIN <<>> = {}
    BY <1>1 DEF PayloadInv, FilesPassed
  <1>5. sent' # None => Len(sent') \in Nat
    BY <1>2, LenProperties
  <1>6. FilesPassed'
    BY <1>1, <1>4, <1>5, LimitAssumption DEF FilesPassed, Uploaded
  <1>7. MetadataParsed' /\ MetadataPassed' /\ ItemsJoined' /\ ItemsPassed' /\ RefusalCaused'
    BY <1>1 DEF MetadataParsed, MetadataPassed, ItemsJoined, ItemsPassed, RefusalCaused
  <1> QED
    BY <1>3, <1>6, <1>7 DEF PayloadInv

LEMMA FileMessageIs ==
    ASSUME NEW file
    PROVE  FileMessage(file) = IF ~Allowed(file) THEN <<"images", "INVALID_FORMAT">>
                               ELSE IF Len(files) + 1 > MaxImages THEN <<"images", "TOO_MANY">>
                               ELSE IF file.large THEN <<"images", "TOO_LARGE">>
                               ELSE NoMessage
  BY First3, SomeMessage DEF FileMessage, When

LEMMA TakeFileInv ==
    ASSUME PayloadInv, TakeFile
    PROVE  PayloadInv'
  <1> DEFINE n == Len(files) + 1
             file == sent[n]
  <1>1. stage = "upload" /\ sent # None /\ Len(files) < Len(sent)
    BY DEF TakeFile
  <1>2. sent \in Seq(File) /\ files \in Seq(File)
    BY <1>1 DEF PayloadInv, TypeOK
  <1>3. /\ Len(files) \in Nat /\ Len(sent) \in Nat /\ DOMAIN sent = 1..Len(sent)
        /\ SentCount = Len(sent) /\ DOMAIN files = 1..Len(files)
    BY <1>1, <1>2, SentCountIs, LenProperties
  <1>4. n \in DOMAIN sent /\ file \in File
    BY <1>1, <1>2, <1>3, ElementOfSeq
  <1>5. ASSUME FileMessage(file) # NoMessage, Refuse(FileMessage(file))
        PROVE  PayloadInv'
    <2>1. CASE ~Allowed(file)
      <3>1. file.ext \notin DeclaredTypes \/ file.ext = ".webp"
        BY <2>1, AllowedIs, DeclaredIs
      <3>2. FileMessage(file) = <<"images", "INVALID_FORMAT">>
        BY <2>1, FileMessageIs
      <3>3. CauseInFiles(FileMessage(file)) \/ WebpRefused(FileMessage(file))
        BY <1>1, <1>4, <3>1, <3>2 DEF CauseInFiles, WebpRefused
      <3> QED
        BY <1>5, <3>3, RefuseInv DEF CauseOf
    <2>2. CASE Allowed(file) /\ n > MaxImages
      <3>1. FileMessage(file) = <<"images", "TOO_MANY">>
        BY <2>2, FileMessageIs
      <3>2. SentCount > MaxImages
        BY <1>1, <1>3, <2>2, LimitAssumption
      <3>3. CauseInFiles(FileMessage(file))
        BY <3>1, <3>2 DEF CauseInFiles
      <3> QED
        BY <1>5, <3>3, RefuseInv DEF CauseOf
    <2>3. CASE Allowed(file) /\ ~(n > MaxImages)
      <3>1. FileMessage(file) = <<"images", "TOO_LARGE">> /\ file.large
        BY <1>5, <2>3, FileMessageIs
      <3>2. CauseInFiles(FileMessage(file))
        BY <1>1, <1>4, <3>1 DEF CauseInFiles
      <3> QED
        BY <1>5, <3>2, RefuseInv DEF CauseOf
    <2> QED
      BY <2>1, <2>2, <2>3
  <1>6. ASSUME FileMessage(file) = NoMessage, files' = Append(files, file),
               UNCHANGED <<stage, sent, body, array, metadata, items, answer>>
        PROVE  PayloadInv'
    <2>1. Allowed(file) /\ ~(n > MaxImages) /\ ~file.large
      BY <1>6, FileMessageIs, SomeMessage
    <2>2. /\ files' \in Seq(File) /\ Len(files') = n
          /\ \A k \in 1..Len(files) : files'[k] = files[k]
          /\ files'[n] = file
      BY <1>2, <1>4, <1>6, AppendProperties
    <2>3. DOMAIN files' = 1..n
      BY <2>2, LenProperties
    <2>4. TypeOK'
      BY <1>6, <2>2 DEF PayloadInv, TypeOK
    <2>5. \A k \in 1..n : k = n \/ k \in 1..Len(files)
      BY <1>3
    <2>6. \A k \in DOMAIN files' : Allowed(files'[k]) /\ ~files'[k].large
      BY <1>3, <2>1, <2>2, <2>3, <2>5 DEF PayloadInv, FilesPassed
    <2>7. \A k \in DOMAIN files' : files'[k] = sent[k]
      BY <1>1, <1>3, <2>2, <2>3, <2>5 DEF PayloadInv, FilesPassed
    <2>8. Len(files') <= MaxImages /\ Len(files') <= Len(sent)
      BY <1>1, <1>3, <2>1, <2>2, LimitAssumption
    <2>9. FilesPassed'
      BY <1>1, <1>6, <2>6, <2>7, <2>8 DEF FilesPassed, Uploaded, Allowed
    <2>10. MetadataParsed' /\ MetadataPassed' /\ ItemsJoined' /\ ItemsPassed' /\ RefusalCaused'
      BY <1>1, <1>6 DEF MetadataParsed, MetadataPassed, ItemsJoined, ItemsPassed, RefusalCaused
    <2> QED
      BY <2>4, <2>9, <2>10 DEF PayloadInv
  <1> QED
    BY <1>5, <1>6 DEF TakeFile

LEMMA UploadEndsInv ==
    ASSUME PayloadInv, UploadEnds
    PROVE  PayloadInv'
  <1>1. /\ stage = "upload" /\ (sent # None => Len(files) = Len(sent)) /\ stage' = "parse"
        /\ UNCHANGED <<sent, body, files, array, metadata, items, answer>>
    BY DEF UploadEnds
  <1>2. TypeOK'
    BY <1>1 DEF PayloadInv, TypeOK, Stages
  <1>3. FilesPassed'
    BY <1>1 DEF PayloadInv, FilesPassed
  <1>4. MetadataParsed' /\ MetadataPassed' /\ ItemsJoined' /\ ItemsPassed' /\ RefusalCaused'
    BY <1>1 DEF MetadataParsed, MetadataPassed, ItemsJoined, ItemsPassed, RefusalCaused
  <1> QED
    BY <1>2, <1>3, <1>4 DEF PayloadInv

LEMMA ParseMetadataInv ==
    ASSUME PayloadInv, ParseMetadata
    PROVE  PayloadInv'
  <1>1. ParseMessage = IF body.form \in {"notText", "notJson"} THEN <<"metadata", "INVALID_JSON">>
                       ELSE IF body.form = "noList" THEN <<"metadata", "METADATA_ARRAY_INVALID">>
                       ELSE NoMessage
    BY First2, SomeMessage DEF ParseMessage, When
  <1>2. stage = "parse" /\ body \in Body
    BY DEF PayloadInv, TypeOK, ParseMetadata
  <1>3. CASE ParseMessage # NoMessage /\ Refuse(ParseMessage)
    <2>1. CauseInList(ParseMessage)
      BY <1>1, <1>3 DEF CauseInList
    <2> QED
      BY <1>3, <2>1, RefuseInv DEF CauseOf
  <1>4. CASE /\ ParseMessage = NoMessage /\ stage' = "validate"
             /\ array' = (body.form # "false")
             /\ metadata' = IF body.form = "list" THEN body.items ELSE <<>>
             /\ UNCHANGED <<sent, body, files, items, answer>>
    <2>1. body.form \in {"absent", "null", "list", "false"}
      <3>1. body.form \in BodyForms
        BY <1>2 DEF Body
      <3> QED
        BY <1>1, <1>4, <3>1, SomeMessage DEF BodyForms
    <2>2. metadata' = SentItems /\ SentItems' = SentItems
      BY <1>4 DEF SentItems
    <2>3. SentItems \in Seq(RawItem)
      BY <1>2, SentItemsRaw DEF Raw
    <2>4. TypeOK'
      BY <1>2, <1>4, <2>2, <2>3 DEF PayloadInv, TypeOK, Stages
    <2>5. FilesPassed'
      BY <1>2, <1>4 DEF PayloadInv, FilesPassed, Uploaded
    <2>6. MetadataParsed'
      BY <1>4, <2>1, <2>2 DEF MetadataParsed
    <2>7. MetadataPassed' /\ ItemsJoined' /\ ItemsPassed' /\ RefusalCaused'
      BY <1>4 DEF MetadataPassed, ItemsJoined, ItemsPassed, RefusalCaused
    <2> QED
      BY <2>4, <2>5, <2>6, <2>7 DEF PayloadInv
  <1> QED
    BY <1>3, <1>4 DEF ParseMetadata

LEMMA ValidateMetadataInv ==
    ASSUME PayloadInv, ValidateMetadata
    PROVE  PayloadInv'
  <1> DEFINE dtos == Dtos(metadata)
             message == PipeMessage(array, dtos)
  <1>1. stage = "validate" /\ array \in BOOLEAN /\ body \in Body
    BY DEF PayloadInv, TypeOK, ValidateMetadata
  <1>2. /\ body.form \in {"absent", "null", "list", "false"}
        /\ array = (body.form # "false") /\ metadata = SentItems
    BY <1>1 DEF PayloadInv, MetadataParsed
  <1>3. Raw(SentItems) /\ Raw(dtos) /\ dtos = Dtos(SentItems)
    BY <1>1, <1>2, SentItemsRaw, DtosKeep
  <1>4. ASSUME message # NoMessage, Refuse(message)
        PROVE  PayloadInv'
    <2>1. CauseOf(message)
      BY <1>1, <1>2, <1>3, <1>4, PipeRefuses
    <2> QED
      BY <1>4, <2>1, RefuseInv
  <1>5. ASSUME message = NoMessage, stage' = "map", metadata' = dtos,
               UNCHANGED <<sent, body, files, array, items, answer>>
        PROVE  PayloadInv'
    <2>1. array /\ GoodList(dtos)
      BY <1>1, <1>3, <1>5, PipeAccepts
    <2>2. TypeOK'
      BY <1>1, <1>3, <1>5 DEF PayloadInv, TypeOK, Stages, Raw
    <2>3. FilesPassed'
      BY <1>1, <1>5 DEF PayloadInv, FilesPassed, Uploaded
    <2>4. SentItems' = SentItems
      BY <1>5 DEF SentItems
    <2> HIDE DEF dtos
    <2>5. GoodList(metadata')
      BY <1>5, <2>1
    <2>6. GoodList(metadata)'
      BY <2>5 DEF GoodList, TwoMains, Repeats
    <2>7. Dtos(SentItems)' = Dtos(SentItems)
      BY <2>4 DEF Dtos
    <2>8. MetadataPassed'
      BY <1>2, <1>3, <1>5, <2>1, <2>6, <2>7 DEF MetadataPassed
    <2>9. MetadataParsed' /\ ItemsJoined' /\ ItemsPassed' /\ RefusalCaused'
      BY <1>5 DEF MetadataParsed, ItemsJoined, ItemsPassed, RefusalCaused
    <2> QED
      BY <2>2, <2>3, <2>8, <2>9 DEF PayloadInv
  <1> QED
    BY <1>4, <1>5 DEF ValidateMetadata

LEMMA MapItemsInv ==
    ASSUME PayloadInv, MapItems
    PROVE  PayloadInv'
  <1> DEFINE message == MapMessage(metadata)
  <1>1. stage = "map" /\ body \in Body /\ files \in Seq(File)
    BY DEF PayloadInv, TypeOK, MapItems
  <1>2. /\ body.form \in {"absent", "null", "list"}
        /\ metadata = Dtos(SentItems) /\ GoodList(metadata)
    BY <1>1 DEF PayloadInv, MetadataPassed
  <1>3. Raw(SentItems) /\ Raw(metadata)
    BY <1>1, <1>2, SentItemsRaw, DtosKeep
  <1>4. sent # None => Len(files) = Len(sent)
    BY <1>1 DEF PayloadInv, FilesPassed, Uploaded
  <1>5. ASSUME message # NoMessage, Refuse(message)
        PROVE  PayloadInv'
    <2>1. CauseOf(message)
      BY <1>2, <1>3, <1>4, <1>5, MapRefuses
    <2> QED
      BY <1>5, <2>1, RefuseInv
  <1>6. ASSUME message = NoMessage, stage' = "check", items' = Joined(metadata),
               UNCHANGED <<sent, body, files, array, metadata, answer>>
        PROVE  PayloadInv'
    <2>1. sent # None /\ \A k \in DOMAIN metadata : FileFits(metadata[k].fields["fileIdx"])
      BY <1>3, <1>6, MapMessageIs, SomeMessage
    <2>2. Joined(metadata) \in Seq(Item)
      BY <1>1, <1>3, <2>1, JoinedIs
    <2>3. TypeOK'
      BY <1>1, <1>6, <2>2 DEF PayloadInv, TypeOK, Stages
    <2>4. FilesPassed'
      BY <1>1, <1>6 DEF PayloadInv, FilesPassed, Uploaded
    <2>5. /\ Dtos(SentItems)' = Dtos(SentItems) /\ (GoodList(metadata)' <=> GoodList(metadata))
          /\ Joined(metadata)' = Joined(metadata)
          /\ \A v : FileFits(v)' <=> FileFits(v)
      <3>1. SentItems' = SentItems
        BY <1>6 DEF SentItems
      <3>2. Dtos(SentItems)' = Dtos(SentItems)
        BY <3>1 DEF Dtos
      <3>3. GoodList(metadata)' <=> GoodList(metadata)
        BY <1>6 DEF GoodList, TwoMains, Repeats
      <3>4. Joined(metadata)' = Joined(metadata)
        BY <1>6 DEF Joined, Leftovers, Named
      <3>5. \A v : FileFits(v)' <=> FileFits(v)
        BY <1>6 DEF FileFits
      <3> QED
        BY <3>2, <3>3, <3>4, <3>5
    <2>6. MetadataPassed'
      BY <1>2, <1>6, <2>5 DEF MetadataPassed
    <2>7. ItemsJoined'
      BY <1>6, <2>1, <2>5 DEF ItemsJoined
    <2>8. MetadataParsed' /\ ItemsPassed' /\ RefusalCaused'
      BY <1>6 DEF MetadataParsed, ItemsPassed, RefusalCaused
    <2> QED
      BY <2>3, <2>4, <2>6, <2>7, <2>8 DEF PayloadInv
  <1> QED
    BY <1>5, <1>6 DEF MapItems

\* What bulkSave is given, once the items are made.
LEMMA ItemsMade ==
    ASSUME PayloadInv, stage \in {"check", "saved"}
    PROVE  /\ Raw(SentItems) /\ Raw(metadata) /\ metadata = Dtos(SentItems) /\ GoodList(metadata)
           /\ files \in Seq(File) /\ sent \in Seq(File) /\ sent # None /\ Len(files) = Len(sent)
           /\ \A k \in DOMAIN metadata : FileFits(metadata[k].fields["fileIdx"])
           /\ items = Joined(metadata)
           /\ CheckMessage(items) = IF items = <<>> THEN <<"images", "IMAGE_LIST_EMPTY">> ELSE NoMessage
  <1>1. body \in Body /\ files \in Seq(File) /\ sent \in Seq(File) \cup {None}
    BY DEF PayloadInv, TypeOK
  <1>2. metadata = Dtos(SentItems) /\ GoodList(metadata)
    BY DEF PayloadInv, MetadataPassed
  <1>3. Raw(SentItems) /\ Raw(metadata)
    BY <1>1, <1>2, SentItemsRaw, DtosKeep
  <1>4. /\ sent # None /\ items = Joined(metadata)
        /\ \A k \in DOMAIN metadata : FileFits(metadata[k].fields["fileIdx"])
    BY DEF PayloadInv, ItemsJoined
  <1>5. Len(files) = Len(sent)
    BY <1>4 DEF PayloadInv, FilesPassed, Uploaded
  <1>6. CheckMessage(Joined(metadata)) = IF Joined(metadata) = <<>> THEN <<"images", "IMAGE_LIST_EMPTY">> ELSE NoMessage
    BY <1>1, <1>2, <1>3, <1>4, CheckPasses
  <1> QED
    BY <1>1, <1>2, <1>3, <1>4, <1>5, <1>6

LEMMA CheckItemsInv ==
    ASSUME PayloadInv, CheckItems
    PROVE  PayloadInv'
  <1>1. stage = "check"
    BY DEF CheckItems
  <1>2. /\ Raw(SentItems) /\ Raw(metadata) /\ metadata = Dtos(SentItems)
        /\ files \in Seq(File) /\ sent # None /\ Len(files) = Len(sent)
        /\ \A k \in DOMAIN metadata : FileFits(metadata[k].fields["fileIdx"])
        /\ items = Joined(metadata)
        /\ CheckMessage(items) = IF items = <<>> THEN <<"images", "IMAGE_LIST_EMPTY">> ELSE NoMessage
    BY <1>1, ItemsMade
  <1>3. ASSUME CheckMessage(items) # NoMessage, Refuse(CheckMessage(items))
        PROVE  PayloadInv'
    <2>1. items = <<>> /\ CheckMessage(items) = <<"images", "IMAGE_LIST_EMPTY">>
      BY <1>2, <1>3
    <2>2. Len(items) = 0
      BY <2>1
    <2>3. /\ Len(metadata) \in Nat /\ Cardinality(Unnamed(metadata)) \in Nat
          /\ Len(items) = Len(metadata) + Cardinality(Unnamed(metadata))
          /\ IsFiniteSet(Unnamed(metadata))
      BY <1>2, JoinedIs, RawList
    <2>4. Len(metadata) = 0 /\ Unnamed(metadata) = {}
      BY <2>2, <2>3, FS_EmptySet
    <2>5. SentItems = <<>>
      <3>1. Len(SentItems) = 0
        BY <1>2, <2>4, DtosKeep
      <3> QED
        BY <1>2, <3>1, EmptySeq DEF Raw
    <2>6. DOMAIN files = {}
      <3>1. DOMAIN metadata = 1..0
        BY <1>2, <2>4, RawList
      <3>2. Named(metadata) = {}
        BY <3>1 DEF Named
      <3> QED
        BY <2>4, <3>2 DEF Unnamed
    <2>7. Len(files) = 0
      <3>1. DOMAIN files = 1..Len(files) /\ Len(files) \in Nat
        BY <1>2, LenProperties
      <3>2. Len(files) > 0 => 1 \in DOMAIN files
        BY <3>1
      <3> QED
        BY <2>6, <3>1, <3>2
    <2>8. SentCount = 0
      BY <1>2, <2>7 DEF SentCount
    <2>9. CauseInFiles(CheckMessage(items))
      BY <2>1, <2>5, <2>8 DEF CauseInFiles
    <2> QED
      BY <1>3, <2>9, RefuseInv DEF CauseOf
  <1>4. ASSUME CheckMessage(items) = NoMessage, stage' = "saved",
               UNCHANGED <<sent, body, files, array, metadata, items, answer>>
        PROVE  PayloadInv'
    <2>1. items # <<>>
      BY <1>2, <1>4, SomeMessage
    <2>2. TypeOK'
      BY <1>1, <1>4 DEF PayloadInv, TypeOK, Stages
    <2>3. FilesPassed'
      BY <1>1, <1>4 DEF PayloadInv, FilesPassed, Uploaded
    <2>4. /\ SentItems' = SentItems
      BY <1>4 DEF SentItems
    <2>5. Dtos(SentItems)' = Dtos(SentItems)
      BY <2>4 DEF Dtos
    <2>6. GoodList(metadata)' <=> GoodList(metadata)
      BY <1>4 DEF GoodList, TwoMains, Repeats
    <2>7. MetadataPassed'
      BY <1>1, <1>4, <2>5, <2>6 DEF PayloadInv, MetadataPassed
    <2>8. ItemsJoined'
      <3>1. Joined(metadata)' = Joined(metadata)
        BY <1>4 DEF Joined, Leftovers, Named
      <3>2. \A v : FileFits(v)' <=> FileFits(v)
        BY <1>4 DEF FileFits
      <3> QED
        BY <1>2, <1>4, <3>1, <3>2 DEF ItemsJoined
    <2>9. MetadataParsed' /\ ItemsPassed' /\ RefusalCaused'
      BY <1>4, <2>1 DEF MetadataParsed, ItemsPassed, RefusalCaused
    <2> QED
      BY <2>2, <2>3, <2>7, <2>8, <2>9 DEF PayloadInv
  <1> QED
    BY <1>3, <1>4 DEF CheckItems

LEMMA StutterInv ==
    ASSUME PayloadInv, UNCHANGED vars
    PROVE  PayloadInv'
  <1>1. UNCHANGED <<stage, sent, body, files, array, metadata, items, answer>>
    BY DEF vars
  <1>2. SentItems' = SentItems /\ SentCount' = SentCount
    BY <1>1 DEF SentItems, SentCount
  <1>3. TypeOK' /\ FilesPassed' /\ ItemsPassed'
    BY <1>1 DEF PayloadInv, TypeOK, FilesPassed, ItemsPassed
  <1>4. Dtos(SentItems)' = Dtos(SentItems)
    BY <1>2 DEF Dtos
  <1>5. GoodList(metadata)' <=> GoodList(metadata)
    BY <1>1 DEF GoodList, TwoMains, Repeats
  <1>6. MetadataParsed' /\ MetadataPassed'
    BY <1>1, <1>2, <1>4, <1>5 DEF PayloadInv, MetadataParsed, MetadataPassed
  <1>7. ItemsJoined'
    <2>1. Joined(metadata)' = Joined(metadata)
      BY <1>1 DEF Joined, Leftovers, Named
    <2>2. \A v : FileFits(v)' <=> FileFits(v)
      BY <1>1 DEF FileFits
    <2> QED
      BY <1>1, <2>1, <2>2 DEF PayloadInv, ItemsJoined
  <1>8. RefusalCaused'
    <2>1. (CauseOf(answer)' <=> CauseOf(answer)) /\ (WebpRefused(answer)' <=> WebpRefused(answer))
      BY <1>1, <1>2
      DEF CauseOf, CauseInFiles, CauseInList, CauseInPair, CauseInField, CauseInElement, WebpRefused
    <2> QED
      BY <1>1, <2>1 DEF PayloadInv, RefusalCaused
  <1> QED
    BY <1>3, <1>6, <1>7, <1>8 DEF PayloadInv

LEMMA NextPayloadInv == PayloadInv /\ [Next]_vars => PayloadInv'
  <1> SUFFICES ASSUME PayloadInv, [Next]_vars
               PROVE  PayloadInv'
    OBVIOUS
  <1>1. CASE Leave
    BY <1>1, NoRequestInv DEF Leave
  <1> QED
    BY <1>1, ArriveInv, TakeFileInv, UploadEndsInv, ParseMetadataInv, ValidateMetadataInv,
       MapItemsInv, CheckItemsInv, StutterInv DEF Next

(***************************************************************************)
(* Theorems                                                                *)
(***************************************************************************)

\* Whatever a client sends and whatever the limits are, each stage holds what
\* the stages before it made of the request (getImageFilesInterceptor, the
\* parser, the pipe, imageDataMapper and validateImageData in turn).
THEOREM PayloadInvariant == Spec => []PayloadInv
  BY InitPayloadInv, NextPayloadInv, PTL DEF Spec

\* Every variable keeps its type.
THEOREM TypeCorrect == Spec => []TypeOK
  <1>1. PayloadInv => TypeOK
    BY DEF PayloadInv
  <1> QED
    BY <1>1, PayloadInvariant, PTL

\* imageDataMapper puts every file in exactly one item: the one that names it,
\* or one of its own after those.
THEOREM EveryFileIsInOneItem == Spec => []EveryFileOnce
  <1>1. PayloadInv => EveryFileOnce
    <2> SUFFICES ASSUME PayloadInv, stage \in {"check", "saved"}
                 PROVE  /\ \A n \in DOMAIN files : \E k \in DOMAIN items :
                             /\ items[k].file = n
                             /\ \A j \in DOMAIN items : items[j].file = n => j = k
                        /\ Len(metadata) <= Len(items)
                        /\ \A k \in DOMAIN items :
                             IF k <= Len(metadata)
                             THEN /\ items[k].fields = metadata[k].fields
                                  /\ ~Nil(items[k].fields["fileIdx"]) =>
                                        items[k].file = items[k].fields["fileIdx"].n + 1
                             ELSE /\ items[k].fields = NoFields
                                  /\ k > Len(metadata) + 1 => items[k - 1].file < items[k].file
      BY DEF EveryFileOnce
    <2>1. /\ Raw(metadata) /\ GoodList(metadata) /\ files \in Seq(File)
          /\ \A k \in DOMAIN metadata : FileFits(metadata[k].fields["fileIdx"])
          /\ items = Joined(metadata)
      BY ItemsMade
    <2>2. \A n \in DOMAIN files : \E k \in DOMAIN Joined(metadata) :
             /\ Joined(metadata)[k].file = n
             /\ \A j \in DOMAIN Joined(metadata) : Joined(metadata)[j].file = n => j = k
      BY <2>1, FilesInOneItem
    <2>3. /\ Len(metadata) <= Len(Joined(metadata))
          /\ \A k \in DOMAIN Joined(metadata) :
                IF k <= Len(metadata)
                THEN /\ Joined(metadata)[k].fields = metadata[k].fields
                     /\ ~Nil(Joined(metadata)[k].fields["fileIdx"]) =>
                          Joined(metadata)[k].file = Joined(metadata)[k].fields["fileIdx"].n + 1
                ELSE /\ Joined(metadata)[k].fields = NoFields
                     /\ k > Len(metadata) + 1 => Joined(metadata)[k - 1].file < Joined(metadata)[k].file
      BY <2>1, ItemsInOrder
    <2> QED
      BY <2>1, <2>2, <2>3
  <1> QED
    BY <1>1, PayloadInvariant, PTL

\* validateImageData refuses nothing that the decorators and imageDataMapper
\* let through but a request with nothing in it.
THEOREM SecondValidationPasses == Spec => []ValidatedTwice
  <1>1. PayloadInv => ValidatedTwice
    BY ItemsMade DEF ValidatedTwice
  <1> QED
    BY <1>1, PayloadInvariant, PTL

\* A request that is refused has the defect its message names, though validate
\* and defaultMessage of every decorator are written separately; or it has a
\* .webp file, and is told that .webp is expected.
THEOREM RefusalsAreCaused == Spec => []RefusedForACause
  <1>1. PayloadInv => RefusedForACause
    BY DEF PayloadInv, RefusalCaused, RefusedForACause
  <1> QED
    BY <1>1, PayloadInvariant, PTL

\* Through the five validations, only requests that are well-formed as a whole are
\* accepted, and all of them are but those with a .webp file.
THEOREM WellFormedIsAccepted == Spec => []OnlyWebpIsMisjudged
  <1>1. PayloadInv => OnlyWebpIsMisjudged
    <2> SUFFICES ASSUME PayloadInv
                 PROVE  /\ stage = "saved" => WellFormed
                        /\ stage = "refused" /\ WellFormed => WebpRefused(answer)
      BY DEF OnlyWebpIsMisjudged
    <2>1. body \in Body /\ sent \in Seq(File) \cup {None}
      BY DEF PayloadInv, TypeOK
    <2>2. ASSUME stage = "saved"
          PROVE  WellFormed
      <3>1. /\ metadata = Dtos(SentItems) /\ GoodList(metadata)
            /\ files \in Seq(File) /\ sent \in Seq(File) /\ sent # None /\ Len(files) = Len(sent)
            /\ \A k \in DOMAIN metadata : FileFits(metadata[k].fields["fileIdx"])
            /\ items = Joined(metadata)
        BY <2>2, ItemsMade
      <3>2. /\ \A n \in DOMAIN files : files[n] = sent[n]
            /\ \A n \in DOMAIN files : Allowed(files[n]) /\ ~files[n].large
            /\ Len(files) <= MaxImages
        BY <3>1 DEF PayloadInv, FilesPassed
      <3>3. items # <<>> /\ body.form \in {"absent", "null", "list"}
        BY <2>2 DEF PayloadInv, ItemsPassed, MetadataPassed
      <3> QED
        BY <2>1, <3>1, <3>2, <3>3, PassedIsWellFormed
    <2>3. ASSUME stage = "refused", WellFormed
          PROVE  WebpRefused(answer)
      BY <2>1, <2>3, CauseIsDefect DEF PayloadInv, RefusalCaused
    <2> QED
      BY <2>2, <2>3
  <1> QED
    BY <1>1, PayloadInvariant, PTL
=============================================================================
