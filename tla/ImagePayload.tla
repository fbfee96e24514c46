----------------------------- MODULE ImagePayload -----------------------------
(***************************************************************************)
(* What a request to save images of a product goes through before bulkSave *)
(* does anything: multer takes the files, the interceptor parses the       *)
(* metadata, the pipe validates it, imageDataMapper joins the two into a   *)
(* list of items, and bulkSave validates that list once more.              *)
(*                                                                         *)
(* Abstracted: the bytes of files; MIME types, which nothing looks at; the *)
(* product id, which a pipe of its own checks; objects and arrays as       *)
(* fields, refused like other wrong types.  fileIdx counts from 0, as in   *)
(* the code; file k is the k-th, from 1.                                   *)
(***************************************************************************)
EXTENDS Validators, FiniteSets

CONSTANTS
    MaxImages,  \* ProductImageConfigs.MAX_IMAGE_COUNT
    MaxText,    \* NAME_MAX_LENGTH and DESCRIPTION_MAX_LENGTH
    FileLists,  \* the files clients send, lists of File
    Bodies      \* the metadata they send, of type Body

FieldNames == {"name", "description", "main", "active", "delete", "imageId", "fileIdx"}

\* The types that are declared allowed, and that the message of the file filter
\* is made from.
Declared == <<".jpeg", ".jpg", ".png", ".gif", ".webp">>

\* listDisjunctionStr takes the last one off the list that it words.
AllowedTypes == SubSeq(Declared, 1, Len(Declared) - 1)

File == [ext: STRING, large: BOOLEAN]

Allowed(file) == \E k \in DOMAIN AllowedTypes : AllowedTypes[k] = file.ext

\* An element of the metadata list; only objects have fields.
RawItem == [shape: {"null", "scalar", "array", "object"}, fields: [FieldNames -> Value]]

\* The body's metadata: none, something that is no text or not JSON, or the
\* JSON value null, false (or 0 or ""), another one that is no list, or a list.
BodyForms == {"absent", "notText", "notJson", "null", "false", "noList", "list"}
Body == [form: BodyForms, items: Seq(RawItem)]

\* An item that bulkSave is given.
Item == [fields: [FieldNames -> Value], file: Nat]
NoFile == 0

ASSUME NoneAssumption == None \notin Nat /\ None \notin Seq(File)
ASSUME LimitAssumption == MaxImages \in Nat /\ MaxText \in Nat
ASSUME InputAssumption == FileLists \subseteq Seq(File) \cup {None} /\ Bodies \subseteq Body

VARIABLES
    stage,     \* what looks at the request next
    sent,      \* the files the client sends; None if the request is no form
    body,      \* the metadata it sends
    files,     \* the files multer has taken
    array,     \* the parsed metadata is a list
    metadata,  \* that list
    items,     \* the items made of files and metadata
    answer     \* the message of the refusal

vars == <<stage, sent, body, files, array, metadata, items, answer>>

Stages == {"idle", "upload", "parse", "validate", "map", "check", "saved", "refused"}

Init ==
    /\ stage = "idle"
    /\ sent = None
    /\ body = [form |-> "absent", items |-> <<>>]
    /\ files = <<>>
    /\ array = TRUE
    /\ metadata = <<>>
    /\ items = <<>>
    /\ answer = NoMessage

Arrive ==
    /\ stage = "idle"
    /\ stage' = "upload"
    /\ sent' \in FileLists
    /\ body' \in Bodies
    /\ UNCHANGED <<files, array, metadata, items, answer>>

Refuse(message) ==
    /\ stage' = "refused"
    /\ answer' = message
    /\ UNCHANGED <<sent, body, files, array, metadata, items>>

(***************************************************************************)
(* Files                                                                   *)
(***************************************************************************)

\* Mutant: the file being filtered is not counted.
FileMessageLate(file) ==
    First(<<When(~Allowed(file), <<"images", "INVALID_FORMAT">>),
            When(Len(files) > MaxImages, <<"images", "TOO_MANY">>),
            When(file.large, <<"images", "TOO_LARGE">>)>>)

\* fileFilter, then the size limit. The filter is called with a placeholder for
\* the file already in the list.
FileMessage(file) ==
    First(<<When(~Allowed(file), <<"images", "INVALID_FORMAT">>),
            When(Len(files) + 1 > MaxImages, <<"images", "TOO_MANY">>),
            When(file.large, <<"images", "TOO_LARGE">>)>>)

\* The first file that is not taken ends the request.
TakeFile ==
    /\ stage = "upload"
    /\ sent # None
    /\ Len(files) < Len(sent)
    /\ LET file == sent[Len(files) + 1]
       IN  \/ FileMessage(file) # NoMessage /\ Refuse(FileMessage(file))
           \/ /\ FileMessage(file) = NoMessage
              /\ files' = Append(files, file)
              /\ UNCHANGED <<stage, sent, body, array, metadata, items, answer>>

UploadEnds ==
    /\ stage = "upload"
    /\ sent # None => Len(files) = Len(sent)
    /\ stage' = "parse"
    /\ UNCHANGED <<sent, body, files, array, metadata, items, answer>>

(***************************************************************************)
(* ImageMetadataParserInterceptor                                          *)
(***************************************************************************)
ParseMessage ==
    First(<<When(body.form \in {"notText", "notJson"}, <<"metadata", "INVALID_JSON">>),
            When(body.form = "noList", <<"metadata", "METADATA_ARRAY_INVALID">>)>>)

\* No metadata and null are an empty list; false is left for the pipe.
ParseMetadata ==
    /\ stage = "parse"
    /\ \/ ParseMessage # NoMessage /\ Refuse(ParseMessage)
       \/ /\ ParseMessage = NoMessage
          /\ stage' = "validate"
          /\ array' = (body.form # "false")
          /\ metadata' = IF body.form = "list" THEN body.items ELSE <<>>
          /\ UNCHANGED <<sent, body, files, items, answer>>

(***************************************************************************)
(* ImagesMetadata: mapToDTOArray, then IsFileMetadata                      *)
(***************************************************************************)

\* null becomes undefined for the two fields that name an image or a file.
ToDto(item) ==
    IF item.shape # "object" THEN item
    ELSE [item EXCEPT !.fields = [f \in FieldNames |->
            IF f \in {"imageId", "fileIdx"} /\ item.fields[f] = Null THEN Undefined
            ELSE item.fields[f]]]

Dtos(list) == [k \in DOMAIN list |-> ToDto(list[k])]

Mains(list) == {k \in DOMAIN list : Truthy(list[k].fields.main)}

Repeats(list, f) ==
    \E j, k \in DOMAIN list :
        j # k /\ ~Nil(list[j].fields[f]) /\ list[j].fields[f] = list[k].fields[f]

MetadataValid(isArray, list) ==
    /\ isArray
    /\ \A k \in DOMAIN list : list[k].shape = "object"
    /\ Cardinality(Mains(list)) <= 1
    /\ ~Repeats(list, "imageId")
    /\ ~Repeats(list, "fileIdx")

\* Mutant: the message for several mains is forgotten.
MetadataMessageWithoutMains(isArray, list) ==
    First(<<When(~isArray, <<"metadata", "METADATA_ARRAY_INVALID">>),
            When(Repeats(list, "imageId"), <<"metadata", "IMAGE_ID_DUPLICATED">>),
            When(Repeats(list, "fileIdx"), <<"metadata", "FILE_IDX_DUPLICATED">>)>>)

MetadataMessage(isArray, list) ==
    First(<<When(~isArray, <<"metadata", "METADATA_ARRAY_INVALID">>),
            First([k \in DOMAIN list |->
              First(<<When(list[k].shape = "null", <<"metadata", "METADATA_ITEM_NOT_DEFINED">>),
                      When(list[k].shape # "object", <<"metadata", "METADATA_ITEM_INVALID_TYPE">>)>>)]),
            When(Cardinality(Mains(list)) > 1, <<"metadata", "MULTIPLE_MAINS">>),
            When(Repeats(list, "imageId"), <<"metadata", "IMAGE_ID_DUPLICATED">>),
            When(Repeats(list, "fileIdx"), <<"metadata", "FILE_IDX_DUPLICATED">>)>>)

(***************************************************************************)
(* SaveMetadataItemDto                                                     *)
(***************************************************************************)
Optional == [null |-> TRUE, undefined |-> TRUE]
TextOptions  == [null |-> TRUE, undefined |-> TRUE, min |-> 0, max |-> MaxText]
BoolOptions  == [null |-> FALSE, undefined |-> TRUE]
IndexOptions == [null |-> TRUE, undefined |-> TRUE, min |-> 0, max |-> None, int |-> TRUE]

TextChecked(f, v) == Checked(TextValid(v, TextOptions), TextMessage(f, v, TextOptions))
BoolChecked(f, v) == Checked(BoolValid(v, BoolOptions), BoolMessage(f, v, BoolOptions))
ExclusiveChecked(f, v, w) == Checked(ExclusiveValid(v, w), ExclusiveMessage(f, v, w))

\* The message of the first field that is refused, in the order of the class.
DtoMessage(i) ==
    First(<<TextChecked("name", i.name), TextChecked("description", i.description),
            BoolChecked("main", i.main), BoolChecked("active", i.active),
            BoolChecked("delete", i.delete),
            ExclusiveChecked("imageId", i.imageId, i.fileIdx),
            Checked(UuidValid(i.imageId, Optional), UuidMessage("imageId", i.imageId, Optional)),
            ExclusiveChecked("fileIdx", i.fileIdx, i.imageId),
            Checked(NumValid(i.fileIdx, IndexOptions), NumMessage("fileIdx", i.fileIdx, IndexOptions))>>)

\* convertValidationErrorsToMessage: the list's own message, or that of the
\* first item that has one.
PipeMessage(isArray, list) ==
    IF ~MetadataValid(isArray, list) THEN Checked(FALSE, MetadataMessage(isArray, list))
    ELSE First([k \in DOMAIN list |-> DtoMessage(list[k].fields)])

ValidateMetadata ==
    /\ stage = "validate"
    /\ LET dtos    == Dtos(metadata)
           message == PipeMessage(array, dtos)
       IN  \/ message # NoMessage /\ Refuse(message)
           \/ /\ message = NoMessage
              /\ stage' = "map"
              /\ metadata' = dtos
              /\ UNCHANGED <<sent, body, files, array, items, answer>>

(***************************************************************************)
(* imageDataMapper                                                         *)
(***************************************************************************)

\* Why the files and the metadata cannot be joined.
MapMessage(list) ==
    IF sent = None THEN <<"images", "FILES_NOT_DEFINED">>
    ELSE First([k \in DOMAIN list |->
           LET i == list[k].fields.fileIdx
           IN  IF Nil(i) THEN NoMessage
               ELSE First(<<When(~IsNum(i), <<"metadata", "FILE_IDX_INVALID">>),
                            When(i.n < 0 \/ i.n >= Len(files), <<"metadata", "FILE_IDX_NOT_FOUND">>)>>)])

\* The file that an element of the metadata names.
FileOf(dto) == IF Nil(dto.fields.fileIdx) THEN NoFile ELSE dto.fields.fileIdx.n + 1

Named(list) == {FileOf(list[k]) : k \in DOMAIN list}

NoFields == [f \in FieldNames |-> Undefined]

\* Mutant: every file gets an item of its own.
LeftoversAll(list) ==
    [k \in DOMAIN files |-> [fields |-> NoFields, file |-> k]]

\* The n-th of a set of numbers.
Nth(S, n) == CHOOSE x \in S : Cardinality({y \in S : y <= x}) = n

\* One item for each file that no metadata names, in the order of the files.
Leftovers(list) ==
    LET unnamed == DOMAIN files \ Named(list)
    IN  [n \in 1..Cardinality(unnamed) |-> [fields |-> NoFields, file |-> Nth(unnamed, n)]]

Joined(list) ==
    [k \in DOMAIN list |-> [fields |-> list[k].fields, file |-> FileOf(list[k])]] \o Leftovers(list)

MapItems ==
    /\ stage = "map"
    /\ \/ MapMessage(metadata) # NoMessage /\ Refuse(MapMessage(metadata))
       \/ /\ MapMessage(metadata) = NoMessage
          /\ stage' = "check"
          /\ items' = Joined(metadata)
          /\ UNCHANGED <<sent, body, files, array, metadata, answer>>

(***************************************************************************)
(* validateImageData                                                       *)
(***************************************************************************)
TextRule(f, v) ==
    IF Nil(v) THEN NoMessage
    ELSE First(<<When(~IsText(v), <<f, "INVALID">>), When(Length(v) > MaxText, <<f, "MAX_LEN">>)>>)

BoolRule(f, v) ==
    IF v = Undefined THEN NoMessage
    ELSE First(<<When(v = Null, <<f, "NULL">>), When(~IsBit(v), <<f, "INVALID">>)>>)

\* What is wrong with item k; several mains show at the second one. A file with an
\* image id is an invalid file, so that no item has the message BOTH_DEFINED.
ItemMessage(list, k) ==
    LET i    == list[k].fields
        file == list[k].file # NoFile
        main(j) == list[j].fields.main = Bit(TRUE)
    IN  First(<<TextRule("name", i.name), TextRule("description", i.description),
                BoolRule("main", i.main),
                When(main(k) /\ \E j \in 1..(k - 1) : main(j), <<"images", "MULTIPLE_MAINS">>),
                BoolRule("active", i.active), BoolRule("delete", i.delete),
                When(~Nil(i.imageId) /\ ~IsValidUUID(i.imageId), <<"imageId", "INVALID">>),
                When(file /\ ~Nil(i.imageId), <<"images", "INVALID_FILE">>),
                When(~file /\ Nil(i.imageId), <<"images", "NONE_DEFINED">>)>>)

CheckMessage(list) ==
    First(<<When(list = <<>>, <<"images", "IMAGE_LIST_EMPTY">>),
            First([k \in DOMAIN list |-> ItemMessage(list, k)]),
            When(Repeats(list, "imageId"), <<"images", "IMAGE_ID_DUPLICATED">>)>>)

CheckItems ==
    /\ stage = "check"
    /\ \/ CheckMessage(items) # NoMessage /\ Refuse(CheckMessage(items))
       \/ /\ CheckMessage(items) = NoMessage
          /\ stage' = "saved"
          /\ UNCHANGED <<sent, body, files, array, metadata, items, answer>>

\* Mutant: the refusal stays with the next request.
LeaveMessage ==
    /\ stage \in {"saved", "refused"}
    /\ stage' = "idle"
    /\ sent' = None
    /\ body' = [form |-> "absent", items |-> <<>>]
    /\ files' = <<>>
    /\ array' = TRUE
    /\ metadata' = <<>>
    /\ items' = <<>>
    /\ UNCHANGED answer

\* The request is over; the next one may come.
Leave ==
    /\ stage \in {"saved", "refused"}
    /\ stage' = "idle"
    /\ sent' = None
    /\ body' = [form |-> "absent", items |-> <<>>]
    /\ files' = <<>>
    /\ array' = TRUE
    /\ metadata' = <<>>
    /\ items' = <<>>
    /\ answer' = NoMessage

Next ==
    \/ Arrive \/ TakeFile \/ UploadEnds \/ ParseMetadata \/ ValidateMetadata \/ MapItems \/ CheckItems
    \/ Leave

Spec == Init /\ [][Next]_vars

-----------------------------------------------------------------------------
(***************************************************************************)
(* Properties                                                              *)
(***************************************************************************)

\* The type of every variable.
TypeOK ==
    /\ stage \in Stages
    /\ sent \in Seq(File) \cup {None}
    /\ body \in Body
    /\ files \in Seq(File)
    /\ array \in BOOLEAN
    /\ metadata \in Seq(RawItem)
    /\ items \in Seq(Item)
    /\ Len(answer) \in {0, 2}
    /\ answer # NoMessage <=> stage = "refused"

\* Every file ends in exactly one item: the one that named it, which keeps its
\* fields and its place, or one of its own after those (imageDataMapper).
EveryFileOnce ==
    stage \in {"check", "saved"} =>
      /\ \A n \in DOMAIN files : \E k \in DOMAIN items :
           /\ items[k].file = n
           /\ \A j \in DOMAIN items : items[j].file = n => j = k
      /\ Len(metadata) <= Len(items)
      /\ \A k \in DOMAIN items :
           IF k <= Len(metadata)
           THEN /\ items[k].fields = metadata[k].fields
                /\ ~Nil(items[k].fields.fileIdx) => items[k].file = items[k].fields.fileIdx.n + 1
           ELSE /\ items[k].fields = NoFields
                /\ k > Len(metadata) + 1 => items[k - 1].file < items[k].file

\* What the pipe and imageDataMapper let through is refused by bulkSave's own
\* validation for one reason only: there is nothing in it.
ValidatedTwice ==
    stage = "check" /\ items # <<>> => CheckMessage(items) = NoMessage

(***************************************************************************)
(* What a client may send                                                  *)
(***************************************************************************)
SentItems == IF body.form = "list" THEN body.items ELSE <<>>
SentCount == IF sent = None THEN 0 ELSE Len(sent)

GoodText(v) == v \in {Undefined, Null} \/ (v.type = "string" /\ Length(v) <= MaxText)
GoodFlag(v) == v \in {Undefined, Bit(TRUE), Bit(FALSE)}
NamesImage(v) == v.type = "string" /\ v.form = "uuid"
NamesFile(v) == v.type = "number" /\ v.form = "int" /\ v.n \in 0..(SentCount - 1)

GoodItem(item) ==
    /\ item.shape = "object"
    /\ GoodText(item.fields.name) /\ GoodText(item.fields.description)
    /\ GoodFlag(item.fields.main) /\ GoodFlag(item.fields.active) /\ GoodFlag(item.fields.delete)
    /\ \/ NamesImage(item.fields.imageId) /\ item.fields.fileIdx \in {Undefined, Null}
       \/ NamesFile(item.fields.fileIdx) /\ item.fields.imageId \in {Undefined, Null}

DeclaredTypes == {Declared[k] : k \in DOMAIN Declared}

\* A form with at most MaxImages small images of the declared types, and metadata for
\* different files of it and for different images of the product, one main.
WellFormed ==
    /\ sent # None
    /\ Len(sent) <= MaxImages
    /\ \A k \in DOMAIN sent : sent[k].ext \in DeclaredTypes /\ ~sent[k].large
    /\ body.form \in {"absent", "null", "list"}
    /\ Len(sent) + Len(SentItems) > 0
    /\ \A k \in DOMAIN SentItems : GoodItem(SentItems[k])
    /\ \A j, k \in DOMAIN SentItems : j # k =>
         /\ SentItems[j].fields.main = Bit(TRUE) => SentItems[k].fields.main # Bit(TRUE)
         /\ \A f \in {"imageId", "fileIdx"} :
              SentItems[j].fields[f] = SentItems[k].fields[f] => Nil(SentItems[j].fields[f])

\* Through the five validations, a request is accepted if and only if it is
\* well-formed as a whole. Not so: see OnlyWebpIsMisjudged.
AcceptsWellFormed ==
    /\ stage = "saved" => WellFormed
    /\ stage = "refused" => ~WellFormed

\* A .webp file is refused for its format, though it is declared allowed and the
\* message names it as expected.
WebpRefused(message) ==
    /\ message = <<"images", "INVALID_FORMAT">>
    /\ sent # None /\ \E k \in DOMAIN sent : sent[k].ext = ".webp"

\* Through the five validations, only requests that are well-formed as a whole
\* are accepted, and none of them is refused but those with a .webp file.
OnlyWebpIsMisjudged ==
    /\ stage = "saved" => WellFormed
    /\ stage = "refused" /\ WellFormed => WebpRefused(answer)

\* What the request must have for a message to be about it: the files,
CauseInFiles(message) ==
    \/ message = <<"images", "INVALID_FORMAT">> /\ sent # None
       /\ \E k \in DOMAIN sent : sent[k].ext \notin DeclaredTypes
    \/ message = <<"images", "TOO_MANY">> /\ SentCount > MaxImages
    \/ message = <<"images", "TOO_LARGE">> /\ sent # None /\ \E k \in DOMAIN sent : sent[k].large
    \/ message = <<"images", "FILES_NOT_DEFINED">> /\ sent = None
    \/ message = <<"images", "IMAGE_LIST_EMPTY">> /\ SentCount = 0 /\ SentItems = <<>>

\* the metadata as a list,
CauseInList(message) ==
    \/ message = <<"metadata", "INVALID_JSON">> /\ body.form \in {"notText", "notJson"}
    \/ message = <<"metadata", "METADATA_ARRAY_INVALID">> /\ body.form \in {"noList", "false"}
    \/ /\ message = <<"metadata", "METADATA_ITEM_NOT_DEFINED">>
       /\ \E k \in DOMAIN SentItems : SentItems[k].shape = "null"
    \/ /\ message = <<"metadata", "METADATA_ITEM_INVALID_TYPE">>
       /\ \E k \in DOMAIN SentItems : SentItems[k].shape \in {"scalar", "array"}

\* two elements of it,
CauseInPair(message) ==
    \E j, k \in DOMAIN SentItems :
        LET i == SentItems[j].fields
            l == SentItems[k].fields
        IN  /\ j # k
            /\ \/ /\ message = <<"metadata", "MULTIPLE_MAINS">>
                  /\ Truthy(i.main) /\ Truthy(l.main)
               \/ /\ message = <<"metadata", "IMAGE_ID_DUPLICATED">>
                  /\ ~Nil(i.imageId) /\ i.imageId = l.imageId
               \/ /\ message = <<"metadata", "FILE_IDX_DUPLICATED">>
                  /\ ~Nil(i.fileIdx) /\ i.fileIdx = l.fileIdx

\* the value of one field,
CauseInField(message, f, v) ==
    \/ /\ message = <<f, "NULL">> /\ f \in {"main", "active", "delete"} /\ v = Null
    \/ /\ message = <<f, "MAX_LEN">> /\ f \in {"name", "description"}
       /\ IsText(v) /\ Length(v) > MaxText
    \/ /\ message = <<f, "INVALID">> /\ ~Nil(v)
       /\ \/ f \in {"name", "description"} /\ ~IsText(v)
          \/ f \in {"main", "active", "delete"} /\ ~IsBit(v)
          \/ f = "imageId" /\ IsText(v) /\ v.form # "uuid"
          \/ f = "fileIdx" /\ ~IsNum(v)
    \/ message = <<f, "STRING">> /\ f = "imageId" /\ ~Nil(v) /\ ~IsText(v)
    \/ message = <<f, "INT">> /\ f = "fileIdx" /\ IsNum(v) /\ v.form = "fraction"
    \/ message = <<f, "MIN">> /\ f = "fileIdx" /\ IsNum(v) /\ v.n < 0
    \/ message = <<"metadata", "FILE_IDX_NOT_FOUND">> /\ f = "fileIdx" /\ IsNum(v) /\ v.n >= SentCount

\* or what an element says of an image and a file.
CauseInElement(message, i) ==
    \E f \in {"imageId", "fileIdx"} :
        \/ message = <<f, "BOTH_DEFINED">> /\ ~Nil(i.imageId) /\ ~Nil(i.fileIdx)
        \/ message = <<f, "NONE_DEFINED">> /\ Nil(i.imageId) /\ Nil(i.fileIdx)

CauseOf(message) ==
    \/ CauseInFiles(message)
    \/ CauseInList(message)
    \/ CauseInPair(message)
    \/ \E k \in DOMAIN SentItems :
        /\ SentItems[k].shape = "object"
        /\ \/ \E f \in FieldNames : CauseInField(message, f, SentItems[k].fields[f])
           \/ CauseInElement(message, SentItems[k].fields)

\* Whatever else is wrong with it, a request that is refused has the defect that
\* the message names, though validate and defaultMessage are written twice; the
\* one refusal without a cause is that of a .webp file.
RefusedForACause == stage = "refused" => CauseOf(answer) \/ WebpRefused(answer)
=============================================================================
