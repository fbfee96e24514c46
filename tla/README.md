# A verification project for store-backend

`src/` is the backend of a store: NestJS controllers and services over TypeORM
and a relational database, with the images of products in a MinIO bucket. This
directory holds TLA+ models of its services, TLC configurations that check them
on small instances, and theorems about them that TLAPS checks for every
instance.

1. [The system](#the-system) -- components, state, interactions, what is hard
2. [The models](#the-models) -- which module models what, and how
3. [The runs](#the-runs) -- what TLC checks, the bounds, the fairness
4. [The theorems](#the-theorems) -- what is proved, and by which invariants
5. [What the checks found](#what-the-checks-found)
6. [What is not modelled](#what-is-not-modelled)
7. [The plan](#the-plan)

Paths below are relative to `src/src/modules`.

## The system

Every request is an `async` handler of one Node process. Between two `await`s
a handler runs alone; at each `await` any other handler may take steps. The
database serves one query at a time per row, but the services use no
transaction of more than one call of the repository, no locks and no versions,
and the bucket shares no transaction with the database. So the unit of
interleaving is the query, or the request to the object store.

| Component | State | Operations | Modules |
|---|---|---|---|
| Product images, `stock/product-image` | rows of `products_images`; a request's copy of them; moves of files nobody waits for | `bulkSave` | ProductImages |
| Payload of image saves, `system/interceptors`, `system/mappers`, `cloud-storage/.../image-upload-utils.ts` | the files and metadata of one request | the file filter and limits, the JSON parser, the pipe, `imageDataMapper`, `validateItemList` | ImagePayload, Validators |
| Object store client, `system/cloud-storage` | the bucket, its policy, its objects | `save`, `copy`, `move`, `delete`, `get`, `list` | BucketStorage; ProductImages composes what images use |
| Products, `stock/product` | `products` | `create`, `update`, `delete` | Catalogue |
| | | `find`, `findById` | Queries |
| Brands, `stock/brand` | `brands` | `create`, `update`, `delete` | Catalogue |
| | | `find`, `findById` | Queries |
| Categories, `stock/category` | `categories` with the parent column; `categories_closure` | `create`, `update`, `delete` | CategoryTree |
| | | `find`, `findById` | Queries |
| Users, `user` | `users`, its email column unique, its hash column not selected | `create`, `update`, `updatePassword`, `count` | Accounts |
| | | `find`, `findForId` | Queries |
| Authentication, `authentication` | `refresh_tokens` | `register`, `login`, `refresh`, `logout` | Accounts |
| Validation, `system/decorators`, `system/pipes` | none | the decorators of image metadata; those of queries | Validators, ImagePayload; Queries |
| Guards, controllers, interceptors | none | who may call, who may filter by what, the parser of `query` | Queries, ImagePayload |
| Thumbnails, encryption, durations | none | calls of libraries | faults, abstracted |
| Bulk, `stock/bulk` | none | none: the classes are empty | -- |

How they interact: controllers call one service each. `bulkSave` calls the
object store client and the image service; `AuthenticationService` calls
`UserService` and `TokenService`, which calls `UserService` and the repository
of refresh tokens; the product service reads brands and categories, and saves
products together with the images it was joined with. Everything else they
share is the database.

What is hard, component by component, and what makes it correct:

* **Product images.** `bulkSave` reads the rows of a product, goes through a
  list of items, uploads two files for each new image, starts two moves (copy,
  then delete) for each image whose state changes and does not await them, and
  saves all the rows at the end. Uploads and moves that were made stay when the
  save fails or the process stops; the next call may come while moves are under
  way; a rejected move is an unhandled rejection and ends the process. Correct
  means: rows name files that exist, in the directory their flags call for; no
  file of an image is ever lost; deleted images stay deleted; a product has at
  most so many images; every call is answered and every move ends.
* **Payload of image saves.** Five pieces of code look at one request, each at a
  part of it: the filter of multer, the parser, the decorators, the mapper that
  joins files and metadata, and hand-written rules over the joined list. Correct
  means: they accept what is well-formed as a whole and nothing else (they do not:
  a `.webp` file is refused), every file ends up in one item, and a refusal names a
  defect the request has.
* **Object store client.** The bucket is made by the first call that misses it,
  in three requests; a listing is a stream of pages; a move is a copy and a
  deletion. Correct means: nothing uses a bucket before it exists, it becomes
  public, a move never deletes what it did not copy, a list holds what was there.
* **Products and brands.** References are looked up in one query and written in
  another; an update saves an entity read several queries ago, with the list of
  images it was joined with, from which TypeORM concludes what was removed; a
  deletion is a flag that a stale save may take back. Bodies are not stripped of
  properties that their DTOs do not declare, and what creates a product, or creates
  or updates a brand, hands the whole body to the repository. Correct means: a save
  that succeeds refers to what was there when the call came or to what its body says,
  leaves no image without a product, and changes what it was asked to change.
* **Reading.** Filters on rows and on what they are joined to, and the place of
  `withDeleted()` between the joins, decide together what is selected; the check
  of what a caller may ask for looks at the query before it is transformed; page,
  rows and count are three queries. Correct means: who is not staff never sees
  what is not public, and the answer is the page of the rows asked for. Both have
  exceptions in the code, which a run of their own shows.
* **Categories.** A category's place is stored twice, in its row and in the
  closure table, and only a creation writes both. `update` checks the new
  parent against the closure table in one query, looks it up in another and
  writes in a third. Correct means: no category ends up below what is below
  it, nor below a deleted one, and the closure table stays an order.
* **Users and sessions.** Emails are checked in one query and used in another;
  the role of the first user is decided by a count before it is inserted;
  updates read a user, change it and save it whole; a refresh token and its
  user are read one after the other. Correct means: emails are unique, there is
  a ROOT, an update changes what it was asked to change, and a token that was
  logged out is of no use.

`PROJECT.json` lists these dangers as hazards, each at its line of the source
with the properties that would show it.

## The models

Each module says in its head what it abstracts from. One action is one handler
step, from one query or request to the next, with everything the code does in
between.

### ProductImages, ImageGallery

`ProductImages` is one product with its images: `rows` is the table, `store` the
set of objects, `moves` the calls of `move()` in the background, and for each
request `pc`, its `payload` (the items), `next` (the item it is at), `draft`
(the id generated for an image being uploaded), `mem` (its copy of the rows) and
`base` (the rows `save()` loaded to compare with).

| Action | Code (`product-image.service.ts`) |
|---|---|
| `Receive`, `Reject` | validation of the list, 194-205 and 61-183 |
| `Load`, `LoadRefused` | the query and the limit, 207-224 |
| `UploadImage`, `UploadThumbnail` | a new image, 230-311 |
| `UpdateItem`, `ImageNotFound` | an item for a stored image, 313-402 |
| `BeginSave`, `Write` | `save()` of the rows, 405-418 |
| `CopyObject`, `DeleteSource`, `CopySourceMissing` | `move()` of `cloud-storage.service.ts`, 182-272 |
| `UploadFails`, `ThumbnailFails`, `QueryFails`, `MoveFails`, `Crash` | what fails |
| `DeleteProduct` | `ProductService.delete` |

A copy whose source is missing, or fails, rejects a promise nobody handles:
Node exits and is started again (`Restart`). A call whose moves a failure or a
crash cuts off counts as failed, answered or not; a missing source is no such
excuse. `Spec` lets requests arrive at any
time. `SerialSpec` lets one arrive when the one before was answered and its
moves have ended (the editors of a product take turns); everything else, the
failures and restarts included, is the same.

`ImageGallery` is what the service promises: rows are saved atomically, a row is
only added when both its files are kept, kept files stay kept, deleted images
stay as they are and live ones name the directory of their state. It knows no
uploads, moves, directories of objects or requests. `ImplementsGallery` maps it
to `ProductImages` with `held` as the files there is a copy of.

### CategoryTree

`created`, `deleted` and `parent` are the table of categories, `closure` the
table `categories_closure`; `pc`, `subject` and `target` are a request's next
query and what it is about. `Insert` writes the row and the closure rows that
TypeORM's closure-table repository writes with it; `Update` writes the parent
column only, as `categoryRepo.update` does; `SoftDelete` sets `deletedAt` and
leaves children and closure rows. `Descendants` is the query TypeORM makes for
`findDescendants`, which leaves out deleted categories, and `JoinedParent` is
the parent that `leftJoinAndSelect` finds, none if it is deleted.

### Accounts

`users` and `tokens` are the two tables, `call` and `sent` what a request is
about and was sent, `held` the entity it is about to save, `loaded` the row that
`save()` loaded to compare it with. `loggedOut` and `late` are history: tokens
that a logout was answered for, and requests that came with one of them.

| Action | Code |
|---|---|
| `Count` | `register`: `!(await count())`, `authentication.service.ts` 50-56 |
| `CheckEmail` | `checkIfEmailAlreadyInUse`, by `create` and `update`, `user.service.ts` 43, 77 |
| `Insert`, `InsertRefused` | `save` of a new user, 46-58, and the unique column |
| `ReadUser` | `findForId` and what is set on the entity, 74-85, 219-226 |
| `LoadRow`, `WriteRow`, `WriteRefused` | `save` of a user, 87 and 227 |
| `FindCredentials` | `validateCredentials` and the check of `active` |
| `IssueToken` | `createRefreshToken`, last step of `register` and `login` |
| `FindToken`, `FindUser` | `resolveRefreshToken`, `token.service.ts` 89-111 |
| `Grant`, `Revoke` | the ends of `refresh` and `logout` |
| `Fail` | a query fails, the token expired, the process stops |

`Merged` is the heart of it: of an entity, TypeORM writes the columns in which it
differs from the row it loads. The hash column has `select: false`, so neither
the entity nor the loaded row has it, unless the call set it. `overtaken` is
history: the columns other calls wrote between a request's read and the load of
its save, which are the ones that save puts back.

### Catalogue

`products`, `brands` and `images` are tables, `categories` the categories that are
not deleted. A request has its next query `pc`, the row it is about, the fields it
was `sent`, the `extra` properties its body has besides (relations of the row, and
`deletedAt`), the product it `held` after reading and changing it, and what save()
`loaded` to compare with. `gone` and `overtaken` are history: what was deleted when
the call came, and the columns others wrote between its read and its load.

| Action | Code |
|---|---|
| `FindBrand`, `FindCategory`, `Insert` | `ProductService.create`, `product.service.ts` 53-76 |
| `LoadProduct` | the query of `update`, 102-118 (its joins come before `withDeleted()`), and the fields it sets, 119-157 |
| `FindNewBrand`, `FindNewCategory` | the look-ups of `update`, 161-169 and 173-181 |
| `LoadRow`, `LoadImages`, `Write` | `save()` of the product with its images, 185 |
| `FindProduct`, `SoftDelete` | `delete`, 421-434 |
| `InsertBrand`, `FindOldBrand`, `UpdateBrand`, `FindLastBrand`, `SoftDeleteBrand` | `brand.service.ts` |
| `CategoryDeleted`, `ImagesSaved` | what the services of categories and images do meanwhile |

`NewProduct`, `InsertBrand` and `UpdatedBrand` write the whole body, as
`productRepo.create(productDto)`, `brandRepo.create` and `brandRepo.update` do: a
relation the body names wins over the id that was looked up, images and products
it names come along (`Moved`), and `deletedAt` is written. `update` of a product
reads the declared fields only.

`Joined` is what the query of `update` returns: the product even if it is deleted,
its brand, category and images only if they are not. `Detached` is what TypeORM
makes of an image that was loaded to compare and is not in the entity: it is
written without a product, which the column does not allow, so the save fails.

### BucketStorage

`bucket`, `policy` and `objects` are the store; a name is the sequence of its path
segments. A call is a step `pc` with its parameters. A listing goes through the
names in any order: `rest` is what the store has not come to yet, `result` the
entries sent so far. A request to the store may fail before or after the store did
what it was asked, and the process may stop. `touched` and `abandoned` are history.
ProductImages has the same `save`, `move` and `delete` without the bucket's
creation, together with the service that calls them.

### Validators, ImagePayload

`Validators` has the decorators `Text`, `Num`, `Bool`, `Uuid` and
`MutuallyExclusiveFields` as operators: for each a `validate` and a
`defaultMessage`, the two chains of conditions of the code. A value is what they look
at: its JavaScript type, the length of a text, whether it is a UUID and which, a
number, and whether it has a fraction. There is one text of each length and one
fraction after each whole number, since only UUIDs and numbers are compared.
`ImagePayload` passes a request through the stages of the code, one action each:

| Action | Code |
|---|---|
| `Arrive` | a form with files and a text field `metadata`, or none |
| `TakeFile`, `UploadEnds` | multer, file by file, with `fileFilter` and the limits, `image-upload-utils.ts` 38-66 |
| `ParseMetadata` | the interceptor that parses the metadata |
| `ValidateMetadata` | the pipe with the metadata DTO, `convertValidationErrorsToMessage` |
| `MapItems` | `imageDataMapper`: items of files and metadata, then of the files nobody named |
| `CheckItems` | `validateItemList` of `bulkSave`, `product-image.service.ts` 61-205 |
| `Leave` | the answer is sent; the next request may come |

Its answer is a message, as field and constraint, so that a property can say what
the message must be about.

### Queries

One call is made of guards, the parser of the query, `checkPermissions`, the
transformers and validators (`Refused`, `Dto`), and then the queries of the
service: `FindPage`, `FindEntities` and `Count` for `find`, `FindById` for one row.
`Relations` is what a row is joined to, `Selected` the rows that satisfy the
conditions, both written from the query builders of each service with the place of
`withDeleted()` among the joins. Products come with their main images in `find` and
with all in `findById`; an image is not joined when it is deleted, but is when it is
inactive. `Sorted` and `Pages` are `ORDER BY`, `LIMIT` and
`OFFSET`; ties come in any order. TypeORM makes two queries of a page with joins:
the ids, then the rows with these ids and the same conditions. `Change` is what
writing calls do to rows meanwhile. `Wanted` is the definition that the properties
compare with: what the names of the filters say, with no joins.

### Modules and files

| File | What it is |
|---|---|
| `ProductImages`, `Catalogue`, `CategoryTree`, `Accounts`, `BucketStorage`, `ImagePayload`, `Queries` | the models, with their properties; each mutant of a definition stands before it |
| `Validators` | operators that `ImagePayload` is built from |
| `ImageGallery` | the abstract specification of `ProductImages` |
| `ProductImagesInvariants` | the inductive invariants of `ProductImages`, used by the proofs; TLC checks `TurnsInv` |
| `*MC` | symmetry sets, item lists, tables, queries and requests |
| `*Proofs` | theorems and proofs; `ProductImagesSettleProofs` goes on where `ProductImagesProofs` ends |
| `*.cfg` | one per run |

## The runs

| Run | Specification | Question |
|---|---|---|
| ImagesSerial | SerialFairSpec, all faults | Does the inductive invariant `TurnsInv` hold, with it the directories, files, limit and deletions? Is the gallery implemented? Does the bucket come to hold exactly what the rows name? |
| ImagesConcurrent | FairSpec, all faults | With two calls that race, is a row still only inserted for files that are stored, is every call answered, does every move end, and by how much is the limit exceeded? |
| ImagesRacingMoves | violation, Spec, two requests | see [What the checks found](#what-the-checks-found) |
| CategoryMoves | Spec, two requests | Does the closure table stay an order, is nothing moved below what was created below it, or attached to what was deleted before the call came? |
| CategoryCycle | violation | see below |
| Accounts | Spec, two requests | Emails, logged-out tokens, passwords and roles; is there a ROOT among the users, also when calls register at the same time; is every change of a user one that was asked for, or one of the known kind? |
| Catalogue | Spec, two requests | Do products only come to refer to what was live when the call came, or what its body names, and change as asked? Is no image left without a product, and does one move only to a product created with it or back? Do deleted brands come back only when asked for? |
| BucketStorage | Spec, two calls, all faults | Is the bucket there before it is used and does it get its policy, do moves keep contents, are lists regular? |
| ImagePayload | Spec | Do the five validations together accept the well-formed requests but for `.webp` files, and do their refusals say what is wrong? |
| ImagePayloadWebp | violation | see below |
| Queries | Spec, rows change meanwhile | Does the public only see what is public, but for images, and is the answer the page that was asked for, but for three kinds of queries? |
| QueriesDocumented | violation, one row changes | see below: these exceptions |

**Bounds.** Every bound is a constant or a set in the cfg.

* `ProductImages`: a product starts with one image and one that is deleted, the
  first private where calls take turns (a first list may publish it) and also
  public where they race, then also with two live ones, the limit; up to three
  (serial) or two (concurrent) requests are served, each once; the item lists of
  `ProductImagesMC` have up to two items and cover a new image, each change of a
  stored one, deleted and unknown images first and second, and lists that are
  refused. `MaxImages` is 2 for the code's 12, so that lists reach it. Two items
  show what the order of items does, two requests every race of two, that of moves
  included. There are ids for every image the lists can create, unless a restart
  drops an upload: then the id stays taken by its object, as a UUID does. As
  requests are served once, the system ends when all are answered, so deadlock is
  not checked here; `Answered` says that it does not stop earlier.
* `CategoryTree`: three categories and two requests. A cycle needs two
  categories, a detached subtree three.
* `Accounts`: two users, one token, two emails, two passwords, two requests; users
  are created with the role USER, so a ROOT is one that registered first. A clash
  needs two of each; a request that comes with a token after its logout needs one
  token. A call that creates a user waits until an id is left for it, and two users
  are enough for two registrations at the same time; a call that finds no token left
  when it comes to issue one fails, as it may anyway.
* `Catalogue`: two requests, one category, one value, and either one product, two
  brands (the old and the new one) and no image, or two products, one image and one
  brand, then without bodies that name `deletedAt` or a brand and without the deletion
  of the category (the constraint `Small`); updates that name a brand, and others that name the
  category and a value; bodies that name a brand besides its id, an image,
  products of a brand, or `deletedAt`, each alone. The flag `deleted` and the brand
  are the columns that two calls can tell apart here.
* `BucketStorage`: two calls; two objects in a directory and a directory below it,
  and one elsewhere; two contents. A listing that misses or invents an entry needs
  one other call.
* `ImagePayload`: no form, or up to three files where two are allowed, with each
  kind of refused file; metadata of every form, and every list of up to two
  elements, in which each field takes each kind of value the decorators
  tell apart. Two elements show every rule about pairs (several mains, ids or
  file numbers named twice), and a file more than the metadata names shows what
  the mapper adds. Requests come one after another, so what is left over from one
  would meet the next.
* `Queries`: two products of two brands and two categories, one below the other,
  one user, two images of one product, one of them main; rows that change at most
  twice, before or between the queries of a call, so that any two rows, or one of them twice, are inactive or deleted. The
  calls are every valid combination of the filters of each kind (729 of products),
  every way to send one filter for callers who are not staff, every form of the
  query parameter, and ids, pages and orders one by one, with lists of ids of two
  (the limit here), null among them or not, and of three. Pages of one and of two
  rows, with two rows of a kind, show the boundaries of pages.

Deadlock is checked in every run but those of `ProductImages`. Symmetry is used
for ids and requests no definition names one by one, and only in runs without
liveness properties. Those of `ProductImages` have a constraint instead (`InOrder`):
calls arrive, and generated ids are used, in the order of their names. It leaves out
nothing but other namings of the same behaviours, and cuts no behaviour short.

**Fairness.** `Fairness` of `ProductImages` is weak fairness of each request's
steps and of the moves together: the event loop resumes every handler whose
promise settled, and the database and the object store answer every call, with
success or an error. Requests need not arrive, nothing has to fail, and no
product has to be deleted. Under it `Answered` and `MovesEnd` hold whatever
fails, and `TakesEffect` (the bucket comes to hold what the rows name, again and
again) when no request failed or was cut off. The other models state safety only: their
calls are straight lines of queries, and each waits for nothing but its own.

Each property of a passing run has a mutant in `PROJECT.json`: a form of one
definition with a likely bug, under which TLC finds the property violated.

## The theorems

For any sets of ids, values and requests, of any size:

| Module | Theorem | States | Under |
|---|---|---|---|
| ProductImagesProofs | TypeCorrect | `TypeOK` | Spec |
| | RowsComeAfterUploads | `InsertedAfterUpload` | Spec |
| | DirectoriesAgree | `DirectoryAgreesWithFlags` | SerialSpec |
| | ImagesAreKept | `NoImageLost` | SerialSpec |
| | DeletedStaysDeleted | `DeletedIsFinal` | SerialSpec |
| | GalleryImplemented | `ImplementsGallery` | SerialSpec |
| ProductImagesSettleProofs | TurnsInvariant, CountStaysWithinMax | `TurnsInv`, `CountWithinMax` | SerialSpec |
| | SettleInvariant, StorageSettles | `SettleInv`, `StorageMatchesRows` | SerialSpec |
| CategoryTreeProofs | TypeCorrect, ClosureStaysOrder, NeverMovedUnderOffspring, AttachesToLive | `TypeOK`, `ClosureIsOrder`, `NeverUnderOwnOffspring`, `AttachedToLive` | Spec |
| | ClosureFollows | `ClosureFollowsParents` | Spec, when calls neither move nor detach |
| AccountsProofs | TypeCorrect, EmailsStayUnique, PasswordsAndRolesStay, RootFromTheFirst, LoggedOutIsOut, ChangesAsked | `TypeOK`, `EmailsUnique`, `PasswordsAndRolesKept`, `SomeRoot`, `LoggedOutStaysOut`, `ChangesAreAsked` | Spec |
| CatalogueProofs | TypeCorrect, RefersToWhatWasLive, ImagesKeepTheirProduct, ChangesAreExplained, BrandsComeBackOnlyAsAsked | `TypeOK`, `RefersToLive`, `ImagesStay`, `ChangesAreAsked`, `BrandsComeBackAsAsked` | Spec |
| BucketStorageProofs | TypeCorrect, BucketComesFirst, PolicyFollows, MovesKeepContent, ListsAreRegular | `TypeOK`, `BucketBeforeUse`, `PublicInTheEnd`, `MoveKeepsContent`, `ListIsRegular` | Spec |
| ImagePayloadProofs | TypeCorrect, EveryFileIsInOneItem, SecondValidationPasses, RefusalsAreCaused, WellFormedIsAccepted | `TypeOK`, `EveryFileOnce`, `ValidatedTwice`, `RefusedForACause`, `OnlyWebpIsMisjudged` | Spec |
| QueriesProofs | TypeCorrect, PublicSeesOnlyPublic, AnswersAreAsked | `TypeOK`, `PublicSeesPublic`, `AnswersAsked` | Spec |

They rest on the assumptions the modules name: that `None` (and `Unset`) is no
value of another kind, that the calls, faults, payloads and updates are of the kinds
the models know, that ids of products, brands and categories are told apart, that
`ProductImages` is started with finite tables whose rows name the directory of their
flags, that limits are numbers, that names of objects are sequences, and that the
tables of `Queries` are finite and their rows refer to each other. TLC evaluates them
in every run. What is proved of how the bucket settles is about calls none of which
failed or was cut off: a move that is cut off leaves a copy behind.

**How they are proved.** The properties are not inductive.

* `ProductImages`, any interleaving (`UploadInv`): that a row is inserted after
  its uploads needs that the files of rows that are only in some request's memory
  stay where they are. So: moves are only about images with a row; an image
  being uploaded is in no table, no memory and no other upload, and nobody names
  it; a row that `save()` loaded exists.
* `ProductImages`, taking turns (`SerialInv`, `KeepInv`): rows in memory name the
  right directory too, what `save()` loaded is what is stored, and a request
  holds no deleted image; for the files, that there is one move per file, that a
  source is deleted only once there is a copy, and that items still to come name
  images no move is about (this is where the check of repeated ids matters).
* `ProductImages`, the limit (`CountInv`): while a call is served, its memory holds
  all the live rows, and the live images in memory, with the items still to come that
  bring a file, are at most the limit and the items still to come that delete
  (`WithinBudget`). An item takes one off either side, or neither; after the last one
  nothing is ahead and what is saved is within the limit. A list may only delete what
  it names once, which is why the check of repeated ids is needed here as well.
* `ProductImages`, the bucket (`SettleInv`): the row in force of an image is that in
  the memory of the call being served, which its moves already lead to, or that of the
  table. As long as no call was refused half-way or cut off, an image's moves lead to
  the row in force, a file being moved is at its source until it was deleted and at its target
  once it was copied, a file at rest is in the directory of its row only, and an image
  without a row has but the file being uploaded. When nothing is in progress the row
  in force is the one of the table.
* `CategoryTree`: closure rows of a category are written once, when it is
  created, and never change (`ClosureIsFixed`). So a target that is not below a
  category when checked (`MoveChecked`) never comes to be below it. A target
  that is deleted is not found by that check, but neither is it by the look-up
  that follows; nothing is restored, so a parent that was found had not been
  deleted when the call came (`FoundNotGone`).
* `Accounts`: entities held by requests have the role of their user and the
  password they were sent (`HeldInv`), whatever is saved meanwhile, so a save
  never differs in those from the row it loads, except for a new password. While
  there are no users every request about to insert one has counted zero, so its
  user will be a ROOT (`FirstAreRoot`). Tokens logged out are revoked and nothing
  un-revokes them (`OutInv`). Where an entity differs from the row its save
  compares with, it was sent the difference or was overtaken (`EditsInv`).
* `Catalogue`: a brand that is deleted stays so until an update that says
  `deletedAt: null` writes it, and a category for good (`DeletionsStay`). Such an
  update takes the brand off what is `gone` for the calls under way. So what is
  still gone since a call came is deleted when the call looks: brands and categories
  it has found, joined or looked up are not among them (`SawLive`); of a create only
  the relation its body names itself may be.
  Of a column it writes, the table then holds either that or what another call
  wrote after the load. Where the entity differs from what it compares with, it
  was sent the difference, has lost the relation, which the save does not survive,
  or was overtaken (`Explained`); `Store` tells every request that holds the
  product which columns it changed, up to the moment they compare. Images stay
  because a save whose entity lacks an image it loaded is not allowed at all, and one
  whose entity has an image it did not load had read it as the product's
  (`WriteChanges`).
* `BucketStorage`: a call past its check or creation of the bucket knows that there
  is one, and nothing deletes it; a bucket without a policy has a call about to set
  it, or was abandoned. A move about to remove its source made its copy from the
  content the source still has. For a listing: what is neither still to come, nor
  touched, nor below another directory has been sent, and what was sent stood for a
  name that is there, or was and has been touched. Each is inductive given the
  types, one step per action.
* `Queries`: `checkPermissions` sees the query as it was sent and the service what
  it was transformed to. `NarrowFilters` shows, for every query, that what passes
  the check and the validation transforms to the narrow values, whatever its form;
  `NarrowSelects` that these select public rows only, joined to public ones, since
  a condition on a row that was not joined is not true, and to images of the product
  that are not deleted; `PagesType` that a page is
  of selected rows. The second query has the conditions again, so rows that changed
  since the first are held to them anew.
* `Queries`, the answer (`ReadingInv`): as long as no row changes, the page is a
  stretch of an order of the rows selected, and every row of the answer has as many
  before it as its place says (`InPlace`). The second query need not choose the order
  of the first among rows that compare equal: `ReadAgain` counts, with the rows before
  the page and those of the answer as one list, that their places are right
  nevertheless. It needs no law of the order but that no row comes before itself.
  A count taken from a page that is not full is the count (`CountReading`).
  `SelectedIsWanted` shows, kind by kind, that joins and the place of `withDeleted()`
  select what the filters say, but for the queries of `AnsweredDifferently`.
* `ImagePayload` (`PayloadInv`): what each stage has made of the request. The files
  taken are the first the client sent; the parsed metadata is what was sent; past the
  pipe it is the transformed list and every element fits (`GoodList`); the items are
  those of `Joined`. `First` is the least number with a message, so a refusal's message
  is that of a condition that holds while those before it do not; each condition is
  traced back to what the client sent (`PipeRefuses`, `MapRefuses`, `CauseIsDefect`). A
  file is in one item because the numbers that the metadata names differ, and those it
  does not name are counted through once (`NthInOrder`). For
  `OnlyWebpIsMisjudged`, a cause and well-formedness exclude each other
  (`CauseIsDefect`), the only other refusal is that of a declared type that the filter
  does not allow (`DeclaredIs`), and what passes all stages is well-formed
  (`PassedIsWellFormed`).

Every invariant and every action property of a passing run is proved, but for
`ExcessBounded`. Model-checked only: that bound, which is stated for two calls; the
liveness properties (`Answered`, `MovesEnd`, `TakesEffect`), since neither fairness
nor ENABLED is in the provers' reach; and the violations. Of the inductive
invariants, TLC checks `TurnsInv` in a run; `SettleInv`, `PayloadInv` and
`ReadingInv` hold in the runs ImagesSerial, ImagePayload and Queries when they are
added there; `UploadInv` and `SerialInv` are checked through the properties that
follow from them.

## What the checks found

Each is a run in which TLC finds the property violated.

* **ImagesRacingMoves.** Moves of two calls about one image run side by side. One
  copies a file to where the other is about to delete it, and the image is left
  without the file.
* **CategoryCycle.** `update` leaves the closure table as the creation wrote it.
  Move A below B, then B below A: the second move is let through, though the
  error it should meet is "cannot move element to its descendant".
* **ImagePayloadWebp.** `listDisjunctionStr` words the message of a refusal by taking
  the last type off the list that the filter then uses. So `.webp`, which the list,
  the expression beside it and the message name as allowed, is refused.
  `OnlyWebpIsMisjudged` and `RefusedForACause` name this exception and show it is the
  only one.
* **QueriesDocumented.** `AnswersAsDocumented` has four parts. TLC stops at the first
  state that violates one of them; each is violated when it is checked alone.
  * `DeletedProductsStayOut`: `withDeleted()` holds for a whole query, so asking for
    deleted brands or categories also brings products that are deleted, though
    `deleted` is `not_deleted` by default (`find-products.request.dto.ts` 47).
  * `DeletedRelationsStayOut`: a deleted brand or category is not joined, and
    `deletedAt IS NULL` is true of what is not joined: with both active states asked
    for and no ids, it counts as not deleted (55, 63 of the same file).
  * `ParentsAreFound`: with null among the `parentIds`, categories below a deleted
    parent of the list are not found; without it they are.
  * `InactiveImagesStayOut`: the joins of images have no condition on `active`, so
    visitors are shown the rows, paths included, of private images (the files
    themselves are not in the public directory). `PublicSeesPublic` is about
    everything else.

  `AnsweredDifferently` is the first three, each an operator of its own;
  `AnswersAsked` is about every other query.

One more claim does not hold, and a passing run says by how much: "A product can have
a maximum of ... images" (`product-image.service.ts` 434). The number of images is
checked on rows read before the uploads, so two calls that both read before either
saves exceed it together: `CountWithinMax`, which holds in ImagesSerial, is violated
when it is added to ImagesConcurrent. `ExcessBounded` of that run bounds the excess by
the new files of one list.

Seen in the models, where nothing in the repository says what should hold, or
where it says that it does not yet:

* Uploaded files stay when a later item, the thumbnail or the save fails (the
  TODO at `product-image.service.ts:228` asks for transactions).
* Two calls about the same image mix columns: each writes those in which its
  copy differs from what its own `save()` loaded.
* A list whose second item names an image the product does not have is refused
  with 404 after the first item has started its moves (`product-image.service.ts`
  320, 367): the files move, the row is never saved, and goes on naming the old
  place.
* An update of a user or of a product writes all the columns it read that differ
  by then. A change of the email undoes a deactivation made between its read and
  the load of its save; an update of a product undoes its deletion the same way.
  `ChangesAreAsked` of `Accounts` and of `Catalogue` name exactly these cases.
* An update of a product that races a `bulkSave` adding an image to it fails with
  an internal error: TypeORM takes the image for removed.
* A product whose brand or category was deleted can only be updated by a call that
  names a new one.
* `create` and `update` of a product end with a query for what they answer; if that
  fails, the call is refused though it was carried out.
* A body that creates a product may name a brand or a category that was deleted, or
  images of another product; one that updates a brand may undo its deletion. Only
  staff can send them, and `RefersToLive`, `ImagesStay` and `BrandsComeBackAsAsked`
  name each.
* `copy` passes MinIO a source without its bucket. The model takes it for a name in
  the bucket, as the tests' double does.
* `move(name, name)` would delete the object; nothing calls it so. The store client
  gives names that end in `undefined` to names with an empty extension.
* Who is not staff sees inactive parents in `category.find`, which a TODO in the
  code mentions, but not in `findById`.
* Rows that compare equal may come on two pages or on none. A total that is taken
  from the page is wrong when a row changes between the page and its rows.
* A query that is the JSON value `null` ends in an internal error for callers who
  are not staff.
* The stale closure table also refuses moves that are legal: a category detached
  from another still counts as its descendant.
* `main` is limited to one image in a list, not in a product.
* Two registrations that race for the first user both become ROOT.

## What is not modelled

* Names, descriptions, file contents, wording of errors, paging links: data no
  property tells apart. Errors of image payloads are modelled as field and
  constraint.
* The bodies of the calls that write products, brands, categories and users: their
  DTOs are checked by decorators before any query, and the services get values the
  decorators let pass. `Validators` has those of image metadata. Properties that a
  DTO does not declare are modelled where they get past the service: in the bodies
  of products that are created and of brands. The other services pick what they use.
* `generateUniqueObjectname`, which puts a name together of a UUID and an extension.
* Signing and verifying of access tokens, encryption, thumbnails: libraries. What
  can fail in them fails in the models.
* Time: refresh tokens expire as an outcome of `Fail`; the parser of durations
  (`system/utils/time`) is used once. The lifetime it returns is in milliseconds and
  signed as seconds (`token.service.ts` 50), which only a model with a clock shows.
* Configuration, start-up, Swagger, tests and test doubles. The MinIO double
  (`src/__mocks__/minio.ts`) was read to see what the store is expected to do.
* `bulkCreate` and `getChildrenIds` of the category repository, and the decorators
  of files, which only tests call; `Id` and `IdList`, which nothing uses; the bulk
  module, which is empty.

TypeORM, the database, MinIO, multer and Node are not under `src/`; what the models
say of them (`Merged`, `LoadRow`, `Detached`, `ClosureRows`, `Ancestors`,
`Descendants`, `Sorted`, `Restart`, ...) is marked external in `PROJECT.json`.

## The plan

Done, in the order of importance:

1. `ProductImages` with `ImageGallery`: two stores without a common
   transaction, work left in the background, crashes.
2. `CategoryTree`: the tree stored twice.
3. `Accounts`: check-then-act on users, and sessions.
4. `Catalogue`: products and brands, stale saves with relations.
5. `Queries`: what is read, by whom, between what changes.
6. `BucketStorage`: the object store and its bucket.
7. `ImagePayload` with `Validators`: one request through five validations.

Next:

8. `BucketStorage` as a refinement of the store that `ProductImages` assumes.
9. How far the limit of images can be exceeded by any number of calls
   (`ExcessBounded` is checked for two).
10. The lifetime of refresh tokens, with a clock.
