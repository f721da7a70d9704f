# A TLA+ development for Gracie

Gracie is a shared grocery list. People have accounts; a *room* (a "house" in
the user interface) has members; a room has lists, a list has items. The server
is a Go program over MongoDB (`src/backend`), the client a React application
(`src/frontend`). This directory holds TLA+ modules that model the server's
state and its requests, configurations that model-check them with TLC, and
theorems about them that TLAPS checks. `PROJECT.json` relates every definition
to the lines it models.

Contents: 1 inventory, 2 modules, 3 runs, 4 proofs, 5 findings, 6 what is not
modelled, 7 plan.

## 1. Inventory

The server is one process. `net/http` runs each request in a goroutine; the
authentication middleware reads the user document of the API key, puts it in the
request's context, and the handler calls a service, which makes a sequence of
database calls. There is no lock in the process: requests meet in the database
only. A single `UpdateOne` is atomic; some sequences of writes are grouped by
`WithTransaction`. No transaction reads: what a transaction acts on was read
before it. That is where nearly everything that can go wrong here goes wrong.

| component | state | operations | met by |
|---|---|---|---|
| Room membership, sharing, deletion votes (`room_service.go`, `user_service.go`, `room_repo.go`, `user_repo.go`) | `users.room_id`, `rooms.member_ids`, `deletion_votes`, `share_token` | create, share, join, vote, cancel, delete account, settings | itself (other requests), lists through the cleanup goroutine |
| Transactions (`tx.go`) | - | run a closure in a session, or call by call where sessions are not supported | every service that groups writes |
| Authentication middleware (`middleware/auth.go`) | - (reads `users`) | key to user document | every request |
| Lists (`list_service.go`, `list_repo.go`) | `lists`: room, votes, `is_deleted`, display fields | create, read, update, vote, cancel; cleanup after a room goes | rooms: membership is checked, `member_ids` is read for the tally |
| Items (`list_service.go`, `list_item_repo.go`) | `list_items`: completion, archive, star, category | create, read, update, archive, delete, pantry | lists, categorization |
| Item order | `list_items.order`, a float64 | append, move, renumber | the client's drag and drop |
| Accounts (`auth_service.go`, `user_service.go`) | username, password, API key hash, lookup and expiry | register, log in, change password, update profile | middleware, client |
| Categorization (`services/categorization`) | `category_index` | look up, ask the chain of classifiers, write through; seeding at start | items |
| Encryption key file (`crypto.go`) | a file | create on first start, load | accounts |
| Web client (`AuthProvider.tsx`, `ListPage.tsx`, ...) | stored key, cached queries | verify the key, log in, reorder optimistically | the API |
| Embedding and keyword classifiers | a table of anchors, per release | vote of the nearest anchors; first match of a word | the categorization chain |
| Input parsing, configuration, DynamoDB and in-memory stores | - | - | see section 6 |

What is hard in it, and what makes each component correct:

* *Rooms.* Two documents hold each membership (`room_id` and `member_ids`) and
  must agree. A deletion must have everybody's consent, must not be forgotten
  once everybody has voted, and must leave nobody with the `room_id` of a room
  that is gone, since such a user can neither create, join nor leave. The hard
  part is what happens between a read and the transaction based on it: a vote, a
  join, the end of an account.
* *Lists.* The members a list vote needs live in another collection than the
  votes; the room can go at any point of a list request. No decision may be
  lost, and no list may outlive its room unnoticed.
* *Item order.* A move writes one number and relies on there being a number
  between two others. It must not disturb other items, and must put the item
  where it was dropped.
* *Accounts.* A password change must end the old key, a log-in under way must
  not bring it back, one username belongs to one account.
* *Items.* Documents are edited one field at a time by requests whose checks are
  old. What is acknowledged must have been written, a request that is turned
  down must not have written before, and no item may vanish from sight.
* *Categorization.* A cached answer must be one the anchors gave, a new release
  must replace what an old one left, and a failing cache must not fail an item.
* *Key file.* Whatever happens while it is written, no password may be encrypted
  with a key that is not on file.
* *Client.* The verification of an old key must not end a new session, a failed
  reorder must not undo other changes.

The `hazards` of `PROJECT.json` list these one by one, at their lines.

## 2. Modules

| module | models | built on |
|---|---|---|
| `RoomStore` | the users and rooms collections, each repository write, each transaction closure | - |
| `Rooms` | each room endpoint as one atomic action: the abstract specification of the room component | `RoomStore` |
| `RoomRequests` | the same endpoints, one database call per action, any number of requests in flight, failures between any two calls | `RoomStore`; refines `Rooms` when requests do not overlap |
| `ListRequests` | list creation, list votes, the cleanup goroutine, one database call per action, next to the actions of `Rooms` | `RoomStore`, `Rooms` |
| `ItemOrder` | the order of one list's items, whole requests, with the rounding of float64 | - |
| `ItemRequests` | the same requests, one database call per action, overlapping | `ItemOrder` |
| `Categorization` | the chain of classifiers, the category index, its seeding at each start | - |
| `Items` | items, list fields and room settings, edited field by field; the pantry | `Categorization` |
| `Accounts` | registration, log-in, password and username change, deletion, one database call per action, any number of requests in flight | - |
| `AccountServer` | the same on a server that starts, crashes and loses its key file | `Accounts` |
| `RoomsProofs`, `RoomRequestsProofs`, `ListRequestsProofs`, `ItemOrderProofs`, `CategorizationProofs`, `ItemsProofs`, `AccountsProofs`, `AccountServerProofs` | theorems; `ItemOrderProofs` is about `ItemOrder` and `ItemRequests`, `CategorizationProofs` holds the lemmas for `ItemsProofs` | the module named, `TLAPS` |
| `MC...` | symmetry sets and ranges for TLC | the module named |

### RoomStore and Rooms

`account`, `roomId` are fields of user documents, `room` (does the document
exist), `members`, `votes`, `shareToken` fields of room documents. Ids are never
reused (`ids.NewID`), so a document goes from *unused* to existing to *deleted*
once. A write by a repository method is an operator that gives the new value of
the field, including what the filter does: `SetRoomID` has no effect on a
deleted user, `VoteFor` none on a deleted room, `SetShareToken` none for someone
who is not a member, and none of them reports that. A closure passed to
`WithTransaction` is one action (`JoinRoomTx`, `DeleteVotedRoomTx`, ...): the
shipped compose file starts MongoDB as a replica set, where the closure is atomic and
conflicting closures are retried.

An action of `Rooms` is one request from authentication to response. A request
that ends in an error before it writes changes nothing and is not an action;
`VoteDeletionInterrupted` is the one request that can fail after a write outside
a transaction.

Simplifications. Share tokens are drawn from a small set and may repeat, as the
code's five characters may. `GetByShareToken` and a join by room id are one
action: any room with the token. Display names, descriptions and timestamps are
left out here; `UpdateRoomSettings` is in `Items`. `POST /users` makes a user without
a username, of whom the unique index admits one; the model lets every user be
made that way, taking it that a username was set in between.

### RoomRequests

`req[q]` is what the goroutine of request `q` still has to do (`step`) and what
it has read: the user document (`own`), the target (`target`, `solo`), the
member list of the tally (`seen`). `Begin` is the middleware's read. Then one
action per database call: `JoinReadTarget`, `JoinReadOwn`, `JoinCommit`;
`VoteWrite`, `VoteTally`, `VoteCommit`; `DeleteReadRoom` and one commit for each
of the three ways to delete an account. `Fail` ends a request anywhere: a failed
call, a client that is gone (the context is the request's), a check that turns it
down, a server that stops.

`hasVoted` and `excused` are history variables that only properties read.
`excused` marks the rooms for which nobody may be left to count: a member left by
deleting the account, or a voter's request failed between its vote and its
decision.

### ListRequests

Composes with the room component at the level of whole requests (`House ==
INSTANCE Rooms`), so that the interleavings it explores are those of list
requests with each other, with the cleanup and with everything the rooms can
do. `EndMembership` starts a cleanup (`due`) for every room a vote or the end of
an account deletes; `ChangeMembership` holds the operations that start none, a
join that deletes the joiner's solo room among them. A list request
goes through `EnsureRoomMembership`, `ReadList`, `AddDeletionVote`,
`ReadMembers`, `FinalizeDeleteIfVotedByAll` (or `PutList`, or
`RemoveListDeletionVote`). The cleanup goroutine reads the lists of the room
(`CleanupRead`) and removes them one by one (`CleanupRemove`); it may die
(`CleanupFails`). `everMembers`, `excused` and `stranded` are history.

### ItemOrder

One list, requests one after the other; `doc` and `order` are fields of the item
documents. Orders are integers on the grid of a small floating-point format, so
that what float64 rounding does at nanosecond clock values happens at values TLC
can enumerate. In the code orders start at `UnixNano()`, about 1.7e18, where
float64 values are 256 apart, and items are appended 1000 apart, which rounds to
1024, four spacings. After a renumbering orders are multiples of 1000, where the
spacing is far below the epsilon 1e-7, so that the only limit is epsilon. The
model keeps exactly these relations: from `Coarse` on, only multiples of `Ulp`
can be represented and a tie rounds to even; `Step = 4 * Ulp`; below `Coarse`
all integers can be, and gaps of at most `Epsilon = 1` are too small to split.
`Step` over `Epsilon` is 8 instead of 1e10: renumbering comes sooner in the
model than in the code, which only adds cases. Membership checks are left out:
they turn a request down and change nothing.

### ItemRequests

What a request is going to write is decided in `ListByList`, from the list as it
is then: `todo` is one update for an append or a plain move, and for a
renumbering one for each item and one for the item moved. `Shown` is what the
query returns, the items in order. `PutItem` and
`UpdateOrder` carry them out, one per action, whatever others do in between; an
update of an item deleted since matches nothing and goes on. `shown`, `read`,
`goal` (what `ItemOrder` says the move does) and `touched` (what others have
changed meanwhile) are history. The client sends as neighbours two items that
follow each other in what it shows (`onDragEnd` in `ListPage.tsx`), which
`BeginMove` asks for; whole requests (`Next`) take any two different neighbours,
other than the item, in any order.

### Categorization

A server has keyword matching only, an embedder before it, or an index before
both (`server`), and a `release`, which is how many rows of the anchors' table
it has. `Start` seeds the index (some of the anchors if the bulk write
fails), `Stop` ends everything in flight. A categorization goes `lookup`, `embed`,
`upsert`, `answered`; a failed look-up counts as a miss, a failed upsert is only
logged, an embedder that fails or finds nothing similar leaves the answer to
`Keyword` and then to `General`. `GroceryAnchors` is an excerpt of the table in
its order (`anchors.go:304-318`): three rows of one category and one of another,
"ice cream", whose neighbours outvote it and which "cream" hides from keyword
matching. `Similarity` is a
constant, as it comes from an external model; `Nearest` and `KnnVote` are what
the code computes from it, the tie-break by name included. `answers`, `missed`,
`ran` and `seeded` are history.

### Items

One room, its lists and its items. `content` holds the fields that requests
write; `todo` is the set of fields a request has still to write, `NextField` the
one of them that the code comes to first. Each is one update (`WriteField`),
with the filter of that update (`Matches`): the item there, the list live, the
user still a member. A filter that matches nothing is not noticed. When nothing
is left to write the document is read again and the request answered (`Reread`).
What clients ask for comes from `Mixes`; the module assumes only what the
decoder of a handler lets through, fields that the endpoint knows. `Validated`
is what the handlers look at before, `Refuses` what `UpdateList` looks at when
the field's turn comes. Creation asks `Categorization` where no category is
given and inserts the item whatever has become of the list. Clearing a list goes
document by document, as an `UpdateMany` is atomic for each document only:
`unseen` are those it has not come to. Memberships and lists come to an end by
`EndMembership` and `EndList`; `Rooms` and `ListRequests` say how. `lost` and
`reopened` are history.

### Accounts

`username`, `password` are fields of the user document, with a value of their own
for an absent field. An API key is 32 random bytes, never made twice, and opens
nothing once it is overwritten: so for `api_key_hash` and `api_key_lookup` the
module keeps only `keyFor`, the password that was proved (or just set) by the
request that stored the key. It is `NoPassword` for the key that comes with
`POST /users`. Hashing and encryption keep apart what differs, so a stored
password stands for itself.

`RegisterFind`/`RegisterPut`, `LoginFind`/`SetAPIKey`,
`ChangePasswordRead`/`UpdatePasswordEnc`/`SetAPIKey` and
`ProfileFind`/`UpdateUsername` are the calls of the four operations; the other
requests are one action. A look-up of a username that fails counts as one that
finds nobody, as in the code: the request goes on to its write. The unique index
(`IndexRefuses`) acts at the write, on an absent username as on any other, and
`Fail` ends a request whose write it turns down, whose password is wrong or
cannot be decrypted, or that is cut off. `overtaken` is history: the accounts
left with a key for another password by a request that stored its key after the
password had changed, or by a change interrupted between its two writes, until a
key is stored for the password in force.

### AccountServer

`keyFile` is what the key file holds, `key` what the running server has loaded,
`sealed` the key each stored password is encrypted with. `LoadOrCreateKey` reads
the file if it can and it is long enough; otherwise it makes a key and writes it
in place, which may end with the old file, a short one or the new one. `Serve`
is any step of `Accounts` on a server that runs, provided that a password that
is compared can be decrypted: one that cannot fails its request.
`Stop` is a crash or a shutdown that has waited long enough. `lost` is history:
keys that were on file and are no longer.

## 3. Runs

Deadlock is not checked: users may stop sending requests, and ids and items
run out.

| run | configuration | distinct states | shows |
|---|---|---|---|
| `rooms` | 3 users, 4 rooms, 2 tokens | 124,765 | `TypeOK`, `RoomLink`, `VotesFromMembers`, `DeletedByConsent`, `DetachedOnlyByVote` |
| `room_requests` | 2 users, 2 rooms, 1 token, 2 requests in flight | 1,654,699 | `TypeOK`, `MemberOfOwnRoom`, `NoLostFinalization`, `DetachedOnlyByVote`, `DanglingExplained`, `GhostsExplained` |
| `room_requests_serial` | 2 users, 3 rooms, 1 request in flight | 20,009 | refinement of `Rooms` |
| `room_requests_live` | 2 users, 1 room, 2 requests | 65,236 | `UnanimityResolves` |
| `room_requests_dangling` | as `room_requests` | violated | finding 1 |
| `list_requests` | 2 users, 2 rooms, 1 list, 2 list requests in flight | 921,740 | `TypeOK`, `NoLostListFinalization`, `ListVotesFromRoom`, `OrphansExplained` |
| `list_requests_live` | 2 users, 1 room, 1 list, 2 list requests | 172,985 | `CleanupCompletes`, `ListUnanimityResolves` |
| `item_order` | 3 items, orders from -8 to 56; 2 requests in flight from 7 lists on | 748,999 | `RequestsTypeOK`, `MovesReachTheirGoal`, `HalfRenumberedInOrder`, `OthersKeepOrder`, `WithinNeighbours`, `EndsAreReached`, `NewItemsLast` |
| `item_order_collision` | 3 items, whole requests | violated | finding 2 |
| `accounts` | 2 users, 2 usernames, 2 passwords, 2 requests in flight, 2 encryption keys | 628,518 | `TypeOK`, `ServerTypeOK`, `UsernamesDiffer`, `KeyForPasswordInForce`, `PasswordsReadable` |
| `accounts_signup` | as `accounts`, without the key file | violated | finding 3 |
| `items` | 2 users, 2 items, 1 list, 3 descriptions, 2 releases, 2 requests in flight, 3 mixes of clients | 1,192,345 | `TypeOK`, `AnchorsInForce`, `EntriesExplained`, `OneAnswerPerRun`, `AcknowledgedHolds`, `LateRefusals`, `HiddenItemsTicked`, `NothingVanishes` |

**Rooms.** Whole requests keep `room_id` and `member_ids` in agreement
(`RoomLink`), keep votes of members only, and delete a room only when all
members but the one whose request does it have voted (`DeletedByConsent` covers
the vote, the join and the end of an account alike). `DetachedOnlyByVote` had to
be weakened to be true: a user who joins from a *shared* room stays in the old
room's `member_ids`, so that the deletion of the old room clears the `room_id`
the user has in the new one. Three users are needed for a room with a leaver, a
stayer and a joiner; four rooms for three solo rooms and one more.

**Overlapping requests.** `RoomLink` and `DeletedByConsent` do not survive
overlap; `room_requests` checks what does. If a `room_id` names an existing room
that room lists the user; nobody loses a `room_id` without having voted in a
room that is deleted; and a unanimous vote always has a request under way that
will act on it, which rests on `VoteDeletion` writing before it reads. What breaks
`RoomLink` is named by two action properties. `DanglingExplained`: a `room_id`
comes to name a room that is gone only where a join and a deletion overtake each
other; the room to join went after it was read (`room_service.go:62`), or the user
joined after the members were read for the tally of a vote (`:98`), for the
solo room of somebody else's join (`:70`) or for the end of the only other
member's account (`user_service.go:112`). `GhostsExplained`: a room comes to list
somebody whose room it is not, and to wait for a vote that person cannot cast
there, only by a request for a deleted account, by one that acts on a user
document out of date (two `POST /rooms` of one user), by a join out of a shared room,
or when the deletion of a room that the user has left in that way clears the
`room_id`. The exceptions are what the code has; that there are no others is the
content. Every
hazard here is a pair of requests, hence two in flight; two users suffice for two
voters, for a voter and a joiner, and for two requests of one user. More of each
is what the proofs are for.

**Serial refinement.** With one request in flight, `RoomRequests` implements
`Rooms!Spec`. A vote still being counted is not yet visible (`PublishedVotes`):
the request's effect is taken to happen when it ends, with its deletion or
without, and `VoteDeletionInterrupted` is what a failure maps to. Three rooms
allow two solo rooms and a third created after a deletion.

**Lists.** `NoLostListFinalization` says for lists what `NoLostFinalization`
says for rooms; here the member list and the votes are in two collections, and it
holds because the votes are checked in the filter of the finalizing update
itself. `ListVotesFromRoom` says that checks made on a stale user document never
record a vote of a person who was not in the room. `OrphansExplained` names the
only ways a list outlives its room: the room was dissolved by a join, the list
was inserted after the cleanup had looked, the cleanup failed.

**Liveness.** `FairSpec` assumes weak fairness of each request's next call
(`Step(q)`) and of the cleanup's next call (`Clean`): the Go scheduler runs
every goroutine that can run, and the driver returns from every call, with a
result or an error. It assumes nothing of arrivals, as nobody is bound to send a
request, and nothing of `Fail` and `CleanupFails`, which may strike or not. The
liveness runs have one room and no symmetry; a second room adds states
but no party to the vote in the first.

**Item order.** No request disturbs the order of the items it is not about,
renumbering included (`OthersKeepOrder`); a moved item never goes past a
neighbour, and is strictly between its neighbours below `Coarse`
(`WithinNeighbours`); appending puts an item last, moving to an end gets it
there (`EndsAreReached`), also once orders are negative. Orders from one step
below zero to two steps beyond the clock hold all three regimes: fresh orders,
renumbered ones, and mixtures of both. Between 24 and 40 the range
(`OrderRange`) has only 32. Requests that would leave the range are cut off.

**Overlapping order requests.** The same run has the requests call by call. To
keep it within reach they begin at seven lists (`WatchedOrders`), which are those
the calls tell apart: empty, one item, two fresh or renumbered ones, three fresh
ones, and gaps too small to split on either scale; whole requests start when
nothing is in flight, deletions at any time. `MovesReachTheirGoal`
says that what a move does call by call is what `ItemOrder` says it does at once,
on every item no one else has written; `HalfRenumberedInOrder` that a renumbering
that is under way, or ended half-way, does not reorder the items, as long as it
moves them down from where they were: it holds because the first item, whose new
order is the lowest, is written first. `NewItemsLast` says that an
append is shown after everything that was read for it and left alone since. Two
appends that read the same maximum get equal orders, and nothing is claimed of
the order between them: `created_at` decides, to the millisecond.

**Accounts.** `UsernamesDiffer` holds although registration and profile changes
look a name up and write it later: the index decides. `KeyForPasswordInForce`
says what a password change is for, ending the sessions of whoever knew only the
old password, as far as the code achieves it: the stored key was given for the
password in force, unless a change has yet to store its key, was interrupted
before it did, or another request stored a key for an earlier password after it.
Those exceptions are the two hazards of `ChangePassword` and `Login`
(`auth_service.go:109` and `:85`), and the property says that there is no third.
Two requests are a log-in against a change, two changes, two registrations of a
name; two users and names are a clash and a way out of it.

**The key file.** `PasswordsReadable` says that a server that runs can decrypt
every stored password, however often it has crashed while the file was written,
unless a file that held the key was lost or replaced (`lost`): no password is ever
encrypted with a key that is not on file. It rests on the server not starting when it
cannot write the file. Two keys are one to lose and one to go on with;
a third would be lost like the first.

**Items.** A behaviour of the `items` run is about one of three `Mixes`, as the
documents they are about have nothing to do with each other: new items and
deployments (categories), shopping on a list that may be voted out, and edits of
lists and the room that may come to their end. `AcknowledgedHolds` says that
what a request is answered 200 for is in the document, with the three exceptions
the code has: a concurrent writer of the field, a list voted out and a
membership ended under the request. `LateRefusals` says that only icon and notes
of a list can be refused after something was written. `HiddenItemsTicked` and
`NothingVanishes` are about items un-ticked and lists cleared in any order: an
item of a live list is shown there, open ones among those to buy, or it is in
the pantry; there an open one is only if it was un-ticked after it had been
cleared. `AnchorsInForce`, `EntriesExplained` and `OneAnswerPerRun` are what the
index is for, over deployments of two releases, of which the later has one
anchor more, "ice cream", for which the earlier had stored the vote of its
neighbours. One list and two items suffice, as every property is about one
document and the two requests that meet there.

**Mutants.** Each property of each passing run has a variant of the code,
defined just before the definition it replaces (`..._Upsert`, `..._AnyRoom`),
that makes TLC report the property violated.

## 4. Proofs

TLAPS proves every safety property of the passing runs for all values of the
constants: any sets of users, rooms, tokens, lists, requests and descriptions, any
finite set of items, any similarities, any clocks and any spacing of the
floating-point grid. What is assumed of the constants is named in the module that
declares them, and TLC evaluates it in every run: that the values for *none* and
*absent* are not among the things they stand apart from; and for two modules more.
`ItemOrder` assumes that ids are natural numbers (the order in which items were
created), that there are finitely many, and of the grid what section 2 says of
float64: `Step = 4 * Ulp`, an epsilon below `Step`, clocks that are beyond `Coarse`
and can be represented. `Items` assumes that clients send fields an endpoint knows.

**Rooms.** `RoomsProofs`: `TypeCorrect`, `RoomLinkHolds`, `VotesFromMembersHold`,
`ConsentHolds`, `DetachedOnlyByVoteHolds`. The inductive invariant is the
conjunction of the three state properties. None is inductive alone: the
deletion of a room needs `RoomLink` to know that no `room_id` outside
`member_ids` names it, and `RoomLink` needs types. The two action
properties follow from the invariant, one lemma for each endpoint.

**Overlapping room requests.** `RoomRequestsProofs`: `TypeCorrect`,
`MemberOfOwnRoomHolds`, `DanglingExplainedHolds`, `GhostsExplainedHolds`,
`DetachedOnlyByVoteHolds`, `NoLostFinalizationHolds`.

* `Typed` strengthens `TypeOK`: the rooms a request in flight has noted down
  were created once (`RequestsOK`), and so was every room a `room_id` names
  (`RoomIdsCreated`). Without it a new room could come into existence under an
  id that a stale request or user already holds, and the user would not be
  among its members.
* `ReadingsOK` says how far out of date a request's readings can be: a user with
  an account is still in the room the request has read as the user's own, if it is
  there; that room is never the one to be joined, and it is the only one deleted as
  solo. With `MemberOfOwnRoom` it is inductive, as nobody with an account ever
  leaves a live room (`StoreStep`). `DanglingExplained` and `GhostsExplained` follow
  by cases over the steps that write a `room_id` or end a room: it excludes a joiner
  who deletes the target, and makes the room a join leaves the one in `own`.
* `VotesRecorded` adds that the votes in a room, and the member list of every
  deletion about to commit, have been voted; `DetachedOnlyByVote` follows. It
  is inductive because a deletion is only started by a tally that found all
  votes (`VotedTxComesFromTally`).
* `NoLostFinalization` is inductive together with `MembersRemain`: a room loses
  its last member only through the end of an account, which excuses it. The two
  cases are that the votes become unanimous by a vote, whose request is then at
  its tally (`VotesOfLiveRoom`), and that they already were, so that a request is
  counting and goes on (`CountingGoesOn`).

**The refinement of `Rooms`.** `OneAtATime`: with one request in flight, the
calls of `RoomRequests` implement `Rooms!Spec` under `PublishedVotes`. That there
is one request is a hypothesis of the theorem and has to be: finding 1 is a
behaviour of two requests that no whole requests have. The invariant besides
`Typed` is `AloneOK`, that what the request has read is still so; it survives the
arrivals of accounts, the only steps of others (`AloneAfterOthers`). Then each call
is a step of `Rooms` or a stutter: reads and the write of a vote stutter
(`ReadSerial`, `VoteWriteSerial`), a commit is the request (`CommitSerial`), the
end of a vote publishes it, with the deletion (`VoteCommitSerial`), without, or as
the interrupted vote (`VoteEndsSerial`). With `RoomsProofs`, a server that
handles one request at a time has all the properties of `Rooms`.

**Lists.** `ListRequestsProofs`: `TypeCorrect`, `VotesFromRoom`,
`NoOtherOrphans`, `NoDecisionLost`.

* `Typed` adds to `TypeOK` that a request past its membership check works for
  somebody who has been in its room, on a list of that room, and that a tally to
  come counts nobody who is not in the room (`RequestsOK`); that a list
  belongs to a room that was created, with votes of people who have been in it
  (`ListsOK`); and that a live room has a member. The last is what makes an empty
  tally impossible, the one case where votes would be unanimous without a vote.
* Of the endpoints of the room component the proofs use `StoreKept` (rooms are
  created once, never return and are never left empty) and `History` (what
  they record), shown once for all of them (`NextKept`). For the orphans it
  matters besides that a room's end starts its cleanup (`RoomsGoneExplained`).
* `OrphansExplained` is inductive with types: a room's end starts a cleanup, a
  cleanup notes the lists it has read, and `stranded` has what escapes both.
* `NoLostListFinalization` follows from `DecisionUnderWay`: as long as the votes of all members
  are in, a request is at its tally or about to finalize. The latter could still
  finalize nothing if it counted members who have left; it counts
  none, by `RequestsOK`, except for lists that a leaver has excused.

**Item order.** `ItemOrderProofs`, about `ItemOrder`: `TypeCorrect`,
`OthersStayInOrder`, `MovedWithinNeighbours`, `EndsReached`; about `ItemRequests`:
`RequestsTypeCorrect`, `GoalsReached`, `HalfRenumberedKeepsOrder`,
`NewItemsComeLast`, and the three of whole requests again
(`RequestsLeaveOthersInOrder`, `RequestsMoveWithinNeighbours`,
`RequestsReachEnds`), from every state that overlapping requests leave.

* For whole requests the invariant is that every order can be represented
  (`OnGrid`). The work is in the operators: rounding is monotonic and leaves what
  can be represented alone, so a midpoint is never beyond the numbers it is between;
  the rank of an item counts those before it, so that renumbering puts items one
  `Step` apart in the order they had.
* For overlapping requests a plan (`todo`) is what matters. `PlanOK` says
  of what is still to write that items come in the order read, after all those
  written already, that the last update of an item is its goal, and that orders
  already given out are below those not yet replaced; the last makes a half
  renumbered list keep its order. `ProgressOK` ties it to the list: an item that no one else
  has touched has its goal when its updates are done and the order read before.
  `CreateOK` is the same for an append. That `ListByList` makes such a
  plan is shown for the one update of a plain move (`PlanOne`) and for a renumbering
  (`PlanAll`), that a call keeps it, by `TailPlan`; what others do is in `touched`.

**Items and categories.** `CategorizationProofs` has the lemmas about the chain of
strategies and the steps of the cache, `ItemsProofs` the theorems: `TypeCorrect`,
`AnchorsStayInForce`, `EntriesStayExplained`, `OneAnswerInARun`,
`AcknowledgedStays`, `RefusedInTime`, `HiddenStayTicked`, `NothingOutOfSight`.

* `CategorizationInv` is `AnchorsInForce` and `EntriesExplained`, which need
  each other, and that answers of this run are what the server's strategies give now
  (`AnswersExpected`): an entry, once there, decides; where there is none the
  chain does, and what it gives is what is about to be stored (`QueriesOK`). For
  `OneAnswerPerRun` this holds of the descriptions for which no call has failed.
* `RequestsOK` of `ItemsProofs` says that a request works on a document of its
  endpoint's kind, has written nothing before it is past its checks, nothing of a list before the
  name, and that all it has written and nobody has overwritten is as asked
  (`Written`). `AcknowledgedHolds` and `LateRefusals` follow when the last field
  is written or turned down.
* `HiddenItemsTicked` is inductive with types, and `NothingVanishes`
  follows from it: where an item is not in its list it is archived, and where
  it is archived the pantry has its description.

**Accounts.** `AccountsProofs`: `TypeCorrect`, `UsernamesDifferHolds`,
`KeyForPasswordInForceHolds`. `Typed` adds to `TypeOK` that a request past its
authentication or look-up has a user (`UserKnown`). `UsernamesDiffer` needs
nothing else: only an insert and `UpdateUsername` make a name, and the index
guards both. For `KeyForPasswordInForce` the interesting step is the one of a
request that witnesses the exception, a change between its two writes: it ends by
storing its key, or fails and leaves the account overtaken; every other step
leaves the witness where it is (`ChangingGoesOn`), and a key stored for another
password is the history's case.

**The key file.** `AccountServerProofs`: `ServerTypeCorrect`,
`PasswordsReadableHolds`, `ServerUsernamesDiffer`, `ServerKeyForPasswordInForce`.
`PasswordsReadable` needs two facts to be
inductive: a server that runs has the key on file, or the file is gone and the
key lost (`KeyOnFile`); and passwords are encrypted with a key that is, or was,
on file (`SealedFromFile`). That a password comes into being only where it is encrypted
is a case split over `Accounts!Next` (`NewPasswordsEncrypted`). The
other two carry the results of `AccountsProofs` over to a server that stops: what
is not a stop is a step of `Accounts` or leaves its variables alone
(`OutsideRequests`), and a stop between the two writes of a change is one more
way to leave an account overtaken (`StopKeepsKeys`).

**Only model-checked.** The liveness properties `UnanimityResolves`,
`CleanupCompletes` and `ListUnanimityResolves`: they rest on fairness, hence on
`ENABLED`, which is out of the prover's reach. Their safety halves are proved: a
request that will act on a unanimous vote is always under way. The properties of
the findings are violated. No module that a theorem is about has a `RECURSIVE`
operator; `GroceryAnchors` is the excerpt of the table also in the proofs, as the
code has one table and not any.

## 5. Findings

1. *A join during a vote strands the joiner* (`room_requests_dangling`).
   `README.md:54` promises that when all current members have voted "all users'
   `room_id` values are cleared". `VoteDeletion` clears those of the members it
   read before its transaction. One who joins in between keeps the `room_id` of
   a deleted room, and with it can neither create, join nor leave a room nor
   delete the account.
2. *Items collide long before the gap is found insufficient*
   (`item_order_collision`). `UpdateItemPosition` renumbers when a gap is below
   1e-7, but fresh orders are near 1.7e18, where float64 values are 256 apart.
   Two moves into one gap shrink it to 256; the midpoint of the third is one of the
   neighbours, nothing is renumbered, and the item is shown on the wrong side of the one it was
   dropped next to.
3. *Only one account without a username* (`accounts_signup`). `POST /users`
   (`README.md:44`) makes an account without a username, and the unique index on
   `username` (`user_repo.go:43-46`), which is not partial, takes the missing
   field for null. Until that account sets a username, the next `POST /users` is
   answered 500. `README.md:97` describes the partial index that avoids this for
   `api_key_lookup`.

## 6. Not modelled

* The fallback of `WithTransaction` for a server that is no replica set: the
  shipped deployment starts one.
* The model that turns a text into a vector (`hugot_embedder.go` and the library
  it calls): the similarities are a constant of `Categorization`.
* Parsing of quantities and normalisation of descriptions: pure functions on
  strings. Descriptions in the models are normalised keys. The chain hands the raw
  text to the keyword member and only the cache and the embedder normalise it
  (`keyword.go:23`, `caching.go:36`, `embedding.go:53`): that two raw texts of one
  key may match different rows is not in the model, and not claimed to be impossible.
* The DynamoDB repositories, which `main.go` does not wire in, and the in-memory
  store, a test double.
* Expiry of API keys: it only turns requests away. (`SetAPIKey` keeps an old
  expiry when keys are set not to expire, which `getEnvInt` does not allow.)
* The display name of an account, which one request writes and nothing reads.
* `normalizeItemForRead`, which splits quantity and unit out of the description of
  an item without a quantity, in the copy that is returned and not in the document;
  and which of several pantry entries of one description is shown.
* Items created within one millisecond, which the query may return in either order
  if their orders are equal.
* Moves whose neighbours are the moved item or one and the same: the server does
  not check for it (`list_service.go:414-424`), the client does not send it.
* Errors of `EnsureIndexes`, which `main.go` ignores: the unique indexes are
  taken to be in force, that of `category_index` excepted, whose error is not
  ignored.
* Several instances of the server, and a database call that is carried out after
  the server that sent it has crashed: a call that takes effect does so before
  `Stop`.
* The web client, but for what it sends: its stored key and its cached queries
  are one browser's copies on which nothing else depends. Two hazards
  of it are listed in `PROJECT.json` without a property.
* Configuration, routing and rendering.

## 7. Plan

Done: `RoomStore`, `Rooms`, `RoomRequests`, `ListRequests`, `ItemOrder`,
`ItemRequests`, `Accounts`, `AccountServer`, `Categorization`, `Items`, their
runs, and the theorems of section 4.

The inductive invariants of the proofs are conjunctions of state predicates that
stand in the proof modules, next to the lemmas that use them.

Left, in this order:

1. The facts of `RoomsProofs` stated as theorems of `RoomRequests` for a server
   that handles one request at a time, through `OneAtATime`.
2. The same kind of refinement for lists: whole list requests as a
   specification of their own, which `ListRequests` implements when its requests do
   not overlap, with the vote published as in `RoomRequests`.
3. What is left of the room and list properties when the two components overlap
   call by call, which `ListRequests` has for list requests only.
