# A verification development for the UFM facade

This directory holds TLA+ specifications of `nvidia-ufm-api`, a REST facade in
front of NVIDIA's Unified Fabric Manager (UFM), with TLC configurations that
check them on small instances and proofs that TLAPS checks for instances of any
size.  File and line numbers refer to the repository (`internal/`, `pkg/`,
`api/`).

## 1. The system

    API client --HTTP--> echo router and generated wrappers   internal/handler/server.gen.go
                           | path and query parameters
                         Server method, one per operation      internal/handler/server.go
                           | ctx.Bind of the body, translation
                         ufmclient.Client method               pkg/ufmclient/*.go
                           | Client.do: request, status, JSON  pkg/ufmclient/client.go:88-152
                         UFM Enterprise                        (external)

Every operation is a straight line through this picture: bind, translate, call
UFM once (`UpdateSystem` twice), translate the answer or turn the error into a
status with `handleUFMError`.  The `Server` holds a pointer to one `Client`, and a
`Client` does not change after `New`; there is no cache, no database, no lock and
no retry.  All lasting state is UFM's.  So handlers of different API clients
never share memory, but they share UFM: what one request sees and changes
depends on what all others, and other users of UFM, do between its steps.

The one loop of the code that waits is `Client.WaitForJob`, which polls a job.

### Components, their state and operations

| Component | Code | State | Operations | Correct when |
|---|---|---|---|---|
| Pagination | `server.go:31-104`, eight handlers | none in the server; a client holds a cursor | `decodeCursor`, `resolveLimit`, `paginate` | a walk over the pages receives what is there: all of it, once, in order |
| Call pipeline | `client.go`, `errors.go` | none | `request`, `do`, `UploadMultipart`, `handleUFMError` | a status other than 502 tells the truth about what UFM did |
| Jobs | `server.go:777-850`, `jobs.go` | UFM's job records; progress of a `WaitForJob` | list, get, delete, abort one, abort all, wait | a wait returns, with the job's true end; what a handler reports as done is done |
| Partitions | `server.go:106-457`, `partitions.go` | UFM's partitions: members, QoS, SHARP | create, get, replace, delete, members, hosts, QoS, SHARP | each request takes effect at most once, as asked, and is answered truthfully |
| Systems and actions | `server.go:461-602, 1704-1783`, `systems.go`, `actions.go` | UFM's systems | list, get, update, power, reboot, upgrades, health, dump | update is all or nothing, or says so |
| Ports, links, virtual ports | `server.go:604-775`, `ports.go` | UFM's ports | list, get, enable, disable, reset | the action named is the action done |
| Fabric validation, reports, inventory | `server.go:1530-1617`, `misc.go:121-175` | tests running, reports | run a test, create, get, delete a report | 202 only for an accepted job |
| Topology, mirroring, templates, monitoring | `server.go:856-1500`, `topology.go`, `misc.go`, `monitoring.go` | named records in UFM | create, read, update, delete | the record the path names is the one changed |
| Telemetry, discovery, config, tokens, cable images | `server.go:1050-1078, 1591-1700, 1784-1816`, `config.go`, `misc.go` | none, or one record in UFM | reads and single calls | answers are passed on |
| Generated server stubs | `server.gen.go` | the routes | routing, taking parameters out of a request | a request reaches the handler of its operation with the names its caller gave |
| Generated Go client | `client.gen.go` | none | building requests, reading answers | a caller finds the body of a success where it looks for it |
| Generated types | `types.gen.go` (twice) | none | none | (data only) |

### Interactions

Handlers call one `Client` method, which calls `do`; nothing calls back.
`CreateReport`, `AddPartitionHosts` and `RunFabricValidationTest` return the
identifier of a job of UFM that an API client follows with `GetJob`, and a user of
`ufmclient` with `WaitForJob`.  Pages are related only by the cursor a client sends
back.

A call from end to end passes six places that name the same things and are written or
generated apart: the client's request builder, the routes, the wrapper's parameters, the
handler's arguments, the raw client's method, and the client's parser of the answer.
Nothing in Go's types relates them: names and identifiers are strings, passed by position.

### What is hard

* **Interleaving at UFM.**  Two requests for the same partition or job, or a list
  that changes between two pages, in an order no test has.
* **Lost and late answers.**  The HTTP client gives up after 30 s or when the API
  client goes away; the request may still be carried out, after other requests.
  502 is then the only honest answer.
* **Ordering of a shared resource with a poller.**  A job can end, be aborted or
  be deleted between any two steps of `WaitForJob`.
* **Liveness.**  `WaitForJob`'s loop, and a walk over pages of a list that grows.
* **Boundaries.**  Limits of zero, negative cursors, cursors past the end, a list
  of exactly one page, the empty list.
* **Bodies that are left out.**  `ctx.Bind` accepts an empty body, and the struct
  keeps its zero values.
* **Containers.**  An environment that somebody deletes, perhaps late, holds the servers
  and networks others are making, reading and removing.
* **Stopping.**  The facade keeps nothing, and what it has sent is carried out without it.

## 2. Modules

| Module | Models | Kind |
|---|---|---|
| `Pagination` | `decodeCursor`, `encodeCursor`, `resolveLimit`, `paginate` (`server.go:35-104`) | operators |
| `OrderedRead` | what a listing promises | abstract specification |
| `PagedWalk` | a client walking one of the paginated lists (eight handlers, nine calls of `paginate`) while others change it | state machine |
| `PagedWalk_proofs` | theorems about `PagedWalk` | proofs |
| `UfmCall` | `Client.do` and `handleUFMError` | operators |
| `Jobs` | the job handlers, the three handlers that start jobs (`AddPartitionHosts`, `CreateReport`, `RunFabricValidationTest`), and `WaitForJob` | state machine |
| `Jobs_proofs` | theorems about `WaitForJob`, and type correctness | proofs |
| `JobAnswers_proofs` | theorems about what the job handlers report | proofs |
| `PartitionData` | partitions, QoS settings, requests | data |
| `PartitionService` | what the partition operations promise under lost and late answers | abstract specification |
| `Partitions` | the partition handlers, the wire to UFM, UFM's partitions | state machine |
| `Partitions_proofs` | theorems about `Partitions`: the step simulation of `PartitionService` | proofs |
| `Systems` | `UpdateSystem` with its two calls, and the actions on systems and ports | state machine |
| `Systems_proofs` | theorems about `Systems` | proofs |
| `ApiPaths` | paths, their patterns, filling and matching them | operators |
| `ApiRequests` | what the generated client sends for each of the 98 operations (`client.gen.go`) | table |
| `ApiRoutes` | the routes and the wrappers (`server.gen.go`), and Echo's choice of a route | table, operators |
| `ApiHandlers` | what each handler calls with which arguments, and its answer of success (`server.go`) | table |
| `UfmMethods` | what each method of the raw client asks of UFM, and on what (`pkg/ufmclient`) | table |
| `ApiResponses` | how the generated client reads an answer (`Parse...Response`) | table, operators |
| `Facade` | calls of any operation from the generated client to UFM and back | state machine |
| `Facade_proofs` | theorems about `Facade`: routing, what is done, what is read | proofs |
| `FacadeAnswers_proofs` | theorems about `Facade`: what is acted on, what answers say, what changes | proofs |
| `MCPagedWalk`, `MCJobs`, `MCPartitions`, `MCSystems`, `MCFacade` | small instances | for TLC |

### PagedWalk

`list` is UFM's list; `copy` is the slice the handler of the current request got
from `s.ufm.List...`; `pc`, `limit`, `cursor` and `collected` are the API client.
`Ask` sends a request, `Fetch` is the handler's call of UFM, `Answer` is the tail
every paginated handler ends in (`decodeCursor`, `resolveLimit`, `paginate`), and `Fail`
is an upstream error or a lost answer, after which the client asks for the same
page again.  `Insert` and `Delete` are other users of UFM at any moment, also between
`Fetch` and `Answer`.  `Obtained` is what `ListPartitions` gets: UFM's list, or, with
`include=members` or `include=qos`, the keys of a Go map in any order
(`server.go:113-124`).  A base64 cursor is abstracted to absent, undecodable, or a
number.  Items are model values: translation of an item is one to one.

`OrderedRead` delivers a source in order, in chunks, until somebody disturbs it; its
variable `disturbed` is mapped to "somebody inserted or deleted", so that one run shows
the refinement as long as nobody does and the exact damage when somebody does.

### UfmCall

A response is its status and whether its body decodes; `Silence` is none.  `do`
yields nil, an `APIError` with a status, or another error, in the order of the
code; `handleUFMError` passes six statuses on and makes 502 of everything else.

### Jobs

`state` is UFM's table of jobs, `wire` the requests on their way, `call` a handler per
API client, `wait` a `WaitForJob` per waiting goroutine.  A handler sends (`Send`),
UFM carries the request out or refuses it (`UfmHandles`) or it gets lost
(`WireLoses`), the handler may stop waiting at any time (`GiveUp`: timeout,
cancelled context, body that does not decode), and answers (`Reply`).  Requests
whose handler gave up stay on the wire, so they can still act later.  `WaitForJob`
is `StartWait`, then `Poll`, `PollAnswered` or `PollFails`, `Decide` (the switch on the
status word), `PauseEnds` (the select).  A request and a wait may be about any job, also one UFM does not have or does not have yet.
`runningBefore` and `unknownBefore` of a handler, and `known` of a waiter, are history: the
jobs an abort finds running when it comes in, and whether UFM has had the job by then.
`Words` are the spellings UFM may use, `Offered` the operations API clients make use of.  `ErrorOf` is `Client.do` for all
operations but `RunFabricValidationTest`, which reads the answer itself (`misc.go:130`).

### Partitions

Like `Jobs`, one handler per API client and a wire.  `Translated` is the body of
each handler up to its call of `ufmclient`, `Bindable` is `ctx.Bind`, `Changed`,
`UfmCreates`, `UfmAddsGuids`, `UfmShows` and `UfmAcceptsHosts` are what the code expects
of UFM: `pkeys/add` refuses a partition that exists, `POST pkeys/` adds to an "existing (or
new)" one (`partitions.go:147`), everything else needs one that exists, optional QoS
fields that are missing keep the setting (or take the default on creation).
Names, `index0` and `ip_over_ib` are left out.  `PartitionService` has one atomic step
per request, which may come late or never; `SessionFor`, `Sessions`, `Late` and the
`INSTANCE` in `Partitions` map a handler and the wire to it: a session is what an API
client is entitled to know, `Late` the requests on the wire nobody waits for any more.  `load` is the choice, made once, of
which of the inputs are used and how many requests there are: it only bounds.

### Systems

`systems` and `enabled` are UFM's; `asked` and `done` are histories: the requests of API
clients by number, and what UFM carried out for each, in order.  `UfmCalls` is the
sequence of calls a handler makes when all goes well: none for an update without
fields, two for one that has a field of each half.  `Receive` makes the first,
`Continue` the next after a success, `Reply` answers at the first error or the end.
`wire`, `GiveUp`, `WireLoses` are as in `Jobs`.  UFM finds a system by its GUID or by the
name it has at that moment (`api/openapi.yaml:526`, `systems.go:83`).  Images and isolation
policies are left out; a port is addressed by its name.  In the beginning every name stands for
one thing (`FirstNamesAssumption`); an update may give a system any name, also one another system has.

### Facade

The five tables are translated each from its own file, none from another: `Requests`
(method, path, query parameters, whether there is a body), `Routes` and `Wrappers`
(which operation a path and a method belong to, the order in which the wrapper hands
on the names, the parameters it requires), `Handlers` (the calls of the raw client
with their arguments, the query parameters that take part, whether an unreadable body
is refused, the status and the shape of a success), `Methods` (what a method does in UFM,
and on which resource in terms of its arguments), `Readers` (the statuses the
parser has a typed field for).  `TablesAssumption` says that they cover the same 98
operations; `RoutesAssumption`, `HandlersAssumption`, `SubjectsAssumption` and
`ReadersAssumption` say of each operation by itself what the proofs use of the tables.
TLC evaluates them all.

`exists` is what UFM has: the set of the paths of named resources.  `wire` holds the steps
on their way to UFM.  `calls` are the calls of a script, each with what was asked (`asked`),
what the router and wrapper make of it (`given`, from `Routed`), the handler's steps (`plan`,
from `Steps`), where it stands, and as history what UFM did for it (`did`) and
what was there and missing at some time since it began (`there`, `missing`).  `Call`,
`CallRefused` and `CallNothing` are the beginning of a handler: it sends its first
step, refuses what cannot be read, or has nothing to do.  `UfmDoes`, `UfmFindsNothing`,
`UfmFindsItThere`, `UfmRefuses`, `UfmIsBusy` are UFM; `WireLoses` and `GiveUp` as in `Jobs`;
`Continue` and `Reply` are the handler after an answer of UFM, with the error value
of `Client.do` and the status of `handleUFMError`; `Abandon` is a caller whose context
ends; `Restart` stops the facade, which loses all handlers but nothing that is on
the wire.  `Replied` hands the answer to `ParseResponse`.
What a caller holds is `seen`: it waits, has no answer (`NoAnswer`, when its context ended or the
facade stopped), has an error because an answer does not fit its field (`GoError`), or has an answer
with no field, the typed field or `JSONDefault` set.

A property that has exceptions names them with their lines: the exceptions are what the code
does, the property is that nothing else does it.  It allows an exception and does not demand it,
so that a handler changed to do what the document says would satisfy it too.

## 3. Runs

All runs switch the deadlock check off: walks end, waits return and API clients
make a bounded number of requests, after which nothing need happen.

| Run | Question | Result |
|---|---|---|
| `walk_safety` | Over a list nobody changes, with failures and any limits: one ordered read (`ImplementsOrderedRead`)?  While others insert and delete: how much can be missed or repeated?  Does the walk end? | yes; at most one per removal, one per insertion; it ends |
| `walk_mapped` | The same bound with `include=members` | violated, see 5 |
| `jobs_safety` | Do the job handlers report the truth under loss, lateness and concurrency, of jobs UFM has and does not have? | holds |
| `jobs_wait` | Does `WaitForJob` return, with the true end of its job or a failure that has a cause, while others abort and delete it? | holds |
| `jobs_abort` | Does aborting one job leave the others alone? | violated, see 5 |
| `jobs_test` | Does a 202 for a fabric validation test name a job? | violated, see 5 |
| `partitions_safety` | Do two concurrent handlers, with requests that come late also after a third one, implement atomic operations with truthful answers, and answer every request? | holds |
| `partitions_duplicate` | Does creating a partition leave one that exists alone? | violated, see 5 |
| `systems_safety` | Are the calls of two concurrent handlers carried out in order and once, answered truthfully, and answered at all? | holds |
| `systems_renamed` | Does a 404 mean that nothing was changed? | violated, see 5 |
| `facade_safety` | Do the six places of a call fit for every operation, alone and against another call for the same things, with lost, late and refused calls, callers that give up and a facade that stops? | holds |
| `facade_typed` | Is the body of every success read into the field for its status? | violated, see 5 |

### Properties

* `UnchangedListIsReadExactly`, `MissesBoundedByRemovals`,
  `RepeatsBoundedByInsertions` relate what a client received over all pages to
  what UFM listed at any time since the walk began.  The second and third are the
  exact damage an offset cursor does: no better bound holds.
* `VerdictIsTrue` relates a returned waiter to how the job really ended (`outcome`),
  whatever happened to its record afterwards.  `FailureHasACause`: an error of
  `WaitForJob` is due to a job UFM did not have, a deleted record, an expired context or one
  lost poll.
* `AbortReportedIsDone`, `DeleteReportedIsDone`, `AcceptedNamesAJob`: what an answer
  claims still holds after the answer, under everything others may do.  Of `AbortJob` that is
  that the job it names has ended; that it ends the others too is the violation `jobs_abort`
  shows, and no property asks for it.  `DeleteReportedIsDone` says of 204 that the
  record is gone, and of 404 that it is or that UFM had no such job when it was asked; who
  else may delete a record it does not say.
* `OneJobPerRequest`: a request that is late or lost never starts two jobs.
* `HalvesInOrder`: what UFM carries out for a request is a beginning of what it asks
  for, nothing twice; `SuccessIsComplete`: success means all of it, on the port or
  system the request names, both calls on the same one (the exception is a name that another
  request has given to a system: then the two calls may find two systems); `AnswersAreFinal`:
  after any answer but 502 nothing more happens for a request, and after an error its
  last call has not been carried out.  Together they say how far `UpdateSystem`, which
  is not atomic, can be trusted.
* `ReachesItsHandler`: what a caller asks for reaches the right handler with the names in
  their order and every query parameter.  `ActsOnWhatIsNamed`: UFM acts on what the path
  names, or in it, steps in order and once, and not at all for an unreadable body.
  Both cross all tables; a swap of two strings in any of them violates one,
  or an assumption that compares the tables.
* `SuccessIsDone`, `StatusIsTrue`: an answer relates to what was done and to what UFM had at
  some moment of the call: 404 only if the thing was missing then, 409 only if it was
  there, success only if all was done, whoever makes and removes the same things.
* `AnswerIsFinal`: nothing is done for a call after its answer, unless that is 502.
  `OnlyAsAsked`: things appear and disappear only where a call that was made says, also
  after its caller or the facade has gone.
* `SuccessIsReadWhereKnown`: a caller that has the answer to a success finds its body in the typed
  field, if the document gives a success of the operation a body, and no field set, if it does not.
  The exceptions are ten operations that may send nothing where the document has a body
  (`SentWithoutBody`), three whose body may be found in `JSONDefault` (`ReadAsErrors`),
  and twelve that hand on what UFM answered: of a list where an object is expected the
  caller gets an error (`PassedOnAsIs`).  `ReadersAssumption` says that these are all.
* `WaitWithDeadlineReturns`, `WaitForEndedJobReturns` (unless UFM has a word for that end which
  `WaitForJob` does not know, `jobs.go:83`), `CallsAreAnswered`, `CallsReturn`,
  `WalkTerminates`: liveness.
* `ImplementsOrderedRead`, `ImplementsPartitionService`: refinement.

### Bounds, and why they are enough

* Walks: pages of at most three items, two by default; lists of up to five items, one
  insertion, two removals and one failure.  Lists shorter than, equal to and
  longer than a page and walks of one to five pages occur; `Limits` has values
  below one, within the range and above the maximum; `FirstCursors` has none, one
  that does not decode and one that decodes to a negative number.
* Jobs: in `jobs_safety` two jobs, two API clients, three requests and no waiter.  Two jobs are needed
  to tell aborting one from aborting all; three requests let one that was given up act after two
  others, or a job be asked about before it is there.  In `jobs_wait` one job, two waiters, one
  without deadline, and two requests of one API client, which can abort and delete the job
  between any two steps of a waiter; a waiter looks at no job but its own and at no other waiter.
* Partitions: one partition (requests for different partitions commute), two
  GUIDs, one host, two API clients, and from a UFM that may hold the partition already
  either two requests of any kind or three that create it with members and delete it:
  the third lets a late request meet what two others did.
* Systems: two systems and a spare name, so that a name can change its owner; one
  port; two API clients and two requests out of sixteen, every operation among them.
  A property of this module concerns one request against whatever one other does.
* Facade: every operation alone, with every plan of its handler, with the query parameters
  it must have and all it may have, with a body that cannot be read; `GetSystem` for a
  system named `power`; and pairs of calls that make, use and remove the same environment,
  server or network, and an update of a system against its reboot.  UFM has nothing, one
  thing of each kind, or two.  Two calls are enough for `StatusIsTrue` to need its
  history: one changes what the other is about.  Refusals are one status that is passed on
  and one that is not.
* `Offered` is split between `jobs_safety` (hosts, tests, get, delete, abort one, abort all) and
  `jobs_wait` (reports, delete, abort one): of operations that make the same call of UFM a run
  with waiters needs one.
* `MaxRequests`, `MaxInsertions`, `MaxRemovals`, `MaxFailures` bound history counters; no
  code depends on them.
* Symmetry is used only in `jobs_safety`, which checks invariants only: jobs and API
  clients are alike there.

### Fairness

`PagedWalk!FairSpec`: the client goes on with its walk and the server answers.
`Jobs!FairSpec`: a goroutine in `WaitForJob` runs; a poll ends, since the HTTP client
has a timeout of 30 s (`client.go:65`); a context with a deadline ends.
`Partitions!FairSpec`, `Systems!FairSpec`, `Facade!FairSpec`: a handler goes on, and the same timeout.  Nothing is assumed
of UFM, of jobs, of the wire or of other users.  A client built with
`WithTimeout(0)` has no timeout; the liveness results do not speak of it.

## 4. Proofs

The proofs are for every value of the constants, under the assumptions named in
the modules.

`PagedWalk_proofs` (assumptions `LimitsAssumption`, `WalkAssumption`):

* `TypeCorrect`: `Spec => []TypeOK`, that UFM's list never holds an item twice
  included.  It is inductive as it stands; `InsertAtLemma` and `RemoveAtLemma` say what
  the two library operators do.
* `UnchangedListCorrect`: `Spec => []UnchangedListIsReadExactly` unless pages come
  out of a map.  The inductive invariant `UnchangedInv` adds that without changes
  the copy is the list and the offset is within it.
* `MissesBounded`: `Spec => []MissesBoundedByRemovals` under the same condition.
  The invariant `MissedInv` counts, before the walk is done, the lasting items that
  lie *behind* the cursor and were not received: a removal moves at most one there
  (`BehindDelete`), an insertion none (`BehindInsert`), and a page none
  (`FetchLeavesNoneBehind`), although the list may change between the fetch and the
  answer.

* `RepeatsBounded`: `Spec => []RepeatsBoundedByInsertions` under the same condition.
  `RepeatInv` is the counterpart of `MissedInv`: it counts the items that were received
  and lie *ahead* of the cursor together with those received twice; an insertion moves at
  most one there (`AheadInsert`), a removal and a page none (`AheadDelete`,
  `FetchBringsNoneAhead`).
* `ReadsInOrder`: `Spec => Abstract!Safe` under the same condition: the initial states of
  a walk are initial states of `OrderedRead`, and every step is one of its steps or leaves
  its variables as they are.  The rest of the refinement, its fairness, is model-checked.

`Jobs_proofs` (assumptions `JobsAssumption`, and `WordsAssumption`: no word that
`WaitForJob` takes for one end of a job is used by UFM for another state; other words are free):

* `TypeCorrect`: `Spec => []TypeOK`, which here includes that a handler that sent has an
  operation of the table and that every answered status is one `handleUFMError`
  can give.  `CallUpdate` and `WaitUpdate` carry a change of one record to the function.
* `VerdictCorrect`: `Spec => []VerdictIsTrue`, and `FailureCorrect`:
  `Spec => []FailureHasACause`.  Neither is inductive: a waiter that has polled
  holds a word about a job that may have been aborted and deleted by the time it decides.
  `WaitInv` adds `Fate` (a job that is not running or deleted in UFM's table has that very state as its
  outcome) and `WaiterInv` (a word for an ended state that a waiter holds is the
  outcome of its job).  `Steady` says what no step may undo: an outcome, once
  there, and the deletion of a record.  `FateStep` shows that every step is steady,
  `WaiterRests` that a waiter who does not move keeps its invariant through
  every step of the others, `WaiterMoves` that each of its own steps keeps it.

`JobAnswers_proofs` (the same assumptions):

* `OneJobCorrect`: `Spec => []OneJobPerRequest`.  `CountInv` says that the jobs and the requests
  on the wire are together no more than the requests made: a request leaves the wire when
  it starts a job.
* `AbortCorrect`, `AcceptedCorrect`, `DeleteCorrect`: what these operations report is so, and
  stays so.  The properties speak of answered requests only, and are not inductive: the
  answer is made of what UFM said before.  `AnswerInv` says, of a handler that holds an
  answer of UFM or has answered, that what a success claims is true (`Trusted` implies
  `Holds`), and of the wire, that a request with the number of its caller's present one is of the same
  operation, so that no handler takes the answer to another request for its own.
  `Onward` says what no step undoes: no job starts to run again, none is forgotten, and a
  deleted record stays deleted.  `UfmTells` shows that UFM's answer is true when it is given,
  `CallRests` that it stays true, `StatusClaims` that the status the handler makes of it
  claims no more: of a 404 that UFM does not have the job, which says that the record is gone
  if UFM had the job when the request was made (`unknownBefore`).  `DeleteCorrect` assumes
  that UFM does not refuse a request with 404
  (`404 \notin Refusals`): otherwise a 404 would say nothing of the job.

`Systems_proofs` (assumptions `SystemsAssumption`, `InputsAssumption`, `FirstNamesAssumption`):

* `TypeCorrect`: `Spec => []TypeOK`.
* `SystemsInvCorrect`: `Spec => []SystemsInv`, the inductive invariant.  The properties are about
  histories and answers, and say nothing of a call under way; what is missing is how far a handler
  is.  `OneHandler`: every request has one handler, `OneCallOut`: a request has at most one
  call on the wire, the next one of those it consists of, `DoneAsAsked`: what is done for a
  request is a beginning of its calls, `HandlerKnows`: what the handler of a request has
  heard bounds how much was done, exactly after an answer, by one call more while one
  is out or was given up.
* `HalvesCorrect`: `Spec => []HalvesInOrder` follows from it.
* `SuccessCorrect`: `Spec => []SuccessIsComplete`.  That all was done follows from `SystemsInv`; that it was
  done on what the request names does not, since names change.  `NamesInv` says that the name of a system
  is its first one or was given to it by a call that is in `done`, and that a request was
  carried out only on what it names, or what another request has given the name to
  (`MayBeAbout`).  Two systems that may both be what a request is about, without another
  request between them, are one, because first names are told apart.
* `FinalCorrect`: `Spec => AnswersAreFinal`, an action property: a handler that answered with
  something other than 502 has nothing on the wire, and only what is on the wire is carried out.

`Partitions_proofs` (assumptions `PartitionAssumption`, `LoadsAssumption`,
`InputsAssumption`, `RefusalsAssumption`):

* `TypeCorrect`: `Spec => []TypeOK`, for which `UfmCreates`, `UfmAddsGuids` and the other
  operators of UFM are shown to yield partitions.
* `PartitionsInvCorrect`: the invariant `WireInv` besides: the requests on the wire are told apart
  by their numbers, and one with the number of a handler is that handler's.
* `PartitionsRefine`: `Spec => ImplementsPartitionService`.  The initial states map to
  initial states.  A request that arrives is `Ask`; UFM carrying it out is `TakeEffect`, or
  `TakeLateEffect` when its handler has given up; UFM refusing it is `Refuse`, the wire losing it
  `LoseContact` (the handler does not know yet, but its answer can only be 502), or, when
  nobody waits, both are `Forget`; a handler that gives up is `LoseContact`, or a stutter
  when its request was lost before; `Reply` is `Reply`.  The mapping therefore looks at a handler and the
  wire together, and needs `WireInv`: the request on the wire that it takes for the handler's own is no other.

`Facade_proofs` (assumptions `InitialAssumption`, `RefusalsAssumption`,
`TablesAssumption`, `ScriptsAssumption`, and of the tables `RoutesAssumption`,
`HandlersAssumption`, `ReadersAssumption`, which have no free constants: TLC decides them; that the
run evaluates them is therefore part of the argument):

* `ReachesCorrect`: `Spec => []ReachesItsHandler`.  The run has a handful of names, the
  theorem any: `RouteOfRequest` shows that whatever is put in the place of a
  parameter, also the word that is another path's segment, the router finds the request's own
  route, since a route that a path fits overlaps with the pattern it was made from
  (`CandidatesOverlap`) and only the routes of `GetSystem` and `ListSystemsPower` overlap;
  `CapturedIsAsked` that the names come out of the path as they were put in.
* `TypeCorrect`, `FacadeInvCorrect`: type correctness is inductive only with the rest.  `FacadeInv` says
  that a step on the wire is the present one of its call and not carried out, also when its
  handler has given up or gone (`Fresh`); that the steps carried out are a
  beginning of the plan (`AsPlanned`); and what a handler that holds an answer, or has
  replied, may conclude from it (`Knows`, `Sees`).  All steps but a stop turn one call and change
  the others at most in what they have seen of UFM: `Turns`, and `TurnKeeps` says when such a step keeps the
  invariant, so that every action is left with its own call.
* `SuccessIsDoneCorrect`, `SuccessReadCorrect`: `SuccessIsDone` and `SuccessIsReadWhereKnown` follow, the second with
  `SuccessRead`, which goes through the forms a success can have and compares what is sent with
  what the client expects; that every operation is in one of the classes it needs is `ReadersAssumption`.
* `AnswerFinalCorrect`: `Spec => AnswerIsFinal`: only a step of the wire is done
  (`OnlyTheWireDoes`), and a call that was answered with something other than 502 has none there.

`FacadeAnswers_proofs` (these, and `SubjectsAssumption`, which TLC decides too):

* `ActsCorrect`: `Spec => []ActsOnWhatIsNamed`.  `SubjectsAssumption` compares patterns, operation
  by operation: what a step is about in terms of the path and the body of its request
  (`Subject`) begins with what owns the path (`Belongs`).  The lemmas carry that from patterns to
  paths for any names: `GivenIsMeant` says that an argument of a method is the name the caller
  meant, `StepIs` and `StepIsSubject` that a step is about its subject with the names put in,
  `StepIsOwned` and `StepBegins` draw the conclusions.  `AsPlanned` of the first invariant
  gives the order.
* `TruthInvCorrect`: the second inductive invariant.  `StatusIsTrue` speaks of replies and of what was
  there or missing at some moment before, and says nothing of a call under way; `TruthInv`
  adds `Noticed`, that a call under way has in its history all that UFM has now, and of what UFM
  has not, that it is missing; and `Honest`, that an answer the handler holds says (`Tells`) only
  what is in that history, which grows (`TellsMore`).  When UFM refuses, what it
  finds missing is the owner (`StepNeeds`) or what it finds there is what is to be made (`StepChanges`);
  when it carries a step out, the owner was there, or was put there.  `ErrorPasses` says that the
  handler makes nothing else of it.  A refused call is at its end, with nothing done.
* `StatusCorrect`: `Spec => []StatusIsTrue` follows.
* `OnlyAsAskedCorrect`: `Spec => OnlyAsAsked`, an action property: only `UfmDoes` changes what UFM
  has (`OnlyUfmChanges`), for a call that was made, and as its request says (`UfmDoesAsAsked`).

Only model-checked: the liveness properties `WaitWithDeadlineReturns`, `WaitForEndedJobReturns`,
`CallsAreAnswered`, `CallsReturn` and `WalkTerminates` (fairness and `ENABLED` are beyond the
prover), and the fairness of the refinement of `OrderedRead`.  Every other property of a passing
run is a theorem, under the conditions named above.

## 5. Where the code and its documents disagree

Each is a run that TLC ends with a counterexample.

* `walk_mapped`: with `include=members` or `include=qos` `ListPartitions` cuts pages out of
  a Go map, whose order changes from request to request (`server.go:113-125`); a walk
  over an unchanged UFM can miss partitions and receive others twice.
* `jobs_test`: `RunFabricValidationTest` takes every status but 409 for success
  (`misc.go:137`): a test UFM refuses with 500 is answered 202 with a job that does not
  exist.
* `partitions_duplicate`: creating a partition with members that exists already adds the
  members and answers 201 where `api/openapi.yaml` has 409.
* `jobs_abort`: `AbortJob` aborts every running job (`server.go:832`, with a comment that says why),
  where `api/openapi.yaml:1086` has "Abort a running job".
* `facade_typed`: `CreateGlobalNetwork` and `CreateLocalNetwork` answer 201 with a body the
  document does not have, `CreateToken` answers 201 where it has the token under 200
  (`server.go:1253, 1316, 1789`); the generated client reads these into `JSONDefault`, the
  field for errors.
* `systems_renamed`: `UpdateSystem` makes its second call with the identifier of the path
  (`server.go:544`), also after the first changed the name that identifier was: the
  system is renamed, its URL is not set, and the answer is 404.

Seen while modelling, without a run of their own:

* `UpdatePartitionQoS` sends zero for every setting the client left out
  (`server.go:392-401`), an MTU limit that `api/openapi.yaml` does not have; the QoS settings of
  a partition created with members are not sent (`server.go:162-173`); `GetPartition`
  with `include=qos` shows no settings (`server.go:216`).  `PartitionService` leaves these
  three open.
* `PUT /partitions/{pkey}` without a body, which is documented as required, removes every member
  (`server.go:222`).
* The page of an empty list is a nil slice and is sent as `null` (`server.go:75`); the
  example in `pkg/client/doc.go` dereferences it.
* `UpdateGlobalNetwork` changes the network its body names, whatever the path says
  (`server.go:1264`); `CollectLinkDump` passes identifiers of links to the call that dumps systems
  (`server.go:730`); `RebootSystem` does not look at the error of `ctx.Bind` and reboots
  (`server.go:1707`); `GetSystem` does not use its parameter `include` (`server.go:507`); a system
  named `power` cannot be looked at, since `/systems/power` is a route of its own.  These are
  the named exceptions of the properties of `Facade`.
* Bodies that the document has and the handlers do not send: `UpdateSystem`,
  `ReplacePartition` and `UpdatePartitionQoS` answer 204 where it has 200 with the resource;
  `CollectLinkDump`, `CollectSystemDump`, `UpgradeSystemFirmware`, `UpgradeSystemSoftware`,
  `RebootSystem` and `ExecuteTemplate` answer 202 without the job it has; `CreateMonitoringTemplate`
  answers 201 without the template.  The typed field stays nil.  These are the ten of
  `SentWithoutBody`.
* `PUT /systems/{system_id}/health` without a body isolates the system; `UpdateSystem` and
  `SetSystemHealth` answer 204 where `api/openapi.yaml` has 200.

## 6. Not modelled, and the plan

Not modelled:

* Names with slashes and the escaping of names in paths; the paths and query
  strings the raw client sends to UFM, of which `UfmMethods` keeps what they are about.
* The content of resources other than partitions, systems and jobs: of an environment,
  a network or a template `Facade` knows that it is there.  Its translation is one
  assignment per field, best covered by tests.
* Values of query parameters and headers, and the wrappers' parsing of them.
* JSON, TLS, credentials, the reading of the multipart form.
* The generated types (`types.gen.go`, twice): declarations without behaviour.

The hazards without a property (listed in `PROJECT.json` with the reason for each) are settings left out or
zero (`server.go:392`), fields of a body that only one of two calls carries (`163`),
`ip_over_ib` (`149`), two updates of one system (`516`), bodies that are left out (`222`) and the
page of an empty list (`74`).

The order of work, most important first:

1. *(done)* `Pagination`, `PagedWalk`, `OrderedRead`; every safety property proved.
2. *(done)* `UfmCall`, `Jobs`; every safety property proved.
3. *(done)* `PartitionData`, `PartitionService`, `Partitions`.
4. *(done)* `Systems`; fabric validation and reports as starters of jobs in `Jobs`.
5. *(done)* `Facade` and its tables: all operations, from end to end.
6. *(done)* Proofs about `Systems`: every safety property.
7. *(done)* Type correctness of `Partitions` and the step simulation of `PartitionService`.
8. *(done)* `Facade`: routing, `SuccessIsDone`, `SuccessIsReadWhereKnown`, `AnswerIsFinal`.
9. *(done)* `Facade`: `ActsOnWhatIsNamed`, `StatusIsTrue`, `OnlyAsAsked`, from the agreement of
   `Requests`, `Handlers` and `Methods` about each operation and the invariant that a call has
   noticed everything UFM had since it was made.
