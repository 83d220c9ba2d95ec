# Cloud Android Orchestration in TLA+

TLA+ models of the cloud orchestrator (server), its client library and CLI
(`cvdr`), the TLC configurations that check them on small instances and TLAPS
proofs of their main invariants. Every definition is translated from the Go (or
TypeScript) code at the lines `PROJECT.json` lists under `map`.

## The system

**Server** (`cmd/cloud_orchestrator`, `pkg/app`). An HTTP server; every request
runs a handler of `app.go` in its own goroutine. It authenticates the user,
manages host VMs through an instance manager (`instances/gce.go`), proxies
requests to hosts (`instances/hostclient.go`), and keeps OAuth2 sessions and
encrypted build API credentials in a database (`database/`: Spanner, or one
in-memory slot and a map). Handlers hold no locks.

**Client library** (`pkg/client`, `pkg/webrtcclient`). One HTTP call per
operation with retries (`doRequest`), the chunked upload, and the WebRTC
connection: a poller and a forwarder goroutine carry signaling messages between
the host orchestrator and the Controller, which drives a pion peer connection.

**CLI** (`pkg/cli`). `cvdr connect` starts a detached agent per device
(`conn.go`): a Forwarder between an ADB TCP socket and the data channel, and a
ConnController that answers commands on a UNIX socket in the control directory.
`cvdr disconnect`, `create` and `delete` find the agents through that directory.
`cvdr create` makes a host, brings the artifacts to it, starts devices and
connects to them (`cvd.go`); `cvdr connect` looks for the user's devices on all
hosts at once.

**Web page** (`web/page0`). An Angular page with a reducer store; services issue
requests, remember the operations they wait for and refresh the lists. The page
of a device, which the host serves, gets its messages through a polling
connector (`web/intercept`).

| component | state | hard behaviour | what makes it correct |
|---|---|---|---|
| WebRTC signaling | three channels, `sendMtx`, `sendChClosed`, `start`, error counters, a `sync.Once` | callbacks, lost requests, shutdown from either end | no channel panic, one result, messages in order, shutdown completes |
| sessions, credentials | the session table, credentials per username, the provider's grants | interleaved handlers, failing calls, stale tokens, accounts that share a username | tokens stay with their username, sessions are consumed, a rescission sticks |
| chunked upload | jobs and result channels, backoffs, a shared context | cancellation, late requests, closing order | returns, leaves nothing running, success means all stored |
| host life cycle | GCE instances and operations, the client's retries | lost answers, timeouts, list-then-delete, an owner filter that matches parts | a host that is returned is the call's own, a delete is by a user whose filter finds the host |
| connection agent | forwarder state, sockets, the ADB data channel | three goroutines racing to stop | states only move forward, resources are released |
| connect, disconnect | the control directory, agents | two commands at once, dead agents | one agent per device, disconnect means gone |
| device creation | a command's host, artifacts and operation; channels per host and per device | requests repeated or carried out late, hosts that go away, silent agents | devices from whole artifacts, one group, no device missed, every agent answered for |
| device page | the connection in the URLs, one count of messages, one polling routine | overlapping calls, failing polls, throwing callbacks | messages in order and once, none passed over |
| web store | runtimes, hosts, environments, waits, `localStorage` | answers out of order, a refresh within a refresh, failed waits | the page shows what the servers have, no runtime is forgotten, every wait is an operation's |
| proxy, CLI tree, start-up, encryption, views, packaging | none shared | none | not modelled, see `PROJECT.json` |

## Modules

| module | models | notes |
|---|---|---|
| `Signaling` | `client.go` webRTCPoll, webRTCForward; `webrtcclient/client.go` Controller | one action per channel operation or critical section |
| `Signaling_proofs` | | theorems about `Signaling` |
| `Credentials` | the session and credential handlers of `app.go`, `database/` | one action per call to a shared service |
| `MCCredentials` | | accounts, usernames and symmetry for TLC |
| `Credentials_proofs` | | theorems about `Credentials` |
| `UploadSpec` | what `Upload` promises | abstract |
| `Uploader` | `filesUploader`, `uploadChunkWorker` | refines `UploadSpec` |
| `FileUpload` | `getFilesInfos`, `sendJobs`, `writeMultipartRequest` | `Uploader`, with the files its jobs are cut from |
| `MCFileUpload` | | the files for TLC |
| `Uploader_proofs` | | theorems about `Uploader` and `FileUpload`, the refinement included |
| `AgentLife` | what others see of a connection agent | abstract |
| `ConnAgent` | `conn.go` ConnController and Forwarder | refines `AgentLife`; one action per critical section |
| `AgentFleet` | the agents and commands of `cli.go` and `conn.go` | each agent refines `AgentLife`; one action per use of a control socket |
| `Agents_proofs` | | theorems about `ConnAgent` and `AgentFleet`, the refinements included |
| `HostLifecycle` | `client.go` CreateHost, DeleteHosts, doRequest; the handlers and `gce.go` behind them | one action per request, cloud call and operation |
| `MCHostLifecycle` | | users, what their filters find, and symmetry for TLC |
| `HostLifecycle_proofs` | | theorems about `HostLifecycle` |
| `DeviceCommands` | `cvd.go`; create and connect of `cli.go`; the requests of `client.go` to a host | one action per request, goroutine's step and agent |
| `MCDeviceCommands` | | the device there is at first |
| `DeviceCommands_proofs` | | theorems about `DeviceCommands` |
| `Mailbox` | what a connector promises | abstract |
| `DevicePage` | `server_connector.js` | refines `Mailbox`; one action per stretch between two awaits |
| `DevicePage_proofs` | | theorems about `DevicePage`, the refinement included |
| `WebStore` | the reducers and the services of the web page | one action per click, answer of a server, and answer handled |
| `MCWebStore` | | the runtimes, hosts and start states for TLC |
| `WebStore_proofs` | | theorems about `WebStore` |

The modules meet where their components do: `ConnAgent` is the inside of one
agent of `AgentFleet`, and `Signaling` is what `ConnAgent` has done when its
peer connection is up; `HostLifecycle` is the server whose lists `WebStore`
shows; `DeviceCommands` starts the agents of `AgentFleet` and makes hosts and
uploads by single steps whose insides are `HostLifecycle` and `Uploader`. The
two views of an agent are tied to each other by `AgentLife`: `ConnAgent` and
every agent of `AgentFleet` implement it, so the fleet counts on nothing of an
agent that its goroutines do not keep. `ConnAgent` has names of its own (`at`,
`AgentSpec`), so that one module can state the theorems about both. `FileUpload`
extends `Uploader`, since what a chunk holds and whether it is stored are one
property. The others are not composed, as no property stated here is about two
of them at once.

### Signaling

`pc` maps each goroutine to its place: `main` (NewConnection), `recv`
(recvLoop), `ice` (the candidate callback), `poll`, `fwd`, and one callback
goroutine per state of the peer connection. Channels are unbuffered, so a send
and its receive are one action of two goroutines (`SendMsg`, `PollDeliver`,
`Return`). `mtx` is `sendMtx`, held from `AcquireSend` until the message is
taken; `closes` counts the calls of `close` so that a second one is visible. The
device's log, the peer connection and lost requests are the environment: a post
that fails for the client may have reached the device (`FwdError`). Messages are
four kinds, named for what the code does with them. A device that itself
requests an offer makes the code panic by design and is left out.

Runs: `signaling_safety` takes every kind of message, two tolerated errors in
place of ten, three messages and one candidate: an error in the middle of a
batch, a batch that overlaps the one before it, and a candidate before and after
the offer all happen. `signaling_liveness` is smaller because liveness is costly
(95,000 states, three minutes): two messages, each an offer, a candidate or one
the controller cannot handle, one local candidate, and polls and posts that fail
twice at most. These are the cases in which the shutdown chain meets an error of
`recvLoop`: a bad message, a candidate before the offer, and an offer or a
candidate after the peer connection closed, when `SetRemoteDescription` and
`AddICECandidate` return errors (`OnOffer`, `RecvHandle`). `recvLoop` then
returns, nobody receives from `recvCh`, and the poller blocks for good if it has
another message to send. `SignalingEnds` names that state (`PollHangs`) as its
one exception: the forwarder and `recvLoop` end whatever the device sends, and
the poller ends or hangs there. Entries of other types, which never reach
`recvCh`, are left to the safety run. `signaling_forward_lost` is a
counterexample to a comment of the code (see `findings`): a post that is given
up leaves senders and the closer of the channel waiting for each other. The
other half of `SignalingEnds` starts at the moment the descriptions are set:
before that, signaling that ends leaves `NewConnection` without an answer, since
`recvLoop` returns nil and no callback ever runs.

Fairness: every goroutine that can step does; a `sync.Mutex` does not starve a
waiter and `select` eventually takes a closed channel, hence strong fairness of
those actions; HTTP requests end; pion times out a negotiated connection. The
device owes nothing.

### Credentials

A request is a process with the call it makes next (`pc`), what it read so far
(`tk`, the grant of the token at hand) and its answer. `Outcomes` gives what a
failing database call leaves behind: an error may come with the effect. Only
Spanner's calls fail; the in-memory service returns no error. A grant is what
one exchange yields, so that ownership and revocation can be told apart from the
token that happens to be current. `service` is the database the server was
configured with, in-memory or Spanner. `Mishaps` chooses what may go wrong, and
`notes` is history: the deletions and decryptions of a request that failed, and
whether it had a token refreshed.

The account manager is the one for Google App Engine. It compares the email of a
request with the one in the ID token (`gaeusers.go:58`), but what it returns,
and what the database is keyed by (`app.go:438,445`), is the part of the email
before the `@`. So `Accounts` (emails) and `Users` (usernames) are kept apart:
`Exchange` compares accounts, `creds` is keyed by `Username[account]`, and
`alice@a` and `alice@b` use each other's tokens. `OwnTokens` says what holds:
the tokens stored for a username were authorized by an account of that username,
and a login succeeds only with what its own account authorized. That a request
gets the token of its very account takes usernames that no two accounts share
(theorem `TokensAreOfTheAccount`). The account manager for UNIX users is not
modelled: all its requests are of the one user `$USER`, and it compares nothing.

The in-memory session is one slot that handlers use without a lock.
`DeleteSession` compares the key and clears the slot in two steps
(`memorydb.go:66-71`; `DeleteSession`, `ClearSession`), so a session put there
in between is cleared with it: `SessionsRedeemed` has this race as its exception
(`raced` is history: who was about to clear when the latest session was
created). `FetchSession` matches the empty slot for an empty cookie
(`HasSession`), and the empty state of such a request is then accepted; the
session is none, so nothing is redeemed. What is taken as one step although the
Go memory model does not promise it are the assignment and the copy of the
session struct, and each use of the credentials map.

Run: `credentials` interleaves three requests of three accounts with two
usernames, with every mishap on either database (126,440 states). Three are
enough for each case that the properties are about: a login between the two
steps of another's deletion, a session redeemed while the slot passes on,
credentials of one account overwritten by another of its username, and a login,
a refresh and a rescission of the same grant. Four take longer than a run
should. Sessions of Spanner may expire meanwhile (`expired` is history). A state
is single-use only between requests that do not overlap: two that both read the
session before either deletes it are both accepted, and `SessionsRedeemed` says
what remains true, that the session of an accepted request does not survive.
`RescindSticks` says exactly when a rescission holds: a request that read the
grant before, and has an expired token of it refreshed, stores it again after
the deletion (`app.go:476`), although the page tells the user that the
authorization is gone.

### Uploader

`sendJobs`, each worker, its relay and Upload are processes linked by unbuffered
channels. The backoff is a count of failures since its last reset: after a
failure it may allow another try or stop, `MaxTries` at most; as in the code it
is reset by a success only, so a worker that gave up once gives up at the next
failure. A failed request may have been stored, or be stored later
(`StoreLate`).

`FileUpload` says what the jobs are: `TotalChunks` and `SendOrder` cut the files
into numbered chunks, `Segment` is what a request for one carries. Its
assumption `FileUploadAssumption` relates the jobs of `Uploader` to them; that
`sendJobs`'s two loops enumerate all chunks is a part of it that TLC evaluates
for the run's files, because the prover knows nothing of the fold that flattens
a sequence. A file without bytes has no chunk and is never sent: the host does
not get it, and `Upload` returns no error.

Run: `uploader_upload` has two workers and four files of 2, 0, 3 and 1 bytes in
chunks of 2: a file of whole chunks, an empty one, one with a short last chunk
and one shorter than a chunk. The four chunks let a worker take a second job,
and jobs are left over when the context is cancelled. Fairness: goroutines step
and requests end.

### ConnAgent

One agent process. `state`, `conn` and `listener` are the Forwarder's fields;
`at` maps `main` (NewConnController, then Run), `loop` (acceptLoop), the two
data channel handlers and the three observer callbacks to their places. Whatever
the code does with `stateMtx` held is one action, since nothing blocks there;
`StopForwarding` is an operator every stopper uses, and closing an open data
channel in it makes pion run the close handler. `readyCloses` counts the
closings of `readyCh`, `open` the connections the agent has yet to close.
`stage`, `forwarding` and whether the control socket is open are what others see
of it, and `KeepsContract` says that they change as in `AgentLife`: the control
socket is made only after the forwarder was ready or has failed, goes only after
it was stopped, and a forwarder that is down does not come back. The state is
set by the loop, the handlers and the observer's callbacks, so this depends on
what `compareAndSwapState` compares and on `readyCh` being closed after the
state was set.

Run: `agent` checks safety and liveness together with two ADB connections, so
that one is served after another was stopped, and a stop can meet the loop at
each of its places. `agent_never_ready` is the counterexample to the comment of
`ConnectDevice`: when the peer connection is lost before the data channel
opened, nobody closes `readyCh`.
Fairness: every goroutine that can step does; a closed connection and a closed
listener return errors. Nobody has to connect, hang up or send a command, so
`AgentEnds` promises nothing about a loop whose listener was refused by the
system (`dead`).

### AgentFleet

Several agents and commands that share nothing but the control directory. `sock`
is that directory, a file per port with the agent that made it; reading it
(`ReadDir`) and each dialing (`Contact`, `DisconnectCVD`) are steps of their
own, with everything else in between. What an agent does inside is `ConnAgent`'s
subject: here `up` says whether its forwarder listens (bound, ready or
connected, so that its port is taken), and `Lose`, `Stop` and `Kill` end it, at
any place after it was bound. `seen` is history: which agents a scan saw.
`Stage`, `Forwarding` and `HasSocket` are what others see of an agent, and
`LivesAsAgreed` says that it changes as in `AgentLife`. That is proved, and is
no property of a run, because TLC takes no specification under a quantifier as
one; its conjunct about the steps was checked by TLC first.

Run: `fleet` has two agents, a command of any kind, two devices and two ports
and may kill processes: two connects to one device race, a port is reused while
a failed agent keeps its socket, a socket is left behind and met again.
Fairness: processes step; starting one, losing a device and connecting to it may
take forever, so `ToldStops` is about agents that take commands.

These behaviours are modelled as the code has them and checked by no property,
since no text says otherwise: a stop may reach another device's agent, when
between the listing and `DisconnectCVD` (`conn.go:69`) the port passed to it;
`disconnect` drops the errors it meets (`cli.go:990`) and succeeds; with a
device as argument it panics on the first match (`filterMap`, `cli.go:1020`,
writes to a nil map); `host delete` stops no agent when the listing had any
error (`cli.go:573-576`); and an agent whose device is lost still counts as a
connection for `FindOrConnect`. A control connection whose peer stays silent
would block the agent's loop (`conn.go:469`, and its TODO); all peers in the
repository write at once, and so do the model's.

### HostLifecycle

A call is one `CreateHost`, or one goroutine of `DeleteHosts`; `path`, `op`,
`retries` and `pc` are its local variables in `doRequest` and `CreateHost`. Each
request is handled by a goroutine of the server, whose next cloud call is in
`at`; the client may be answered by a front end or lose its answer at any time
(`Unanswered`), and the handler goes on all the same. What it answers then
reaches nobody (`Awaited`). The cloud is `status`, `inserted` (the insert
operation of each host) and their ends; an erring cloud call may have had its
effect. `maker` and `deleters` are history. A repeated request that fails in the
client because its body was read before is one of `Unanswered`'s outcomes.

A user is what `Username()` gives, the part of an email before the `@`; accounts
that share it are one user here, as they are for the code. Who owns a host is
decided by the cloud's filter `labels.cf-created_by:<username>`
(`gce.go:171,198`), and `:` matches a part of the label: the filter of `bob`
finds the hosts of `bobby` too, for `ListHosts` as well as for `DeleteHost`.
`Finds` gives the users whose hosts each user's filter finds; all that is
assumed of it is that it finds one's own. So `OwnerDeletes` says that a delete
is carried out only for a user whose filter finds the host. This is the owner
alone where no username is part of another (theorem `OwnersDelete`), which the
code does not ensure, although `TestDeleteHostVerifyUserOwnsTheHost` is named
for it: the test compares the filter's text.

Run: `hosts` has one create and two deletes, by either of two users, the filter
of one of whom finds the other's hosts, of any host there has been (2,014,012
states). One repetition is enough for one call to make two hosts, one of which
it never hears of, and for a late handler to act between two requests of the
same call. Nothing relates one create to another but the names, so a second one
adds nothing (the theorems cover any number). Creates are interchangeable, and
so are deletes; users are not, because of `Finds`. The run may stop, since calls
and operations end; no fairness is assumed and no liveness stated: the client
sets no timeout, and the cloud owes no answer.

### DeviceCommands

A process is one `cvdr create` or `cvdr connect`. `host`, `artifacts`, `op` and
`tries` are a create's variables in `cvdCreator` and `doRequest`; `lister`,
`found`, `listed` and `statuses` are the goroutines of `listAllCVDs` and what
came of them; `work`, `conn` and `reported` the devices a command connects to,
the goroutine (in create: the call) of each, and what the command said of it.
Channels are unbuffered, so a send and its receive are one action (`Collect`,
`Report`). The host orchestrators are `ops`, the operations they took up, with
`home` and `started` for the devices. A request that failed for the command may
have been taken up, be taken up later (`late`), or never; a host may go away,
and take its devices with it. `steady` is history: the devices that have run
without a connection since a connect began to list.

Run: `devices` has one create of two devices and one connect, a host with a
device, room for a host and a group more, one repetition of a request and two
operations. So a create starts a second group by a repeated request (which never
comes up: there is room for one), a start is carried out after the command
ended, the listing meets a host that comes or goes and devices that another
command connects meanwhile, create connects to its devices one after the other
and connect to three at once, in whatever order the agents answer. Two
operations are what bringing artifacts and starting takes, or starting twice.
With two the bound that `GroupsOwn` sets on the starts of one create cannot be
exceeded in the run, and with three the run takes more than five minutes: for
that part only the theorem (`GroupsAreOwn`) speaks.
Fairness: a request ends, by an answer or a failure, and goroutines step. The
operations of a host, and the agents, owe nothing: `Ends` excepts a command
whose agent never answers, which the code waits for without a timeout
(`agent_never_ready` shows why one may not). Deadlock is not checked, as
commands end.

Behaviours that the model shows and no property states: a create whose later
steps fail leaves the host it made running; a retried start leaves a group
nobody connects to, running; a socket left behind by a killed agent makes every
connect without arguments fail, since `listAllCVDs` returns the error of the
listing (`cvd.go:232`); `connect --host` without devices never finds one, as
`listHostCVDs` is called with its last two arguments exchanged (`cli.go:781`);
and the error of a host's listing is lost, because the outer `err` is wrapped
(`cvd.go:246`).

That the select on a device's two channels never takes a closed one
(`cli.go:812-817`) is what `Received` says, and is checked by no property: the
closings are not steps. Channels without a buffer are closed after their value
was taken, and each is read once.

### DevicePage

`conn` stands for the URLs that `requestDevice` sets, `received` for
`#messagesReceived`, `routine` for the polling routines (the code means to have
one) and `poll` for the request each has sent. A step is what runs between two
awaits. `handled` is history: the messages given to a callback and whether it
was the page's. An error answer is parsed like any other, since `ajaxPostJson`
looks at no status: `requestDevice` then resolves, with URLs that name no
connection.

`Mailbox` is what a connector promises: the messages of a connection are taken
in the order of the log, each once, and from the first one none is passed over.
That is weaker than one would wish, and as strong as the code is: the count is
never started afresh, so a second connection begins where the first one ended,
and messages that come before `onDeviceMsg` are lost, as its comment says.

Run: `device_page` has three calls of `requestDevice`, so that a third overlaps
with a poll for the first while the second is under way, and three messages in
each connection, so that a poll can bring several and a callback throw in the
middle.
Fairness: timers fire and requests end. `Delivered` names every way in which a
message does not arrive: it was before the count, another connection is used, or
a poll or callback threw, which ends the polling for good.

### WebStore

`runtimes`, `valid`, `hosts`, `envs`, `status` and `waits` are the `AppState` of
the reducers, its lists as sets; `storage` is the list in `localStorage`.
`calls` holds the requests of the refresh and of registrations: `asked`, or
answered (`ok`) with the list a server made before it is handled. `op` says how
far each operation (create a host, delete one, create an environment) is;
`running`, `born` and `groups` are the servers. A refresh asks each runtime for
its configuration, and then twice for its hosts, because `loadHosts` subscribes
twice to `hostList$`: once for `host-load`, once to ask each host for its
groups. When the second list is empty its `forkJoin` ends and takes the first
with it (`LoadEnvs`). The first refresh is dispatched before anything subscribes
to the store, so the status is still `initializing` while it runs. `disturbed`
and `dropped` are history: whether something happened since the refresh began
that may leave the lists inexact, and which runtimes the user unregistered.

Run: `page` has two runtimes, two hosts, operations on one host and one click
(refresh, register or unregister) after the refresh at start, from three start
states: an empty browser, one runtime and two. So a second refresh meets the
answers of the first; a host is created, used, deleted and its answers come in
every order; and a registration overlaps either. The page may be left alone,
which is why deadlock is not checked. Fairness: HTTP requests of a refresh or a
registration end and what came is handled; operations may take forever.

A runtime has one zone and a host one group; lists are sets, so a host that two
loads add twice is shown once; a reload of the page and the retries of a group
list are left out.

The properties state what the code keeps, and so name what it does not: an error
in a list of hosts or groups leaves the status `refreshing` for good; a
registration that ends while a refresh is under way sets the status to `done`,
and the incomplete list of runtimes is saved, so that the others are forgotten
by the browser; a list made before a deletion and handled after it brings the
host back; a failed operation is waited for ever after.

## Properties

Each module has one type invariant. The others are commented in the modules; the
`hazards` of `PROJECT.json` say which of them watches what. Every property of a
passing run has a mutant: a small, plausible bug defined beside the action it
replaces, under which the run finds the property violated.

## Proofs

For every value of the constants (under the named assumptions), TLAPS proves:

* `Signaling`: `TypeOK`, `NoChannelPanic`, `OneResult`, `InOrder`. Channel
  safety needs to know who holds the mutex and which location of which goroutine
  precedes which close, one invariant per channel. `InOrder` has two parts, each
  with an invariant: that nothing is skipped needs that whatever precedes the
  poller's place was handled or is not the device's; that nothing comes twice,
  in a log of device messages only, that `start` is what was handled and a batch
  starts right after it.
* `Credentials`: `TypeOK`, `OwnTokens`, `SessionsRedeemed`, `AuthorizationKept`,
  `RescindSticks`. `OwnTokens` is strengthened with the grant each request has
  at hand; with usernames that no two accounts share it gives the token of the
  very account (`TokensAreOfTheAccount`). `SessionsRedeemed` is strengthened
  with what a request that was accepted has still to do, with the fact that only
  issued sessions are ever used, so none comes back, and with who was about to
  clear the slot. The last two relate a request to the others: a grant fresh
  from its exchange is known to one request only (`FreshInv`), and one that
  returns to the database was refreshed by a request that says so in its notes
  (`RescindInv`); whoever deletes credentials rescinds them or failed to decrypt
  them (`NotesInv`).
* `Uploader`: `TypeOK`, `Quiescent` and that its `Spec` implements `UploadSpec`.
  The refinement rests on `Accounted`: every job handed out is stored, in
  progress, or its error is known or on its way; so when all relays are done and
  no error was kept, every job is stored. `FilesWhole` (of `FileUpload`) follows
  from it with the arithmetic of `TotalChunks`: the segments of a file's chunks
  cover it.
* `ConnAgent`: `AgentTypeOK`, `Released`, `OneServed`, the action property
  `FinalStays`, and that its specification implements `AgentLife`
  (`KeepsContract`). They rest on one invariant that ties the loop's place to
  the state (`Coupled`): outside `install`, an open connection is the one being
  served, and a loop that is past its accept has seen `ready`. The refinement
  needs two more: whoever closes or has closed `readyCh` finds the forwarder no
  longer initializing (`Announced`), and the place of `main` says whether there
  is a control socket and whether forwarding was stopped (`MainInv`).
* `AgentFleet`: `TypeOK`, `Reachable`, `DuplicatesRaced` and `LivesAsAgreed`.
  `SocketInv` says who owns the socket of each port: an agent from its creation
  to its exit, so that a later agent with that port cannot have one; for
  duplicates, an agent beyond its scan found no serving agent of its device
  among those it saw. `LivesAsAgreed` adds that a forwarder is up in certain
  places only (`UpInv`), and is proved by cases on whose step it is: a step of
  another process changes nothing that is seen of an agent (`OthersUnseen`).
* `HostLifecycle`: `TypeOK`, `CreatedIsListed`, `DeletesObeyed`, from one
  invariant (`HostsInv`). It needs to know that a waiting handler is awaited by
  its call, that a create waits for a host made for it, and that a handler about
  to delete has seen a host that its user's filter finds, and that this cannot
  change, since names are used once. With filters that find one's own hosts only
  it gives that owners delete (`OwnersDelete`). Its lemmas say what any step
  keeps (`Mono`) and what an answer does to a call, so that an action is left
  with what it changes.
* `DeviceCommands`: `TypeOK`, `GroupsOwn`, `Complete`, `Reported`. `TypeOK`
  needs that a create past its first calls has a host (`CreatesInv`). For
  `GroupsOwn`, what a command waits for is its own (`OwnInv`), its artifacts and
  those of every request still under way are complete (`ArtifactsInv`), the
  starts taken up and those that are late are together no more than were sent,
  so `RetryAttempts + 1` at most (`StartsInv`), and a group is started by one
  operation as a whole (`WholeInv`). `Complete` follows from what the goroutines
  of the listing have found or have yet to find of the devices that stayed
  unconnected (`SteadyInv`, with `HomeInv`: only hosts that are up have
  devices), `Reported` from what the command has said of each device compared
  with what its goroutine holds (`ReportInv`).
* `WebStore`: `TypeOK`, which includes that a request is about hosts of the
  runtime it goes to; `WaitsTracked`, by cases on the operation that moves; the
  action property `RuntimesKept`; and `SettledExact`. `RuntimesKept` rests on
  `KeptInv`: a stored runtime is loaded, unregistered, or yet to answer the
  refresh, unless the refresh failed. `SettledExact` rests on `ExactInv`: as
  long as nothing disturbed the refresh (`Calm`), operations under way are about
  different hosts, every answer on its way names only what is there, and each
  host or group that is there is shown, or an answer or request that will bring
  it, or the operation that made it, is under way. When all of these have ended
  only the first case is left.
* `DevicePage`: `TypeOK` and that its `Spec` implements `Mailbox`. One routine
  runs at most, and its request starts at the count, which is the number of
  messages handled as long as it runs (`RoutineInv`); so the k-th message
  handled, of whichever connection, is the k-th of that connection's log
  (`InStep`), and a connection that was left does not come back (`ConnInv`).
  Hence a new answer continues what was taken of its connection, or begins it.

All invariants and action properties that the runs check are proved, and so are
the three refinements. Only the liveness properties are model-checked alone,
since the prover has no rules for fairness and `ENABLED`: `SignalingEnds`,
`Terminates`, `AgentEnds`, `ToldStops`, `RefreshEnds`, `Delivered` and `Ends`.
What can be proved of them is that nobody waits for something that cannot come:

* `SendersServed` and `ResultComes` (`Signaling`): who holds `sendMtx` is
  sending on an open channel to a forwarder that receives, or has given up (the
  case of `signaling_forward_lost`); and as long as NewConnection waits after
  the descriptions were set, the peer connection has yet to settle or a callback
  is on its way with the result.
* `WindsDown` and `NeverStuck` (`Uploader`): every step of a goroutine hands out
  a job or lessens a measure of what is left to do, and until Upload has
  returned one of them can step. Under fairness the two give `Terminates`.
* `Answered` (`ConnAgent`): once the data channel opened, a handler closes
  `readyCh` or has. `ToldCanStop` (`AgentFleet`): who was told to stop has its
  socket and comes to its control loop.
* `RefreshAwaits` (`WebStore`): a page that is refreshing has an answer of that
  refresh to wait for, unless a list failed. `PolledOrEnded` (`DevicePage`): a
  page with a connection has a polling routine, or one that ended.

Of `Ends` nothing of the kind is worth a theorem: a command that connects can
always go on by its own place, except where it waits for an agent.

## Plan

Done: all the modules above, and theorems for every safety property the runs
check. Left, in this order:

1. Listings: pages and limits of the host list (`gce.go`, `app.go`), of which
   the client reads the first only.
2. Log clean-up of the agents (`conn.go:503-590`) in `AgentFleet`.

## Not modelled

Byte contents other than their place in a file, formatting and logging; cookies
and HTTP redirects; timing other than "may time out"; pages of lists; the
reverse proxy, which passes requests through; the UNIX account manager;
configuration, encryption and secret services other than their failures; log
clean-up; torn reads of what the in-memory database keeps without a lock
(`memorydb.go`: a use of the credentials map and an assignment of the session
are one step each); the views of the web page; packaging.
