# TLA+ models of maia-cli

`maia` installs skills, tools, MCP servers and toolkits for coding agents, and
runs a stdio MCP server that proxies the installed MCP servers. This directory
models the parts of it whose correctness depends on interleavings, failures and
order, model-checks them with TLC and proves what matters most about them with
TLAPS. Every definition is translated from the code; `PROJECT.json` maps each to
its lines.

    tlc -config MCTransport.cfg MCTransport      # any run listed below
    tlapm TransportProofs.tla                    # any *Proofs module

## The system

Two programs share one package.

**The runtime** (`src/agent/mcp`) is one Node.js process: single-threaded, with
operations that interleave at every `await`.

| component | state | operations | interacts with |
|---|---|---|---|
| stdio server (`server/stdio.ts`) | `closing`, cached tools | one asynchronous handler per input line; `close` of standard input | manager, catalog |
| manager (`manager/manager`) | map of sessions, circuits | startServer, stopServer, listTools, callTool, healthcheck, shutdownAll | sessions, resilience |
| resilience (`manager/resilience`, `reliability`) | one circuit per server | executeWithResilience, recordSuccess, recordFailure | wraps every operation of the manager |
| sessions (`manager/session`) | map entry, session status | getOrStart, invalidate, stop, ensureHealthy | client, transport |
| JSON-RPC client (`runtime/client`) | initialized, era, known tools | initialize (modern, then legacy), listTools, callTool, shutdown | transport |
| transports (`runtime/transport`) | open, pending requests, next id | request, notify, close; answers, timers, exit | child process, socket, fetch |
| tool routing (`server/router.ts`, `server/collect`) | none | collect and name proxied tools, route a call | manager, catalog |

**The command line** (`src/cli`, `src/agent/catalog`, `src/agent/toolkits`,
`src/agent/agents`) runs one command and exits; what it keeps is files.

| component | state | operations | interacts with |
|---|---|---|---|
| catalog store | `maia.json`, `maia.lock.json` | load, change, save; buildLock, verifyLock | every command |
| install / remove / lock / verify / ci | none of their own | sequences of store and file operations, under `withRollback` | store, workspace, toolkits, agents |
| workspace files | materialized skills and tools | materialize, mirror, remove, atomic write | install, ci |
| toolkits | files of a native installer | detect, install, switch, restore, remove | store, guardrail, child processes |
| agent configuration | configuration files of each agent | inject, remove, Cline's global registration, restore | store |
| environment files | `.maia/mcp.env`, global file | merge layers, sync, legacy migration | stdio transport |
| guardrails, access policy | deny list; allow lists | a decision from path, configuration and identity | remove, toolkits; manager, router |
| providers, search, remote skills | none | network | install |

What is hard: tasks of the runtime meet in shared maps read before an `await` and
written after it; answers race timers, exits and closing; circuits are moved by
callers that know nothing of one another. Commands fail or are killed between
file operations, and two of them may run at once. `PROJECT.json` lists each of
these hazards at its line, with the properties that would catch it.

What makes each part correct:

* circuits: closed exactly below the threshold, never stuck half-open, a
  cool-down that no new call cuts short; retries bounded; every call settles;
* sessions: a live child can be reached through the map and so be stopped, the
  map leads to no dead session, a session given up is closed, the process ends
  when its input does and leaves no child behind;
* transports: a promise settles once, with the answer to its own request; the
  pending map is exact; nobody waits for a process that is gone;
* client: after a successful handshake both sides agree on the era, and a probe
  that timed out does not disturb the handshake that follows;
* routing: a proxied name leads to the server and the tool it was made for;
* install and removal: all or nothing; ci vouches for what is on disk and changes
  no record; a bare install mends whatever a crash left;
* toolkits, agents, environment files: a failed run can be run again and
  converges; user files are not overwritten without the guardrail's consent.

## Modules

| module | what it models |
|---|---|
| `CircuitBreaker` | the circuits and the pure functions on them; `BreakerSpec`, what they promise their users |
| `Resilience` | `executeWithResilience` run by concurrent callers, and `healthcheck`, over the circuits; it implements `BreakerSpec` |
| `McpSessions` | the session map of the manager, everything that changes it, and the end of the stdio server |
| `Requests` | abstract: a promise that settles once |
| `Transport` | stdio, WebSocket and HTTP transports and the requests on one of them; it implements `Requests` |
| `McpClient` | one MCP server as the manager has it: session, clients, the operations waiting on them, and the negotiation of the protocol's era |
| `McpServer` | the stdio server between an agent and the MCP servers: collection, cache, routing, access, negotiation, shutdown |
| `Access` | who may use a package |
| `Install` | the commands of the workspace as sequences of steps over the manifest, the lock and the artifacts |
| `Lists` | what a filter and a set keep of a list, as recursive functions |
| `AgentRegistry`, `AgentFiles` | the agents with their files and formats; what is done to the content of one file |
| `AgentConfig` | selecting, configuring, refreshing and removing agents, step by step |
| `Guardrails` | may a path be deleted or overwritten |
| `ToolkitPlan`, `Toolkits` | how a toolkit is found and installed; the commands about it |
| `EnvFiles` | the credentials files: layers, prompts, placeholders, migration |
| `Workspace` | `AgentConfig`, `Toolkits` and `EnvFiles` composed over one manifest, lock and loop over the agents |
| `ResilienceProofs`, `McpSessionsProofs`, `TransportProofs`, `McpServerProofs`, `InstallProofs`, `ToolkitsProofs`, `WorkspaceProofs` | the theorems |
| `ListProofs` | lemmas about `Lists` |
| `MCResilience`, `MCMcpSessions`, `MCTransport`, `MCServing`, `MCInstall`, `MCWorkspace` | instances for TLC |

An action is the code between two awaits, with everything that runs
synchronously in it; in `Install` and `Workspace` it is a step of a command. A definition whose
comment begins "Mutant" or "Faulty variant" is a bug of the kind a property is
there to catch; no specification uses one.

### CircuitBreaker and Resilience

`circuit` is the controller's map: state, consecutive failures, and the time left
until `nextAttemptAt`. Each function of `reliability/circuit-breaker` is an
operator on one record. A caller's `phase` says which `await` of
`executeWithResilience` it is at: `running` (the operation), `cleanup`
(`onFailure`), `backoff` (`delay`). `Call` is the entry of the loop, `Wake` its
next round, and both ask the circuit; `Succeed` and `Fail` record the result in
the step in which the operation's promise settles, before `onFailure` is awaited;
`GiveUp` and `BackOff` are the two ways on from there. `Healthcheck` records
results without asking the circuit, as the code does. An error is "config" (one of
the messages `shouldRetry` never retries) or "transient". `openedAt` and
`lastError` are only reported and are left out.

### McpSessions

`sessions` is the map, `status`, `owner` and `child` belong to session objects,
which outlive their entry. `pc` says what each task awaits. `GetOrStart` is
`getOrStartSession` up to its first await: reuse, invalidate or create;
`StartAfterClose` continues after the old session's `close()` without reading the
map again; `Initialized`, `InitializeFailed` and `FailedStartRemoved` are the
handshake's outcomes, the last deleting the entry by name after `close()`.
`OnFailure` invalidates whatever is registered then. `AwaitShutdown`,
`ShutdownSettled` and `Stopped` are `stopSession`, whose last step deletes by
name and rethrows; `StopNext` is the loop of `shutdownAll`. `CloseInput` is the
`close` handler of the server: it runs `shutdownAll` against the deadline, and
`ExitAfterShutdown` or `ExitAtDeadline` ends the process. Awaits of `close()` do
not wait for anything, so events from outside are delayed until those turns of
the microtask queue are over (`Drained`). Circuits and delays are in
`Resilience`; here a failed attempt may or may not be followed by another. The
requests of one operation (the health probe before a call, for instance) count as
one. Transports are seen as stdio ones.

### Requests and Transport

`pending`, `nextId` and `open` are the transport's fields; `pc`, `id`, `outcome`
and `answers` follow each request's promise, the last recording for which request
the answer it got was written. The server may answer any request it received, at
any time, again and again, or never. `Request` is `request()` up to the write, or
up to the `await` of the WebSocket's connection, after which `Resume` sends
without checking `open` again. `Close`, `Breaks` and `Ends` are `close()`, the
socket's `error` event and the process's exit or the socket's `close` event. HTTP
requests are fetches of their own: nothing is pending, and the id of an answer is
not compared. The SSE transport has the same shape and the npx transport wraps the
stdio one. Notifications are left out: they leave nothing behind.

### Install

`manifest`, `hub`, `lock` and `disk` are the three records: what `maia.json`
declares of each package, the `ref` of the git source in it, `maia.lock.json`,
and the materialized artifacts. An artifact's content is a revision, which stands
for its hash; `Torn` is a file or folder written or deleted in part. `Program`
and the operators under it list the steps of each command in the order of its
handler, and say which are steps of a `withRollback` block and what undoes them; `pc`, `phase` and
`completed` run it. A step is one action for its success (`PinSource`,
`Materialize`, `AddDependency`, `BuildLock`, `Gates`, ...) and `StepFails` for
its failure. `Undo` and `UndoFails` are the loop of `withRollback`, which goes on
when an undo throws. `reinstallFromLock` is finer: `StartWave` begins a
`Promise.all`, each `Rewrite` is one artifact, and those not yet written go on
after `RewriteFails` has ended the command, until the process stops. `Crash` may
come between any two steps and inside those that write artifacts. Between
commands the branch moves (`Push`, at any time), maia is upgraded, and the files
are edited, checked out or lost.

Abstractions: `strictVerify` is on, its default; the remote skills share one git
source, since sources meet only in the manifest; a torn artifact compares equal
only to itself, and two torn ones are taken as equal; toolkits, agents, the
environment file and the guardrail are steps that succeed or fail; one command
runs at a time. Sources of MCPs, the migration of the stale local source and of
single-file skills, and the choice among search results are left out.

### McpClient and McpServer

`McpServer` is one process of `maia mcp-server`: `installed` is the lock as other
maia processes leave it, `cached` is `cachedTools`, `request` the handlers under way,
one per line of standard input, and `link` what there is of each MCP server. A
request is `collecting` (tools/list, or the collection made before the first line is
read), `calling` or `stopping`; `Handle` is the dispatch on method and envelope,
every refusal included. `HandleToolsList` ends a collection when the last server has
answered or failed, and puts it in the cache; `RouteToolCall` reads the cache when
the line arrives. `McpClient` is written as operators on the record of one link, so
that `McpServer` can have several: `ops` are the operations waiting at a client,
`clients` the JSON-RPC clients that were made for the server, which outlive the
session. A client's `open` is its transport's flag, `gone` that its process has
exited or its socket closed: `close()` rejects what is pending on a socket, but only
ends a process's input and tells it to terminate. Until it exits (`TransportEnds`)
it may still answer what was asked of it, a timer may still go off (`Pending`), and
either may go on negotiating; then `failAllPending` rejects the rest (`EndedUnder`).
`Probe`, `ProbeFailed`, `Negotiated` and `Answered` are `initialize` with
its fallback to the legacy handshake; `Cleared` is `shutdown`, which may clear a
client that another operation uses. `authorized` and `usable` are histories: for each
request under way, the packages that the agent was authorized for at some moment since
it arrived, and those that were enabled as well, for `AccessRechecked` and
`ListIsCurrent`.

A name is the sequence of its parts around `__`: `ToProxiedToolName` puts the server's
before the tool's, `McpToolName` is what the router forwards, everything after the first
separator. The peer is modern or legacy, or there is none (`Peers`), behind a transport
that reports failures as HTTP does, or that ends as a process or a socket does
(`Kinds`). The rejections of `failAllPending` are handled in any order, where the code
handles them in the order of the requests, and other steps may come between; the error
a socket reports before it closes is not told from its closing. Steps that wait only for what is already settled
are not split, and there are no retries here: `McpSessions` and `Resilience` have
both. A failing `notifications/initialized` counts as a failing handshake. Local
packages are run in one step. Two first handshakes on one client do not occur: the
manager registers a session before it initializes its client, and others reuse a
session only when it runs.

### Workspace

The files a project shares with its user and with other tools. A behaviour starts
from a *scene*, runs commands of one *menu* (agents, toolkits, credentials) and may
contain a kill or an edit by hand, also while a question waits for its answer.

**AgentConfig.** `config` are the agents' configuration files, legacy locations
included: what matters of one is whether it parses, whether what others wrote is
still in it, and Maia's entries by section. `notes` are the instruction files as
sequences of lines of the user's, Maia's markers and the block between them, which
says for which agent it was rendered, whether the proxy is registered, and which
packages and toolkit it lists. `settings` are the places of Cline's global
settings. `pc` and `task` are the loop of `configureAgents`: `WriteProfile`,
`InjectAgentConfig`, `ResolveClineRegistration` with the offer and its answer,
`MigrateLegacyProxyLocations`, `MaterializeAgentSkills`, `WriteAgentInstructions`,
and the next agent. Removing is `RemoveAgents`, which checks every configuration
before it changes anything, then `DropAgent`, `RemoveEntry`, `RemoveBlock`,
`RemoveProfile` per agent, then Cline's settings. The registry is the code's: seven
agents with their files, formats, legacy locations and quirks.

**Toolkits.** `disk` are the files of the workspace (contents are versions,
`Junk` is the user's), `toolkit` and `locked` the manifest's and the lock's entry,
`policy` the guardrail's file. `InstallToolkit`, `RestoreToolkits` and
`RemoveToolkit` decide what is to run; `RunToolkitCommand` lets the native installer
write, `ToolkitCommandFails` lets it fail after writing any part;
`RollbackNewToolkitPaths`, `RecordToolkit`, `Relock` and `RelockFails` are what Maia
does next. All end in the loop over the agents.

**EnvFiles.** A file maps a name to what stands right of `=`, a sequence of quotes,
backslashes and other characters. `ConfigureMcpCredentials` reads, `AnswerCredential`
asks, `WriteEnvFile` writes what was read with the answers; `EnsureEntries` adds
placeholders; `EnsureInitialized` and `RemoveLegacyFile` migrate. `Given` is what a
server would be started with.

## Runs

| run | bounds | checks |
|---|---|---|
| `resilience` | three callers, one server, threshold 2, budget 2, waits up to 2 units, `MaxFailures` 3 | types, circuits, half-open, retries, refinement of `BreakerSpec`, cool-down, every call settles |
| `sessions_serial` | two servers, two slots with two and one attempts, three sessions, all operations, no overlap on a server | no orphan, clean exit |
| `sessions_overlap` | one server, two overlapping slots: calls; calls, health checks and shutdowns | what holds in spite of the races, every operation ends, the process ends |
| `sessions_orphan` | the same | finds the orphan (below) |
| `sessions_aborted` | two servers, no overlap | finds the aborted shutdown (below) |
| `transport` | four requests, three of them timed, each kind of transport | types, own answers, pending map, exit, refinement of `Requests`, timed requests settle |
| `install` | a remote skill, a tool, an MCP; two revisions, one edit, one fault, undos that fail besides; all commands | types, what success records, a bare install mends, a rolled-back block, ci vouches, ci checks first |
| `serving` | a server over stdio or HTTP, modern or legacy, an absent one over HTTP, a modern one over a WebSocket; another the agent is denied, three skills; the first collection and three requests; one edit of the catalog, one fault | types, what a list holds, access, routing, the name forwarded, no downgrade |
| `workspace` | one skill, the seven agents asked for in groups of up to three, two candidates for Cline's settings; two toolkit versions, five files, three policies; three names with values of up to three characters; three commands about agents or two about the rest, one kill or edit | types, what the files say against what is registered, installed and locked, failures undone, what is the user's kept, the guardrail, credentials |
| `migration` | the credentials part of the same | finds the values the migration changes (below) |
| `install_lock` | two remote skills, two revisions, install and lock only | finds the unrestorable lock (below) |
| `install_failure` | a remote skill and a tool, one fault | finds the source left behind (below) |

Three callers let one sleep while the second opens the circuit and the third
probes it. With threshold 2 and budget 2 a circuit can be opened by the retries
of one call and by two different calls; `MaxFailures` only stops *new* operations
on a server, so a half-open circuit can fail again before it. Circuits of
different servers share nothing, so one suffices. Two slots, one of them with a
retry, are the least for every race of the session map: one task replaces, uses
or stops the session that another is starting. An attempt creates at most one
session, so three are never short. Two servers are needed for a shutdown to fail
between them. Four requests let one time out, be answered late while another has
the next id, and a third wait for the socket, while the fourth has no timer.
One remote skill and one tool give either wave of `reinstallFromLock` a member and
each kind of install its program; two revisions let the source, or maia, change
once under an installed artifact. One edit is any state of one file, so a single
one reaches what a sequence of crashes would leave of it; commands repeat without
bound, so the state a fault left is the start of every other command. In
`serving` the second request is a list, a stop or what changes nothing, between a list or a call and a
call: the least for a stop under an operation, with the answer, the timeout or the exit
that comes after it, for two collections that overtake one
another and for a call by a list that has changed. The scenes of `workspace` are the
states a project may be found in that a command treats specially: an entry in a
legacy location, in Cline's settings or in the agent's own file, an instruction file with the
user's text, a file of the user where the toolkit's go, a protected one, a malformed
policy, placeholders, quoted values, a legacy default, a global file. Two commands
about the toolkit are an installation and whatever comes after it; one about agents
more is what it takes for an agent to be added, disturbed by another that shares its
file, and refreshed. The
violations need less: each of their bounds is the smallest that reaches one.
No run uses symmetry: in most, liveness is checked, and in `install` each set has
one member. Deadlock is checked in `install`, where a command can always start, in
`workspace`, where only the end of a command is an end (`Rest`), and in `serving`, where it is when everything asked for is answered (`Quiet`); elsewhere
the runtime's processes may have nothing left to do (budgets spent, all promises
settled), and it is not checked there.

**Fairness.** Weak, and only for what the runtime does by itself: promises that
are settled run their continuations, timers fire (`delay`, request timers, the
deadline), `close()` does not wait. Operations are assumed to end in `Resilience`
because every request has a timer by default (15 s); that assumption is discharged
in `Transport` by `TimedSettle`, where only timers, callbacks and the connection
attempt are fair and the server need not answer. A request made with a timeout
of 0 on a WebSocket closed while connecting waits for ever; `TimedSettle` is
therefore about timed requests. No operation has to begin, no child has to exit,
and standard input need not close.

### Findings

* `sessions_orphan`: two operations on one server overlap; both deletions are by
  name, after an await, and one of them removes the entry of the session the
  other has just registered. Its child keeps running and no shutdown reaches it,
  although the change log says children cannot outlive the process as orphans.
* `sessions_aborted`: a server that rejects the legacy `shutdown` request makes
  `shutdownAll` stop in the middle. The process exits at once, with the other
  servers' children running, before the deadline that is meant to be the only
  excuse.

* `install_lock`: all packages of a source share its entry in `manifest.sources`,
  and every install from a catalog sets its ref to the commit of the moment. The
  skills installed before keep their content, but the next lock names the new
  commit with their old hashes. It is not stale and it verifies; on a clean
  checkout `ci` fetches the new commit and fails its last check. FR-007 of
  specs/004 says a lock is always valid input for `ci`.
* `install_failure`: an install saves its source before its rollback block begins,
  so a later failure leaves the source, or the ref it moved, in the manifest. The
  property also fails in other ways, which the smallest trace does not show: a
  re-install whose `buildLock` fails removes the dependency and the artifact that
  were there before it (`installSkill`'s undos do not put back); a removal that
  fails on the agents puts back the records but not the artifact; a `ci` whose
  toolkits fail deletes artifacts that were there when it began. `BlockUndone`
  is what does hold.
* `migration`: moving `.env.maia` into `.maia/mcp.env` writes values that still have
  the quotes they were stored with, escaped and quoted once more, and the reader
  strips one pair and unescapes nothing: the server gets `\"v\"`. And the placeholder
  `X=""`, which maia writes itself, wins over the value the legacy file has. The
  comment of the function says that no existing value is lost.
### Seen while modelling, without a run

The models do what the code does here; no property claims otherwise.

* *Credentials.* A `X=""` placeholder counts as a value, so it is never asked for
  again; a value with `"` or `\` does not survive being written and read; a value put
  in the file while a question waits is overwritten by the answer, also an empty
  one; lines equal to a legacy default are dropped; a server that is running does
  not see a corrected value. README.md says prompts do not echo secrets; the text
  pasted is visible (configure.mcp.credentials.from.result.ts:72).
* *Toolkits.* The `undo` that `restoreToolkits` returns is never called. A malformed
  guardrail policy makes `toolkit rm` throw when the manifest and the lock have
  changed already, and the agents' blocks go on naming the toolkit. The guardrail is
  not asked when the toolkit is "absent", which includes a version file that cannot
  be parsed. The integrations in the lock are stale after `agent add`.
* *Agents.* Codex, Zed and Continue share `AGENTS.md`: the one configured last has its
  block in it, and removing one strips the others'. `agent add` saves an unknown id before it
  throws; from then on every command that restores the agents throws, and
  `agent rm` refuses the id (FR-011 of specs/001). A failing `maia rm` declares the
  skill again whose files are gone. An offer to Cline that fails half way says
  pending though some settings were written. Maia's TOML entry is removed from any
  table that has one (remove.toml.mcp.entry.ts:6 says others are not touched). A block
  torn by a kill takes the user's text after it along when it is rewritten twice.
  The guidance file repeats its text when it is written again (FR-009).
* *Serving.* A tool's name is sanitised, and the router forwards the sanitised name: a
  tool with a dot in its name cannot be called. The name is cut after its first `__`,
  also when that is in the server's own name: "q" of "my__docs" is listed as
  `my__docs__q`, and the server is called with `docs__q`, though
  to.proxied.tool.name.ts:15-16 says the router can still split the name;
  `ForwardedAsExposed` is what holds of the other servers. Two servers may share
  a proxied name; the first of the list is called. Under the default "allow" a call
  to a server that was removed or disabled is still forwarded over a running
  session. A slower, older collection overwrites a newer cached list
  (`ListedIsRouted` says what holds otherwise). A `tools/call` that timed out is
  retried and may run twice.

## Proofs

Each theorem holds for every value of the constants that satisfies the ASSUMEs of
its module: any finite or infinite number of callers and servers, any thresholds
and waits; any number of sessions and tasks; any finite set of requests.

* **Resilience.** `BreakerInvariant` is about the abstract breaker alone;
  `ResilienceInvariant` is about the controller and its callers. `ResilienceInv` is the type invariant, `CircuitConsistent`,
  `HalfOpenHasProbe` and `RetryInv` (the phase of a caller against its kind,
  attempt and error). `HalfOpenHasProbe` is inductive only with
  `CircuitConsistent`: a failure of any caller opens a half-open circuit because
  its count is still at the threshold. The refinement of `BreakerSpec` and the
  cool-down property follow step by step from it.
* **McpSessions.** `SessionsInv` adds to the properties what ties a task to its
  session (`SessionInv`, `KindInv`), that at most one task touches a server
  unless operations overlap (`SerialInv`), that a live child is then the one its
  entry leads to (`OrphanInv`), and what a shutdown under way has still to do
  (`ExitInv`). That a session given up has its
  transport closed (`GivenUpIsClosed`) is part of it. `NoOrphan` is not inductive without `SerialInv`: the deletions by
  name are harmless only because nobody else is at work on that name.
* **Transport.** `TransportInv` adds that ids are handed out once and counted
  (`nextId` is one more than the number of requests sent, which bounds it), that
  the server knows an id only from the request that had it, and that a transport
  whose link ended is not open. `OwnAnswer` follows because a pending entry and a
  received one with the same id have the same owner.

* **Install.** `IInv` is the type invariant in two parts and the shape of a lock.
  The other invariants are positional: they say, for each command and step, how
  the records relate to those at its start. `CiInv` says that up to `Gates` a ci
  has changed nothing but a missing lock, and that past it the lock is the one the
  gates accepted. `BlockInv` says which undos are due in a
  block at each of its steps (`UndosOK`) and what the records are in terms of
  those (`FilesOK`): `BlockUndone` is not inductive because the records are wrong
  while the undos run, and only the list of those still to come says what will be
  right. `RecordedInv` says that once past the last `buildLock` no step touches
  what the lock records (`PastLastLock`); a removal's last step deletes the
  artifact of a package already undeclared, which the lock does not name.
  `HealInv` follows `reinstallFromLock` through its two waves: what a wave has written so
  far (`Written`) is what the lock of that moment names, and stays so, because the lock
  changes only at the `buildLock` after the waves, and then only in the commit of a
  branch that moved (`Heads`). That a restored skill has a revision at all needs
  `SourceInv`: no command, failure or undo leaves a remote skill declared without a
  source. `InstallHeals` joins it with `RecordedInv`, `CiVouches` with `CiInv`.

* **McpServer.** `IInv` adds to the types (`Typed`) what each link's client is doing:
  only the operation that made a client negotiates on it, the others wait or converse
  in the era that was agreed on (`LinksInOrder`). `NoDowngrade` is a
  part of it, and is inductive only because no second handshake can begin on a client
  that has had one. Requests that have not come have left no trace (`Expects`);
  those that have ask only what was authorized, at some moment since they arrived
  (`Serving`), from which `AccessRechecked` and `ListIsCurrent` follow; and the cache
  is the newest answered list unless an older collection ended after it
  (`CacheIsLatest`), from which `ListedIsRouted` follows. A call under way has
  the tail of a name one of its server's tools was listed with, which is that tool's
  exposed name when the server's is a single part (`ForwardedAsExposed`). A closed
  transport is no exception to `LinksInOrder`: what a terminating process still
  answers, or lets time out, is a step like any other. The assumptions are that requests are
  numbered and packages and catalogs are of the shapes the code reads
  (`ClientAssumption`, `ServingAssumption`).
* **Toolkits.** The theorems are about `Workspace`, so whatever the commands about
  agents and credentials do in between is covered. `IInv` is in four parts. `Plan`:
  the command under way has types, its steps follow from how it was planned, and every path it will
  touch is one of the toolkit's. `LockInv`: between the two writes the lock pins what was
  declared before, else what is declared now. `GuardInv`: before a switch or a removal
  the guardrail was asked about every place of the toolkit that is there, with the policy
  that is still in force unless the user edited something; the places differ in their
  first segment, so a protected file is in exactly one. `UndoneInv`: until the
  installer has succeeded the files are those found, except new ones among the places
  that were not there before, and these are what the rollback takes away. Only the
  installer's own failure is undone so: once all of it has run (`InstallerRan`) a
  failure of what follows leaves its files, as the code does, and when that is
  `buildLock` in `recordToolkit` they are unrecorded. `FailedInstallUndone` and
  `GuardedKept` follow step by step. The assumptions are on versions, paths,
  requests and scenes (`VersionAssumption`, `PathAssumption`, `AgentAssumption`,
  `SceneAssumption`).
* **Workspace.** `WorkspaceProofs` extends the proofs about toolkits to the files of the
  agents. `Typed` gives every file, and the task of the command under way, its type; it
  needs `Plan`, because a toolkit command ends in the loop over the agents. To spare each
  invariant a case per action, what a step does to the files is stated once:
  `ConfigMove`, `NotesMove`, `SettingsMove` and `ProfileMove` (`AgentMoves`, `Moves`).
  `RefusalInv` says that until the user touches a file a removal under way can read every
  configuration it has still to change (`Readable`): dropping one agent spoils no file
  another one needs, so that a removal only ever fails before its first change.
  `ForeignInv` says that a whole configuration, one no kill tore, and every settings file
  has what others wrote, and that an untorn instruction file is `Shaped`: the user's
  lines, and at most one block of Maia's with its markers in order, which is why replacing
  from the first start to the first end takes no line of the user's. The proof attempt
  corrected the property: Continue's file is Maia's own, and is overwritten even when it
  cannot be read.
  `AgentsInSync` is about idle states only; that it holds there needs what the loop over
  the agents has done so far. `LockIsFresh` says that the lock is what the manifest
  demands, except between the two writes of a toolkit command and after a kill there, when
  no agent is settled; the loop starts only from a fresh lock. `SyncInv` says that the
  agent being configured already has its profile, and then its copies (`Underway`), that
  an agent being removed is no longer declared (`Dropped`), that a file has only blocks
  of agents whose file it is (`NotesOwned`, so that writing one agent's block makes no
  other agent's stale), and that every settled agent agrees with the lock (`Agrees`) at
  every step but while a toolkit is removed, when the lock is ahead of the blocks.
  `ClaimInv` says that a status of "registered" in hand is true already (`LoopInv`) and
  stays so once written (`BlocksTrue`): a later registration only adds entries, and
  dropping or unregistering another agent touches neither this one's entry nor the
  settings it rests on.
  `CredentialsInv` is about the files of the credentials, which no other command
  touches. A file is a function from names to texts or `NoLine`; what a text looks
  like matters only for the lemmas about quoting and its normalisation. While a command
  asks or is about to write and the user has edited nothing, `JobFits`: a name it has a
  placeholder or a question for still lacks a value (`Lacks`), and a migration carries
  every line of the project's file. `ValuesSurvive` follows step by step: only
  `WriteEnvFile` changes what is given, and only for names that lacked a value, or
  in a migration for those it carries, or by dropping a line that repeats a legacy
  default. A plain answer comes back as it was given because
  nothing in it is escaped. Its assumption is `EnvAssumption`: answers are
  texts, and the marks for no line and no file are not.
  `TypeOK` needs what is left: that no agent is declared twice (`Once`), that the
  global tool, if there is one, has a version of the catalog and a snapshot names
  only paths that lead to a file the workspace may have (`Tooled`), and the bounds (`Spent`).
* **Lists.** What `Keep` and `Distinct` return, for every list: their elements, their
  type, and that no element comes twice. They are defined by recursion on the length; as the library's
  induction theorems cannot be instantiated, the proofs take the least length at
  which a set of good lengths fails (`Least`, `Induct`), from the well-foundedness of `Nat`.

Liveness (`CallsSettle`, `OperationsSettle`, `ExitsOnClose`, `TimedSettle`) is
model-checked only: fairness and ENABLED are out of the proof system's reach.

Every invariant, and every action property, that a run expects to hold is a theorem.
None of the modules the theorems are about has a recursive operator.

## Not modelled

* Catalog providers, search and remote skill fetching: network and archives, no state
  that outlives a request.
* The command line, help, listing commands, `context`, and the release and source
  checks under `scripts`: parsing and printing.
* Built-in tool types and package metadata: declarations.
* The decoder's buffer, HTTP headers, SSE parsing: conversions whose results the
  models start from.
* The text of JSON, TOML and YAML edits and glob characters: the models have what an edit keeps and
  what a pattern matches by segment.
* `writeFileAtomic`: one step here; that a rename is atomic is the file system's.
* Two maia processes changing one manifest, which lose one another's updates:
  every change is load, modify, save without a lock, and nothing in the code
  promises more.
* The manifest's older formats and the migration of the stale local source.

## Plan

1. Done: `CircuitBreaker`, `Resilience`, `McpSessions`, `Requests`, `Transport`,
   `Install`, `McpClient`, `McpServer`, `Access`, `Guardrails`, `ToolkitPlan`, `Toolkits`,
   `AgentRegistry`, `AgentFiles`, `AgentConfig`, `EnvFiles`, `Workspace`, with their
   theorems.
2. Beyond these: a two-process instance of `Install`, and `Resilience` and
   `McpSessions` composed, with refinement mappings to both.
