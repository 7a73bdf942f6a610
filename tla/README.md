# Licensify: formal models, checks and proofs

This directory models Licensify — a Go licence server and a Rust client core with SDKs around it — in
TLA+. TLC checks the models on small instances; TLAPS proves the results that matter most for every
value of the constants. `PROJECT.json` is the machine-readable index: which definition stands for which
lines, which run checks which property, and how each property is shown to be able to fail.

    tlc -workers 2 -config ClientProtocol.cfg MCLicensifyClient     # a run
    tlapm LicensifyClient_proofs.tla                                # the proofs of a module

## 1. Inventory

| Component | State | Operations | Hard about it |
|---|---|---|---|
| Client core (`client/src/lib.rs`) | in memory: config with the trusted token key, licence key, entitlements, last online error; on disk: the cache and the `.seen` marker | `activate`, `check`, `deactivate`, two setters | four requests and two files, any of which may fail half-way; exits; several processes on one cache path; a clock the user sets |
| Token (`token.rs`, `token/token.go`) | – | `Build`, `parse`, `verify` | window boundaries, skew |
| Certificate chain (`cert.rs`, `ca/ca.go`) | root, intermediate and keys of one process, and when they were made | `NewAuthority`, `IssueLeaf`, `verify_chain` | a new authority in every process; three windows that begin and end at different times |
| Cache (`cache.rs`), fingerprint (`hardware/`) | the sealed blob; the environment the fingerprint is read from | `encrypt_token`, `decrypt_token`, `machine_id_bytes` | the fingerprint is taken anew at every use |
| Server API (`api/server.go`) | seats; otherwise the store | licence CRUD, seats, `activate`, `validate`, `deactivate`, `heartbeat`, published keys | handlers go to the store more than once, with nothing held in between |
| Store in memory (`db/memstore.go`) | licences, opaque records | `Create`, `GetByID`, `GetByKeyHash`, `Update`, `StoreOpaqueRecord`, `GetOpaqueRecord` | copies that share pointers; a mirror of the registration; uniqueness of keys |
| Store in Postgres (`db/pgstore.go`, `migrations/`) | the tables | the same, and `ensureSchema` | several processes that start at once; statements carried out and not answered |
| Licence service, auth service | – | `Create`, `GetByKey`, `Update`; `Register`, `StartLogin` | which field `Update` may change |
| Server process (`server/run.go`, `cmd/`) | token key, authority, the choice of store | start, end | what a restart makes anew |
| C interface (`ffi.rs`) | a handle, its error slot | the `licensify_*` functions | verdicts become codes and out-parameters; an error slot that several functions set and some clear |
| SDKs (`sdk/`) | a handle pointer | wrap the C interface | – |
| MCP server (`mcp/licensify`) | time of the last good check | tools over the TypeScript SDK | awaits inside `summary` |
| Hardware match, harness, examples, proto, CI | – | – | not part of a running system, or unused |

How they talk: the client makes four HTTP requests in one `activate` — token key, activate, CA root,
validate — each of which may be served by another server process. The token it gets is sealed into the
cache file under the machine's fingerprint. From then on `check` needs no server: it opens the cache,
verifies the token under the key the client trusts, compares the machine and the rollback marker, and
rewrites the marker. Server handlers run in one goroutine per request and meet in the store.

What makes each part correct:

* client: *Valid* is said only of genuine tokens of this machine, within their window, not older than what
  was accepted before; the marker is one register, however many steps it takes to rewrite it; signed entitlements show only with the call that earned them; a failing check
  takes nothing away; an activation reported as online is durable; calls return;
* stores: keys stay unique; registrations and revocations are not forgotten by concurrent updates; what was
  acknowledged stays; either store is the same registry to its users; a server that starts finds its tables;
* C interface: a status of 0 means signed features; the error slot is about the last call; nothing it does takes the
  client out of its module;
* MCP server: every call is answered; a summary is a snapshot unless another call came in between;
* client and server: what is reported was granted to the key that was entered; an exchange nothing
  disturbs succeeds while the clocks agree and the authority is in force; the server's answers are those the client was designed for; licences and registrations
  are one registry, whichever process serves, and however late.

The hazards behind these are listed, each at its line, in `PROJECT.json`.

## 2. Modules

| Module | Models | Composes |
|---|---|---|
| `LicenseToken` | tokens, leaves, and the verdicts of `verify` and `verify_chain`, as operators | |
| `LicensifyClient` | the client core as a state machine | `LicenseToken` |
| `RollbackRecord` | what the rollback marker stands for: the abstract specification of it | |
| `LicensifyClientProperties` | what the client promises | `LicensifyClient`, `RollbackRecord` |
| `LicensifyClient_proofs` | theorems about it | the above |
| `RollbackRecord_proofs` | that the marker implements the record | `LicensifyClient_proofs` |
| `CInterface`, `CInterface_proofs` | the C functions over the client, and theorems | `LicensifyClientProperties`, `LicensifyClient_proofs` |
| `LicenseRegistry` | what the `Store` interface promises: the abstract specification of both stores, and of the system's | |
| `LicenseStore`, `LicenseStore_proofs` | `MemStore` and the handlers that use it more than once; theorems | `LicenseRegistry` |
| `PostgresStore`, `PostgresStore_proofs` | `PgStore`, the start of processes on one database, and the handlers; theorems | `LicenseRegistry` |
| `LicensingSystem`, `LicensingSystem_proofs` | server processes, the network, and the client; theorems | `LicensifyClientProperties`, `LicenseRegistry`, `LicensifyClient_proofs` |
| `LicensingExchange_proofs` | theorems about whole exchanges | `LicensingSystem_proofs` |
| `McpHandlers`, `McpHandlers_proofs` | the tool handlers of the MCP server; theorems | |
| `MCLicensifyClient`, `MCCInterface`, `MCLicenseStore`, `MCLicensingSystem`, `MCMcpHandlers` | constants, symmetry and views for TLC | |

### The client (`LicensifyClient`)

`now`, `machine`, `cache_file` and `seen_file` are shared by all handles; `config`, `license_key`,
`entitlements_cache`, `last_online_error` are the fields of one `LicensifyClient` value; `call[h]` is the
call handle `h` is in, with the locals it still needs, and `result[h]` what the last one returned. An
action is what happens between two points where something else can: an HTTP answer
(`TokenKeyAnswered`, `ActivateAnswered`, `CaRootAnswered`, `ValidateAnswered`), a failed request
(`RequestFails`), an open with truncation and the write after it (`CacheTruncate`/`CacheWrite`,
`MarkerTruncate`/`MarkerWrite`), a read of the marker (`CheckRollback`, and again `MarkerRead` in
`write_rollback_marker`), each removal of `deactivate`. Every file operation may fail; `ActivateLocally` is the
fall-back all errors of an activation end in. `Restart` ends a process wherever its call is.

Taken in one step: the clock, the cache file and the two fingerprints that `check` takes (decryption and
binding test), which no test could tell from a change just before or after unless the fingerprint changed
twice; the four fingerprints of an activation are taken apart. A signature is the key that made it; a sealed blob opens only under its fingerprint. Left out: formats,
base64 and JSON, the licence id, the nonce, the one wire version, and the error texts.

Two history variables serve the properties: `honoured`, the newest `issued_at` accepted — by a check or
by an online activation — since the marker was last removed, and `torn`, whether a rewrite of the marker
was cut short since.

`RollbackRecord` is the marker as the rest of the code may think of it: one register. A call *presents* a token once it has verified it,
and from then on the specification has no choice left: a check that is *Valid* presented a token that is not too old for what the register holds
when it answers, and that token is entered with the answer; one that refuses a presented token did so because it is too old; an activation enters what it presented;
a deactivation empties the register; and it is lost only as a whole. The mapping is in `LicensifyClientProperties`: `Marker` is the file, or, while that
is truncated, the value the call that rewrites it has in hand; `Presented` is the `issued_at` of the token a call holds, so that a call that
compares another token, or does not compare at all, has no step in the record.

### The C interface (`CInterface`)

`open`, `running`, `answer` and `last_error` are a handle's life, the C function that runs on it, what the last activation or
check answered, and its error slot. A C function starts the client's method (`CallActivate`, `CallCheck`), goes on with
the client's own steps (`Continue`), and sets answer and slot in the step in which the method returns. `New`
is `licensify_new` over an old handle or none, `Gone` is `licensify_free` or the end of the process. There is no C function for `deactivate`, and only
`licensify_check_code` has an out-parameter.

### The registry and its two stores (`LicenseRegistry`, `LicenseStore`, `PostgresStore`)

The registry is a map from ids to licences with a key, contents and a registration; it has one action per method
of `Store` that changes anything.

`records` and `opaque` are the maps of `MemStore`; a store method is one step because it holds the mutex.
In `LicenseStore`, `request[r]` is a handler between two store calls, with its copy of the licence. A licence keeps one
field of each sort: `revoked`, copied with the struct, and `seat_count`, a pointer, whose target is in
`heap`; `Bound` and `Written` say what Go's JSON decoder does to each: it writes *through* a pointer that is set.
`Registry` is the refinement mapping: a registration is what `opaque` holds, and the contents are `revoked` with
the number the pointer leads to, so that a write through a shared pointer shows in it.

`PostgresStore` has `process[i]`, how far the start of `i` has come, `schema` and `migrating` for the tables and the transaction that
creates them, and `licenses`, the rows. `Probe` is `to_regclass`; the migration is one simple query and so one transaction, in which the
`if not exists` test (`CreateIfNotExists`), the creation, which waits for another that is uncommitted (`CreateTables`),
and the commit are steps of their own; `Exit` ends a process anywhere. A statement is atomic and may go unanswered.
`PgStore.StoreOpaqueRecord` does not look at its row count: it is only called with an id just read, and no statement deletes a row.
`AcknowledgedIsKept` therefore says that a statement is carried out before its request is answered, and nothing about rows that go missing.

### Client and server (`LicensingSystem`)

Server processes `Instances` each have a `token_key` and an `authority`, a root key and the time it was made; `licenses` and `registered` are
what the store holds. `ServeX(i, h)` is a handler of process `i` answering what `h` asks; `Receive(h)` is
the client handling it, with the action of `LicensifyClient` for that answer. `RequestLost` gives up on a
request, which may still be served (`ServeLate`). `ServerRestart` follows `Run`: a new authority always, a
new token key unless one is configured, an empty store unless there is a Postgres. The windows of root and intermediate
begin together, one hour before that time, and the intermediate's ends first, so the two are one window in the model (`InForce`); the leaf has its own, which may end
after it. Handlers are one step
here; `LicenseStore` is about their insides. `Registry` maps `licenses` and `registered` to the same `LicenseRegistry` the two stores
implement; `StoreIsRegistry` adds the step `Emptied`, in which a store in memory dies with its process.

### The MCP server (`McpHandlers`)

A native call blocks the event loop, so a step is what a handler does from one await to the next; `request[r]` is where it is,
with its locals. `client` says whether the process has a client at all. The native client is kept down to the entitlements of its
handle: an activation leaves signed or default ones, a check that is *Valid* signed ones, any other none of its own, which is what
`CInterface` and its theorems say of the functions. A time is the number of recordings up to it. The histories `found` and `alone` are what a
call's check left behind and whether another call came in since.

## 3. Runs

| Run | Instance | Shows | States |
|---|---|---|---|
| `client_protocol` | 1 handle, 2 token keys, 2 fingerprints, times 0..3, skew 1 | durability of an online activation, rollback protection, genuineness of *Expired*, that checks take nothing away; the marker implements the record (refinement) | 1.1 M |
| `client_handles` | 2 handles, 2 token keys, 2 grants | what two processes on one cache path can do to each other | 3.6 M |
| `c_interface` | 1 C handle, 2 fingerprints, 1 grant with other features than an offline activation | the C functions keep the client within its module (refinement), codes and out-status, the error slot, the machine binding of *Valid*; every C function returns | 1.1 M |
| `store` | 2 requests, 2 licences, 2 keys, 2 seat counts | concurrent creations, updates, registrations, logins; `MemStore` implements the registry (refinement) | 0.62 M |
| `postgres` | 2 processes, 2 requests, 2 ids, 2 keys, 2 uploads | concurrent starts, deaths anywhere, lost answers; `PgStore` implements the registry (refinement); every start ends | 0.26 M |
| `mcp` | 3 tool calls, 2 grants with different features | interleavings at awaits: torn summaries, times of checks, that every call is answered | 0.36 M |
| `system_keys` | 2 licence keys, grants and fingerprints, no Postgres, restarts, late requests | no answer or entitlement strays to another key; the handlers treat the store as a registry (refinement) | 1.2 M |
| `system_clocks` | 1 licence, 2 token keys, times 0..2 on both sides | the client stays within its module (refinement); undisturbed exchanges are not refused while clocks agree and the authority is in force; what a failed re-activation can cost | 1.4 M |

Why the bounds are enough. Times matter only by their differences to the skew and to the ends of the
windows; with a skew of 1, times up to 3 put a token before, on and beyond each limit. Two handles, processes or requests
are the fewest that interleave, and each holds one token, row or copy at a time; `mcp` has three calls because a summary, a call that
tears it and one that answers in between are three. Two token keys tell the
trusted from any other, two grants the token's from another's. `MaxTime` is the only bound the
modules themselves have; all others are sizes of constant sets. In `LicensingSystem` a key or authority value returns after
two restarts, which gives the servers more behaviours than random keys do, never fewer. In `Store.cfg` a body that names an id
names nothing else (`MCBodies`), and states are told apart up to the names of cells (`UpToCells`), which no definition can tell apart.
`SystemKeys.cfg` leaves out of the view what no step and no property of the run looks at: the histories `disturbed`, `held`, `honoured`
and `torn`, and `last_online_error`.
`SystemClocks.cfg` leaves out of the view the histories its properties do not look at and late requests for a registration that is already there
(`MCExchangeView`), and goes no further from a state in which the executable does not meet its pin (`MCUnpinnedStays`): no check passes there and an exchange does not look at it.
Its `CaBackdate` and `CaTTL` are 1, so that with times 0..2 a clock comes to lie before the window of an authority, inside it and beyond it while the two clocks agree;
without `AuthoritiesInForce` among the excuses of `FailsOnlyIfDisturbed`, TLC finds both ends. In `system_keys` and `doc_stateless_instances` there is one time, and the authority is always in force.
`client_handles` uses a next-state relation without clock, exits and setters
(`SharingNext`), because what it asks about is the files. `mcp` is the only run that stops: each of its calls comes once.

Fairness. `WF_cvars(Continue(h) /\ LocalStep(h))` for each C handle, as `WF_vars(LocalStep(h))` in `LicensifyClient`: a process that keeps
running goes on with its call; a request without an answer runs into the 4 s timeout set at `lib.rs:171`. `WF_vars(Boots(i))` for each process of
`PostgresStore`: a process that runs goes on with its start; and `SF_vars(CreateTables(i))`: Postgres grants a lock to
those who queue for it in turn, so that a start is not overtaken for ever by others that take it and die.
`WF_vars(GoesOn(r))` in `McpHandlers`: the event loop comes to every promise that is settled. No fairness is
assumed of servers' answers, users, calls, restarts or clocks. `FunctionsReturn`, `StartsEnd` and `EveryCallIsAnswered` rest on these.

Each property has a mutant, an operator named `Faulty...` next to the definition it replaces, which is a
plausible slip in that code: TLC finds the property violated with it.

Two properties say less than their names may suggest. `ClientSafety` holds of the client's part of the system almost by construction, since `Receive` goes through
the client's own actions: what it checks is that every answer a server gives, late or not, is one the client module was written for; what a restart
between two requests does to the exchange is the business of `FailsOnlyIfDisturbed` and `ReactivationLosesOnlyBy`. `AcknowledgedIsKept` is as said in section 2.

### What the documents say and the code does not do

| Run | Says | Does |
|---|---|---|
| `doc_record_of_handles` | `docs/architecture.md:17`: `check()` records the newest `issued_at` it honoured | two processes on one path can lower the marker |
| `doc_license_survives_restart` | `docs/architecture.md:14`: tokens verify against the key learned during `activate` | the learned key dies with the process |
| `doc_thread_safe_store` | `memstore.go:17`: thread-safe | an update's body is decoded into memory the stored licence shares, without the lock, even if it is refused |
| `doc_stateless_instances` | `docs/deployment.md:29`: Postgres is the only durable state, instances are stateless | each process has its own CA, so an activation served by two of them fails |

Three more are not runs of their own, because a property that holds says them more exactly:

* an exit inside `fs::write` leaves an empty marker, read as none, against the same line of `docs/architecture.md`:
  `HonouredIsRecorded` and `RollbackBound` except what `torn` records, and nothing else;
* `lib.rs:149-151` calls a failed online activation non-fatal, to be re-checked later, but it can cost the licence already held, since
  the trusted key is replaced first (`lib.rs:187`): `ReactivationLosesOnlyBy` lists the three ways;
* the MCP server calls a summary "one consolidated view" (`server.ts:230`), but another call may come between its awaits:
  `SummaryTornOnlyByOthers` says that nothing else tears it.

The same line of `docs/architecture.md` says that any strictly older token is rejected; the code tolerates
`CLOCK_SKEW_SECS` (60 s), and `RollbackBound` states the bound as the code has it.

## 4. Proofs

All theorems are about the specifications, of which the fair ones (`LicensifyClient`, `PostgresStore`, `McpHandlers`) are
proved about without their fairness (`Safety`), and hold for every value of the constants that satisfies the modules'
assumptions: times are naturals, absence (`None`) is not a value, and `Default` is not something a server signs.

**Any number of handles** (`LicensifyClient_proofs`). `ClientTypeCorrect` shows `TypeOK`, which carries what a call about to
write holds. `ValidIsGenuine` and `ValidIsBound` need a fact about calls that outlives interference: a check past its verdict
(`GenuineCheck`) holds a token it found genuine and bound when it read the cache, and neither the trusted key nor
the pin of its handle changes before it ends — whatever others write to the files. `SignedAreEarned` and `ExpiredIsGenuine`,
which has the exact boundary of the skew, are about single steps, from `TypeOK`.

**Calls that do not overlap** (`LicensifyClient_proofs`). Two handles whose calls overlap lower the marker — `doc_record_of_handles`
shows it — so what is about the marker is proved of behaviours in which at most one call is under way at a time (`[]OneCallAtATime`):
any number of handles and processes, one after the other, with exits anywhere, as a machine that starts the program again and again has them. `HonouredAreRecorded`,
`RollbackIsBounded` and `ChecksKeepLicense` rest on `AloneInv`, which says of every handle, while no other has a call under way,

* `Recorded`: unless torn, the newest accepted token is covered by the marker, or by the marker as this call
  read it while the file is truncated;
* `RecentCheck`: a check past the rollback test holds a token within the skew of `honoured`.

The invariant is inductive only together with the step that changes who is alone: a call ends or begins without
touching the marker (`BetweenCalls`), so that what one call left is what the next one finds. None of the
properties is inductive by itself: the marker file is empty in the middle of each rewrite.

`OnlineIsDurable` assumes one handle (`OneHandle`), since another handle's `deactivate` or activation, made afterwards, replaces the cache
that was reported. Its invariant `Durable` says that the cache, the key, the entitlements and the marker agree after an online activation, and needs
the cache to be what the call wrote while the marker is still being rewritten.

**The record** (`RollbackRecord_proofs`). `MarkerIsRecord` is the refinement, under the same `[]OneCallAtATime`. The record's step *Valid* needs that the token
presented is not too old for the register at the moment of the answer, though the code compared it three steps earlier, with what the file held then: `RecentCheck` carries
the comparison along, first about the file, then about the value the call read from it (`Recorded`). A step *Invalid* of a token that was presented has to be the comparison itself (`StepRefuses`);
a cache that does not verify is refused before it is presented. That a call has no verdict before it returns (`ClientIsSilent`) makes the step in which it comes to its token one of the record's. `AloneStep` has the steps of
a call that is alone, `BesideStep` those of a handle that has nothing under way. Unlike `RollbackBound`, which compares with the newest token ever accepted and
excepts what `torn` records, it is about what the register holds: after a rewrite was cut short as well, the token accepted next is entered, and later ones are compared with it.

**The store in memory** (`LicenseStore_proofs`). The inductive invariant `IInv` adds to `TypeOK`, `KeyUnique` and `SignsOnlyRegistered` that
an update's copy still has the key of the licence it addresses, and that its `revoked` is what was read unless the
body said otherwise (`CopyOK`): without it a wholesale write could bring in another licence's key. `KeysStayUnique`, `OnlyRegisteredAreSigned`,
`RegistrationsAreKept` and `RevocationsAreUndoneOnlyBy` follow. `StoreImplementsRegistry` is the refinement. Its hard step is a write through a
pointer outside the lock: it changes what exactly one stored licence shows, because a cell is shared by one licence and copies
of it and never by two licences (`CellsOwned`, a further conjunct of its invariant `SharingInv`).

**The store in Postgres** (`PostgresStore_proofs`). `ServersFindTables` rests on the transaction: there is at most one process
between creating the tables and its commit, it is the one `migrating` names, and there are no tables yet. `AcknowledgedStays`, `RevocationsAreUndoneOnlyBy`
and `PostgresImplementsRegistry` hold for any number of processes, requests and deaths, with `KeyIsFree` (the `UNIQUE` of `key_hash`) as what stands
between two creations.

**The C interface** (`CInterface_proofs`). `CKeepsClient` maps each C function's steps to steps of `LicensifyClient`, so that the client's
theorems hold behind it; `CValidIsBound` is one of them. `SlotStaysCurrent` and `CheckedAreSigned` need that a C function runs while, and only while, its
method does, and what a finished call leaves: after a status of 0 the entitlements are a grant, since `SuccessIsMarkerWrite` shows that
only the last write of a check returns *Valid*.

**Client and server** (`LicensingSystem_proofs`). `SystemKeepsClient` shows `ClientSafety`: every step of the whole is a step of
`LicensifyClient` or none, so the client's theorems hold against this server; `SystemValidIsGenuine` is the first of them. The steps
that need an argument are the answers: `SystemInv` adds to the client's `TypeOK` that what is under way to a handle answers what the handle asks
*now* — a key, a leaf, an authority, or a token for the machine id in that request — that nothing is under way to a
call that asks nothing, and that a call that asks has a licence key. `SystemTypeCorrect` follows with the sets of keys and the histories. `OnlineIsGranted` follows the
entitlements along their way (`GrantsOK`): those of a licence were granted to its key; those in an answer under way, and in the token a call holds,
to the key the call is about; those in the cache file and those a handle shows, to some key. It needs that the licence key of a handle does not change
while a call holds a token (`TokenComesFrom`), and that *online* is said by the last write of the call alone (`OnlineComesFrom`). Nothing is assumed
about restarts, clocks or how many processes there are.

`SystemIsRegistry` shows that licences and registrations change only as `LicenseRegistry` lets them, or are all lost with a process that has no
Postgres (`Emptied`); `DurableSystemIsRegistry` that with Postgres they are that registry and nothing else. What it needs
is that no registration is without its licence (`LicensedOK`): a request served after the store was emptied must not bring one back.

**Whole exchanges** (`LicensingExchange_proofs`). `ExchangesFit` shows `FailsOnlyIfDisturbed` for one server process, any handles, keys
and earlier exchanges: an undisturbed exchange is refused only for a key without a licence, between clocks that disagree (`ClocksAgree`), or by a clock outside the window of the
process's authority (`AuthoritiesInForce`) — set back by more than an hour from its start, or ten years on. Its invariant `ExchangeInv` says of an undisturbed exchange, phase by phase, what it has in hand (`Smooth`): an answer under
way is what the process would say *now*, the handle trusts the key the process signs with, its leaf is of the authority the process has, its key is registered
once `activate` was answered. Each step either keeps this or marks the exchange as disturbed. `OneProcess` is needed: `doc_stateless_instances` is
the counterexample with two. `FallingBackLosesOnlySo` shows `ReactivationLosesOnlyBy` for any processes: `Kept` says, for each phase
of an activation that began with a licence `check` accepts, what is left of it. Both need that a call has no result before it
returns (`ClientIsSilent` of `LicensifyClient_proofs`), and hence falls back in a step of its own (`FallsBackInOwnStep`).

**The MCP server** (`McpHandlers_proofs`). The invariant says of each call, by where it is, what it has found so far: `SummariesTornOnlyByOthers` needs that what
its check left is still what the handle has while the call is `alone`; `ReportedChecksAreNoOlder` that the recorded time never goes back.

**Only model-checked.** The liveness properties `FunctionsReturn`, `StartsEnd` and `EveryCallIsAnswered`, which are out of the prover's reach.
Every other property of a passing run is stated by a theorem.

## 5. Not modelled

Seats, heartbeats and the server's `deactivate`: seats are one set under one mutex that no limit is compared with, the other two change
nothing. The bytes of tokens, certificates and the cache, and the cipher. How the fingerprint is collected: it is a value that may change. Strings and null
pointers of the C interface. The SDKs for Go, C++, Zig and Rust, one call of the C interface per method; of the TypeScript SDK, `dispose`, which the MCP server
never calls. `hardware/match.go`, which nothing calls; harness, examples, proto and CI, which have no state of their own.
Revocation and expiry of a licence are not looked at by `activate` or `validate`: the models have it so,
and there is no property of the code to state about it. Bounded loss of precision in the leaf's extensions (`ca.go:109, 123`) has no reader.

## 6. Plan

Done: the client and its proofs, the C interface over it, the abstract registry with both stores and the start-up of
processes on Postgres, client and server together, the MCP server, and proofs of every safety property the runs check. Next, in this order:

1. `TokenCodec`: `marshal` and `parse` over bounded layouts, as pure functions.
2. The life of a handle in the Go and TypeScript SDKs.
