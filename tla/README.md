# ip_server in TLA+

A verification project for ip_server, a C++ HTTP service that looks up IP
addresses (MaxMind files) and MAC addresses (an SQLite table of manufacturers)
behind a result cache, a per-address rate limiter and API keys, and generates
passwords. The modules are translated from `src/src/`; `PROJECT.json` maps every
definition to the lines it models.

- Check a run: `tlc -config <run>.cfg <module>` (the pairs are in `PROJECT.json`).
- Check the proofs: `tlapm <module>.tla` for each of `DataProofs`,
  `RateLimiterProofs`, `CacheShardProofs`, `IPCacheProofs`, `MACLookupServiceProofs`,
  `IPGeoServiceProofs`, `EndpointProofs` and `ServerProofs`.

## 1. Inventory

| Part | State | Operations | Interacts with |
|---|---|---|---|
| Rate limiter (`rate_limiter.*`) | map address -> timestamps and list iterator, recency list, one mutex | `is_allowed`, `get_remaining` (request threads), `cleanup` (cleanup thread, every 300 s) | called by the middleware and by the cleanup thread |
| Result cache (`cache.h`) | per shard: map, recency list, bytes in use, counters, a mutex | `get`, `put`, `get_stats` | owned by each lookup service; statistics read by `/health` |
| IP lookup (`service/ip_geo_service.*`, `database/*`) | cache, two read-only memory-mapped files | `lookup` | called by request threads and batch tasks |
| MAC lookup (`service/mac_lookup_service.*`, `mac_database.*`) | cache, one prepared statement and its mutex | `lookup` | same |
| Endpoints and middleware (`http_server.*`) | none of their own | GET and POST `/lookup`, `/health`, `/`; authentication, source address, admission | API keys, limiter, services, metrics |
| API keys (`auth.*`) | set of key hashes, a mutex | `load_keys_from_file`, `add_key`, `is_valid` | filled by the constructor of the server, read by the middleware |
| Metrics (`metrics.*`) | two atomics; latency ring and timestamp window under a mutex | `record_request`, `record_error`, `get_stats` | written by request threads, read by `/health` |
| Lifecycle (`main.cpp`, `http_server.cpp`) | shutdown flag, `server_running`, threads, lifetimes of objects | `run_application`, `start`, `start_server_and_wait`, `stop`, `cleanup_thread_func`, `handle_signal` | httplib, the signal handler, every destructor |
| Configuration (`config.*`, `main.cpp`, `paths.*`) | a record; the configuration file, which outlives the process | parse, load, merge, validate, save | read once at the start; the file is written by the server and by operators |
| Password generator and handler (`password_*`) | none of their own | GET and POST `/password/generate` | the request threads and the metrics |
| Validation, logging | none | pure functions, wrappers | everyone |

What is hard to get right, and hard to test, is where several threads meet
(limiter, cache, the shared statement, metrics, shutdown), where two structures
must agree after any sequence of calls (map and list, bytes and entries), where
time decides (windows, times to live, the 500 ms grace period), where one step of
several fails (a batch task, one of three databases, `listen()`), and where a
process may die half-way (the configuration file while it is written). The
`hazards` of `PROJECT.json` list these with the line where each bites.

What makes each part correct:

- limiter: no address exceeds its quota in any window, none is refused before it
  has used it, the table stays bounded and evicts the right record; what a
  refusal says of the remaining quota is not made up;
- cache: map, list and byte counter agree, an insert evicts the least recently
  used entries and just enough of them, statistics add up;
- services: a lookup answers as if there were no cache and no other thread, and
  errors are not cached;
- endpoints: only admitted requests look anything up, a batch is answered in
  order, no task outlives its request, every request is answered, and answers and
  exceptions are counted;
- passwords: as many, as long and of such characters as asked for;
- configuration: options win over the file and the file over the defaults, what
  the server saves it reads back, and a start that could look at a file with content
  leaves it alone (one that could not overwrites it: section 3, at its end);
- metrics: nothing is lost or counted twice, percentiles and window are exact;
- lifecycle: no use after destruction or closing, no lost signal, a truthful exit
  status, the process ends.

## 2. Modules

| Module | Models | Notes |
|---|---|---|
| `LRUList` | the `std::list` with iterators that limiter and cache share | pure operators |
| `Sums` | sums over finite sets | pure operator, for the byte counter and the totals of properties |
| `RateLimiter` | `rate_limiter.*` | a call is one action, since the mutex is held throughout; `cleanup` is one action for its first loop and one per iteration of its second, with the mutex held (`sweep`) |
| `RequestGate` | `prepare_request` over `RateLimiter` | the two calls of a refusal are two actions of a thread, with everything else in between |
| `CacheShard` | `CacheShard` | functions from a shard to a shard |
| `IPCache` | `IPCache` over `CacheShard` | `get_stats` is one step per lock it takes |
| `LookupSpec` | what a lookup promises | abstract specification |
| `MACLookupService` | service and `OUIDatabase::lookup`, with the normalisation of addresses | one action per access to the cache, the mutex or the statement; refines `LookupSpec` |
| `IPGeoService` | service and the two MaxMind databases | the files are read only, so reading them is one step; refines `LookupSpec` |
| `ServerLifecycle` | from `run_application` to the end of the process | opening and closing each database and the prepared statement is a step, and each may throw, as may the creation of a thread; httplib is external: `listen()` binds, accepts, drains, returns; `stop()` closes the socket of a running `listen()` and otherwise does nothing |
| `LookupEndpoint` | GET and POST `/lookup`, middleware, source address, API keys | the services are a step that answers or throws, the limiter is its verdict |
| `PasswordHandler` | GET and POST `/password/generate` and the generator | extends `LookupEndpoint`: `ServerSpec` has both routes on the same threads and metrics; a password is any that the random choices allow |
| `Configuration` | `config.*`, the start of `main`, `paths.*` | many starts over one file, with crashes and edits between any two steps, files that cannot be opened or read, failed writes |
| `Metrics` | `metrics.*` | `record_request` is two steps, `get_stats` four |
| `DataProofs`, `CacheShardProofs` | lemmas | recency lists, finite sets, sums and sorted sequences; what `get` and `put` do to a shard |
| `RateLimiterProofs`, `IPCacheProofs`, `MACLookupServiceProofs`, `IPGeoServiceProofs`, `EndpointProofs`, `ServerProofs` | theorems | limiter and gate; cache; the two services; both routes; lifecycle, configuration and metrics |
| `MC*` | instances for TLC | |

How state and actions correspond to the code, where the names do not say it:

- `RateLimiter.sweep` holds the records the second loop of `cleanup` has still to
  unlink; while it is not empty, `mutex_` is held. `refused` of `RequestGate` is a
  thread between `is_allowed` and `get_remaining`.
- `call` of the services and `conn` of the endpoints are the locals of a handler,
  `pc` its next step. In `conn`, `tasks` are the futures of a batch in order.
- `objects` of `ServerLifecycle` are the databases, the prepared statement and the
  rate limiter that exist; the members `main`, `listener` and `cleaner` say where
  the three threads are. A database constructor that throws closes what it has opened
  itself (`ClosedOnFailure`) and goes to `destroy_services`, where only the members
  constructed before are closed; `destroy_mac` is `~OUIDatabase`, which runs only for
  a database that was constructed.
- `Configuration`: `pc` runs through `parse` (`peek` and `load` are the two times that
  `handle_config_file` opens the file, `opening` and `writing` are `save_to_file`),
  `prepare` (logger, directories, is there a file), `start` and
  `running`. A file is absent, empty, JSON, or something else; a JSON member has a
  kind and a value, since `from_json` treats kinds differently. `informed` says that the
  last look at the file did not fail and that nobody has touched the file since.

History variables (`granted`, `seen`, `evicted` and `answer` of the limiter,
`used` and `ops` of the cache, `log` of the metrics, `handled` of the lifecycle,
`history` of the endpoint, `created`, `foreign` and `informed` of the configuration) are read
by properties and bounds only. Definitions
commented *Seeded error* are variants of the definition that follows them with
the kind of slip one could make there. Nothing uses them; putting one in the
place of the original must make TLC find the property named for it in
`PROJECT.json` violated, which shows that the property depends on that code.

### Abstractions

- Keys, results and queries are model values, except that MAC addresses are
  sequences of characters, which are normalised as in the code (the colons of the
  formatted OUI are left out on both sides). Which queries are well formed is a
  table (`Valid`); a body parses, or has an error, or has one whose message quotes
  bytes that are not UTF-8, so that the answer to it cannot be serialised.
- A character of a password is its class and whether it is a confusing one.
- Widths: the integers of password requests and of the configuration file are cut
  to their types (`IntModulus`, `WideModulus`, 65536 for the port), with small
  moduli in the instances so that the cut happens.
- Whether a configuration file can be opened, read, and opened for writing, and how
  much of it is written, is open each time. An operator or another process may write or
  remove it at any time. A string of the file spells an integer, begins with one, or
  does neither (`std::stoll` takes the first two). `--help` is left out.
- Time is a number. The limiter and the metrics use the steady clock, which only
  moves forward; the cache uses the system clock, which in `IPCache` also moves
  back. `is_allowed` and `cleanup` read the clock several times: `Delay` bounds
  the time between the readings of one call, and the quota is stated up to it.
- A cache of a service is one shard with its counters left out (`Uncounted`):
  `get` and `put` touch one shard, and `IPCache` has the rest.
- `MayFail`, `MayThrow` stand for errors of SQLite and for exceptions of the JSON
  library when it serialises results, of `std::async`, of a lookup and of the password
  generator. An allocation that fails elsewhere is not modelled. Exceptions leave shards unchanged,
  because `put` computes the size of the entry before anything else.
- A condition variable with a timeout is an action guarded by its condition.

## 3. Runs

| Run | Instance | Shows |
|---|---|---|
| `gate` | two threads, three addresses, limit 2, two records, window 2, clock to 3 | list and map, order of eviction, bound, quota of addresses not evicted, refusals and remaining exact, what a 429 response promises |
| `limiter_quota` | two addresses, one record | **violated**: the quota of an address that was evicted |
| `cache` | two shards, four keys, results of two sizes under any key, four calls, a concurrent `get_stats`, a clock that is set back | consistency of map, list, bytes and statistics, and what an insert evicts |
| `mac_service` | two threads, four addresses (two makers, one unregistered, one malformed), room for two entries | truth of the cache, exclusive statement, refinement with liveness |
| `ip_service` | two threads, four addresses that differ in what the files say | truth of the cache, refinement with liveness |
| `lifecycle` | two requests at a time, rate limiter, others may call `stop()`, constructors and thread creation may throw | destruction order, nothing left behind, signals, exit status, termination |
| `lifecycle_slow_listen` | listening may start after the grace period | **violated**: a shutdown always completes |
| `endpoint` | two threads, thirteen kinds of lookup and twelve of password requests, exceptions of lookups, tasks, thread creation, generators, serialisation and a catch clause | order, no task left, admission, counts, passwords as asked, every request answered |
| `password_classes` | one request for four characters of four classes | **violated**: every class asked for occurs |
| `password_range` | one request, `int` of 16 values | **violated**: a length or count beyond the limits is refused |
| `metrics` | two recorders and a reader, four requests, ring of three | counter, ring, window, percentiles |
| `config` | one file, thirteen contents, nine sets of options | options win, restarts agree, truncated files are repaired, files with content are kept by a start that could look at them |

The bounds are the smallest at which the cases of interest happen: one more
address than records, one more request than the limit, a clock that runs past a
window (or a time to live), one more entry than the budget, batches of more items
than are handled sequentially (`SequentialMax` is 1 instead of 10) and than are
allowed (4), passwords of two to four characters, one more record than the ring
holds. `MaxOps`, `MaxGrants`, `MaxServed`, `MaxRecords`, `MaxErrors` and `MaxTime`
only make the instances finite. In `config` one file is enough, since a start
touches the file it was given and no other. Symmetry is used where addresses, keys
or threads are interchangeable and no liveness is checked. Deadlock is checked
except in the runs of the endpoints, where clients may stop sending.

### Fairness

- Services: a thread that can run is run (weak fairness on its next step), and a
  mutex released again and again is not withheld from one waiter for ever (strong
  fairness on `Lock`). Operating system scheduling and mutexes give this.
- Lifecycle: every thread's next step, the end of a timed wait, and the answer to
  an accepted request are weakly fair. Signals, requests, `stop()` and failures
  of `accept` are not: nothing has to happen.
- Endpoint: request threads and tasks are weakly fair.

### Disagreements found

1. *"Maximum requests per IP per minute"* (`config.cpp:47`): when more addresses
   than records are active, the least recently seen one is forgotten with its
   timestamps and starts again with a full quota. The limit is proved for
   addresses that were not evicted, and for all of them when the table is large
   enough.
2. *Graceful shutdown on SIGINT/SIGTERM* (`README.md:588`): a signal that arrives
   before `listen()` accepts connections, with a start of more than 500 ms (a slow
   resolution of the host name), makes the join wait for ever.
3. *GenerateMixedPassword* (`tests/test_password_generator.cpp:128`) expects every
   enabled class in a password. The characters that are to ensure this are written
   to random positions and may overwrite each other.
4. *Length 8-128, count 1-100* (`README.md:420` and `:426`, and "Count cannot exceed" of
   `password_handler.cpp:93`): a JSON integer is cut to an `int` before it is checked,
   so that a count of 2^32 + 1 is answered with one password.

In the models as in the code, with passing properties that say where the line is:

- The answer to a body that is not JSON quotes the message of the parse error, which
  quotes the body. If that is not UTF-8, `dump()` (`password_handler.h:26`) throws out of
  the catch clause (`http_server.cpp:395`, `password_handler.cpp:118`); httplib answers
  500 where the tests expect 400 (`tests/test_http_server.cpp:177` and `:799`), and no
  error is counted. `CountsMatchReplies` says that every other 500 for an exception is.
- `peek()` (`config.cpp:77`) sees the end of the file also when the file could not be
  opened or read, and one with content that can be written is then overwritten, though
  the log says *"Config file is empty, creating default configuration"*
  (`config.cpp:81`). And a file that somebody writes after the server found none, or an
  empty one, and before it opens it for writing, is lost. `FilesKept` shows that content
  is lost in no other way.
- The default database paths (`README.md:138`) are used only if there is no
  configuration file, or an empty one: a file that is read replaces them
  (`config.cpp:123`), and one that does not name a database leaves its path empty, so
  that the server does not start. `DatabasesNamed` speaks of files that only the server
  has touched.

Observed and not the subject of a run: `put` of a cached key does not evict, so a
larger result takes a shard over its budget until the next insert
(`InsertEvictsJustEnough` says what the insert then restores); an error of the AS
file is taken for *not found* and cached; a batch whose results do not serialise
is answered 400 and not counted as an error; `stop()` alone does not make `start()`
return, since `listen()` then returns true; an integer of the configuration file that
is too wide is cut, not refused; options of the first start are saved into the default configuration file; a file that cannot be parsed
is replaced by the built-in configuration, in which no database is named; password
requests are neither authenticated nor rate limited.

## 4. Proofs

Every invariant and every action property that a passing run checks is also a
theorem, for every value of the constants that the named assumptions allow, and so
are the refinements of `LookupSpec` as far as safety goes. The theorems are listed
in `PROJECT.json`. What follows is the argument of each: the inductive invariant,
and why the property alone is not one.

### Lemmas

- `DataProofs`: pushing, splicing, erasing and popping keep a list a listing of its
  set and keep it in order of use; a sum over a finite set changes by what one
  element changes by; a sequence of numbers can be sorted, and an element of the
  sorted sequence has the rank of its place. Where this needs induction it is done
  with sets in the place of predicates (a set of naturals has a least element, a set
  that contains the empty set and is closed under adding an element contains every
  finite set), because the induction theorems of the library are stated with
  operator parameters, which the provers cannot instantiate.
- `CacheShardProofs`: `get` and `put` keep a shard well shaped, lose only entries
  that are stale or evicted, add only the entry that was put, and keep map, list,
  bytes and counters in step (`ShardOK`). `evict_if_needed` keeps the longest part
  of the list beside which the entry fits, so that the lemmas also say that with one
  eviction fewer it would not have fitted.

### Rate limiter and middleware (`RateLimiterProofs`)

`Spec => []IInv`, and from it `TypeCorrect`, `TableConsistent`, `EvictionInOrder`,
`TableBounded`, `RecordsFaithful`, `QuotaEnforced`, `RefusalsJustified`,
`RemainingTruthful` and `QuotaWhenTableFits` (with no more addresses than records,
the limit holds for every address). The quota is not inductive: a step must know
that what a record no longer holds has left the window. `IInv` adds that a record is
a suffix of the grants of its address, that everything before it is older than the
window (`RecordsMatchGrants`), that grants are in order of time, and that only empty
records are being unlinked. A grant then happens only when the request
`max_requests_` grants earlier was pruned, hence is old. Assumptions: addresses are
finitely many, limits are integers, times are naturals.

`GateUsesLimiter`: the composition implements the limiter (every step of `GateSpec`
is a step of `Spec` or leaves the limiter alone), so that the theorems above hold in
it. `RemainingBoundedByFreed`: the invariant of the limiter is joined by
`RefusalsBacked`: for as long as a thread carries a refusal, its address has
`max_requests_` grants that were in the window when it was refused. No step takes
grants away, so at the time of `get_remaining` all of them that are not counted have
left the window.

### Cache (`IPCacheProofs`)

`CacheTypes`, `ListsAndMapsAgree`, `EvictionIsLRU`, `MemoryCounterExact`,
`StatsAlwaysConsistent` and `EvictsJustEnough`, for any number of shards, keys and
results of any sizes. `CacheInv` joins the properties, since each needs the others:
eviction finds the entry to subtract only if list and map agree, and it stops where
the byte counter says, which therefore has to be exact. Two parts are new:
`UsedByNow`, no key was last used after the current call, without which a key just
used need not be the latest; and `ReaderInStep`, which relates the running total of
`get_stats` to the shards it has read and to those it has still to read: the
total is at most what the read shards have counted by now, and with what the unread
ones have it is at least what all had when the call began. Assumptions: sizes, times
to live and the budget are naturals, there is at least one shard, and every key has
one.

### Lookup services (`MACLookupServiceProofs`, `IPGeoServiceProofs`)

`OneQueryAtATime` and `CacheTruthful` for the MAC service, `GeoCacheTruthful` for
the IP service, and for both that they implement the cacheless specification
(`RefinesLookup`, `GeoRefinesLookup`: `Spec => Abstract!Safety`). The invariants
`MacInv` and `GeoInv` say what a lookup carries at each step: a key exactly while it
is not idle, and from the query on an answer to its own key. They contain the
truth of the cache and, for the MAC service, `StatementExclusive`: an answer is right
only if the cache is or if the row read is that of the OUI bound, and the cache is
right only if the answers put are. Under the mapping, `Call` is `Ask`, `Return` is `Answer`, and every
other step is a stutter. Assumptions: an address is not the empty one (the handlers
check the format first: `FormatAssumption`, `FilesAssumption`), and no thread is the
value that stands for an unlocked mutex (`ThreadsAssumption`).

### Endpoints and passwords (`EndpointProofs`)

`BatchAnsweredInOrder`, `TasksJoined`, `LookupsAdmitted`, `CountersMatch` and
`PasswordsFulfilled`, over `ServerSpec`, that is, with both routes on the same
threads and metrics. `ThreadOK` says for each handler what it has done by each of its
steps: admitted or not, which prefix of the batch has tasks, which answers are in.
The counters are shared, so `CountsMatchReplies` needs sums over all threads:
`AnswersCounted` (what is counted covers what was delivered and what each handler
that has not replied yet owes) and `ErrorsCounted` (every error counted was told or
is about to be). What is counted as an error are the exceptions that the clause for
`std::exception` catches; the 500 of httplib for an exception that leaves a catch clause
(`Escaped`) is not one of them, and the theorem says so. `PasswordsFulfilled` speaks of
the number asked for where an `int` holds it; for others the run `password_range` shows
what happens. Assumptions: finitely many threads, requests of the right types
(`EndpointAssumption`, `PasswordAssumption`).

### Process (`ServerProofs`)

Three specifications that share no variables, in one module.

- Lifecycle: `DestructionSafe`, `AllReleased`, `SignalsKept` and `StatusTruthful`, for any number of requests, with or without limiter, prompt or slow `listen()`,
  with or without other callers of `stop()`. `LInv` says which threads, databases and
  objects exist at each point of the main thread, and what each destructor still finds
  to close: without it nothing excludes a request that is still being served when the
  databases are closed, or a connection that no destructor will close.
- Configuration: `SavedLoadsBack`, `OptionsAlwaysWin`, `RestartsAgree`,
  `ContentKept` and `DatabasesStayNamed`, for any files, contents and options and any
  sequence of starts, crashes, failed reads and writes, with edits at any time.
  `ConfInv` adds that a file the server wrote is exactly the saved form of a
  configuration that passes `validate` (`CreatedOK`), and that a file being written is
  absent or empty if the process could look at it and nobody has touched it since
  (`WriterOK`): the first makes restarts agree, the second keeps content.
  `SavedLoadsBack` is about the conversion itself: `load_from_file` undoes
  `save_to_file` for every configuration whose integers have the widths of their
  members. `DatabasesStayNamed` assumes in its statement that no option gives a
  database the empty path (`NamedOptions`); with such an option it is false.
- Metrics: `RequestsCounted`, `RingHoldsLatest`, `WindowExact` and
  `PercentilesRanked`, for any number of threads and requests, any latencies and
  any size of the ring. `MetricsInv` adds that the log is in order of time
  (`Chronological`) and that the times kept are the suffix of it that lies in the
  window of the last record (`WindowKept`): times are dropped from the front only, which
  is exact only because nothing old can stand behind something recent.
  Assumption: `MetricsAssumption` (naturals, a ring of at least one).

### Only model-checked

Liveness under fairness is out of the prover's reach: `EveryRequestAnswered`,
`ShutdownCompletes`, `FailureEnds`, and the fairness of `LookupSpec` in
`ImplementsLookup` of both services (that every lookup is answered). The four
violated properties are refuted by their runs.

## 5. Not modelled

- CORS headers, the root page and the layout of `/health`: they change no state; the
  reads that `/health` makes are in `IPCache` and `Metrics`.
- `isValidIpFormat` is `inet_pton` and `getaddrinfo`, and `isValidMacFormat` a test
  of one string; the endpoint takes their verdict as a table.
- Move construction and assignment of the databases: the program never moves one.
- Entropy and strength rating of passwords, averages and uptime of the metrics:
  arithmetic on the answer. That the random choices are uniform is outside TLA+.
- Logging, but for the failure to open a log file; reading `HOME`, creating
  directories (failures are only logged); trimming of lines of the key file.

## 6. Plan

Done: every component has its model and its runs, and every safety property that a
run checks is proved.

What is left:

1. The one hazard that no property covers (`config.cpp:196`, integers of the file cut to
   the type of their member before they are validated). The cut is in the model
   (`Stored`) and `SavedLoadsBack` shows that it does not affect what the server saved
   itself; what an operator should expect of a number that is too wide, no document
   says.
2. Statements across components: that an answer to a batch holds what `LookupSpec`
   allows for each item would join `LookupEndpoint` with the services.
