# A TLA+ model of prox5

prox5 keeps a pool of SOCKS and HTTP proxies: it loads them from text, checks
them in the background, and hands verified ones to callers or dials through
them.  The modules here model what its goroutines do to the state they share,
the `.cfg` files check the models with TLC on small instances, and the
`*_proofs` modules prove the properties that matter most for every instance
with TLAPS.  Line numbers refer to the repository.

## The system

| component | state | operations | hard behaviour |
|---|---|---|---|
| validation (`validator_engine.go`, `proto.go`, `proxy.go`) | per proxy: `lock`, `protocol` (write once), `timesValidated`, `timesBad`, `lastValidated`; the limiters `useProx`, `badProx` | `Proxy.validate` in a worker of the ants pool, `singleProxyCheck`, `tally` | a lock taken by compare-and-swap and never waited for; verdicts read from shared fields; a check that is never answered |
| dispensing (`dispense.go`) | the lists `Valids`, each with its own lock | `Socks5Str` and its like (`getSocksStr`), `GetAnySOCKS`, `stillGood` | look and take in two critical sections; loops that end only at Close |
| dialer (`mystery_dialer.go`) | the call's context and timer, the channel `conKiller`, the watcher of each connection | `Dial`, `DialContext`, `DialTimeout`; `CloseAllConns` (`conductor.go`) | who takes a token; contexts that outlive or cut short a connection; waiting loops |
| conductor (`conductor.go`, `jobSpawner` in `daemons.go`) | `Status`, the engine's context, `p5.mu`, the ants pool | `Start`, `Pause`, `Resume`, `Close`; the spawner's reboot, loop and release | check-then-store of `Status`; spawners of two starts alive at once on one pool |
| intake (`list_management.go`, `proxyMap` and `recycling` in `daemons.go`) | `proxyMap`, `Pending`, `recycleMu`, `recycleTimer`, `opt.recycle` | loading, `ClearSOCKSList`, removal, recycling, the spawner's round of `Pending` | map and list change under different locks; objects against endpoints |
| auto scaler (`internal/scaler`, `scale_util.go`) | `state`, `mod`, `Max`, `baseline`, `Threshold` (each an atomic), the capacity of the pool | `ScaleAnts`, `Enable`, `Disable`, `SetMax`, `SetMaxWorkers` | every atomic read, decided on and written by overlapping calls |
| endpoint filter (`parse.go`, `list_management.go`) | none of its own; what it says becomes a key of `proxyMap` | `filter`, `filterv6`, `LoadSingleProxy`, `LoadMultiLineString` | indexing by field counts; one proxy in several spellings |
| options and debug output (`setters.go`, `getters.go`, `debug.go`) | the options under a lock of their own or `p5.mu`; the switch, logger and channel of the debug output, with the package's `debugHardLock` | setters, getters, the `msg` functions, `DebugChannel` | locks taken in several orders; a logger that blocks, or asks the engine |
| statistics, SOCKS5 server, HTTP client, TLS fingerprints | counters | thin adapters | none of their own |

How they interact: a load puts a proxy into `proxyMap` and on `Pending`; the job
spawner takes the front of `Pending`, moves it to the back and submits its
`validate` to the ants pool; a validation that succeeds ends in `tally`, which
puts the proxy on the list of its protocol; dispensers and dialers pop from
there, ask `stillGood`, and (the dialers) lock the proxy once more while the
middleware looks at it.  Dispensers that find nothing call `recycling`, which
puts the whole map on `Pending` again; spawner and dialers call `scale`, which
tunes the pool.  `Close` ends the engine's context, which validations, dispensers,
dialers and connection watchers look at at points of their own, and pauses the
engine, which the spawner notices in its loop.

What makes each correct: a proxy is never validated, judged or handed out by two
goroutines at once, and whatever a caller gets was verified as the protocol it
asked for; nothing that was loaded is forgotten; the pool is fed while the engine
runs and only then; the scaler returns what it took; calls come back when the
engine is closed; whoever holds a lock gets the next one; a documented line becomes the
endpoint it names.  `PROJECT.json` lists the hazards at their lines.

## The modules

| module | models | state and actions |
|---|---|---|
| `ProxyPool` | validation, dispensing, and the dialer up to its unlock | one `pc` per worker, dialer and caller; one action per step between two accesses to shared state (`ValidateLock`, `ProbePasses`, `PushBack`, `PopFront`, `StillGoodAccepts`, `LockIt`, `PutBack`, ...) |
| `VerifiedLedger` | what dispensing promises: a verification is handed out at most once | what each worker has verified, the verifications of each proxy not spent yet, and what each caller holds; the abstract specification `ProxyPool` implements |
| `Conductor` | start, pause, resume, close and the spawners' lives | one `pc` per API call and spawner; look and store of `Status` are two steps |
| `Intake` | map, `Pending`, loading, removal, recycling, the round of `Pending` | one action per critical section; a proxy is an object made for an endpoint, so that one that is loaded again is another |
| `Engine` | the two composed: the spawners that calls make, feeding from `Pending` while proxies are loaded, removed and recycled | `INSTANCE`s of both over one set of spawners; `Seek`, `Take`, `Accepted`, `Refused` join a step of each, and `validating` says what the busy workers are at |
| `AutoScaler` | `ScaleAnts` and the setters | one step between two writes of a call; its three compare-and-swaps are three steps |
| `MysteryDialer` | the calls that dial, their connections, `CloseAllConns` | one step per look at a context, per round of `GetAnySOCKS`, per token |
| `DialOutcomes` | what the dialer promises its callers: one outcome per call, and three reasons to close a connection | the outcome of each call, the contexts that are done, whether a CloseAllConns is running, and what the last one may still end; the abstract specification `MysteryDialer` implements |
| `EngineLocks` | the five mutexes of the engine, every setter and getter, the debug output, and Close, recycling, the spawner, `stillGood` and the dialer as far as they lock, log or touch an option | a call is the sequence of its steps on locks, options and logger, and `todo` is what is left of it; Go's `RWMutex` with its announced writer is `ReadLock`, `Announce`, `WriteLock`, ... |
| `EndpointFilter` | `filter` and `filterv6`, and the loaders around them | a line is a sequence of words and marks; `filter` is an operator with one case per number of fields, the records a state the loaders act on |

Each has an `MC` module with the model values of its instances, except
`VerifiedLedger` and `DialOutcomes`, which `ProxyPool` and `MysteryDialer`
instantiate with a refinement mapping.
`Engine` is `Conductor` and `Intake` as one: each step of a spawner is one of
both, or one of the first outside of its rounds; the consumers that recycle
beside the spawners are left to `Intake`.  The other modules meet where a
component only needs to know that another may act: `ProxyPool` and
`MysteryDialer` know Close as a step that may come at any time, and
`MysteryDialer` knows of the lists only whether they have something.

Outside `src/` and modelled from its use there: the ants pool (`Submit` blocks
while all workers are busy and is refused once released; `Release` and `Reboot`;
`Tune` ignores sizes below one; a task runs to its end in a released pool), the
Rate5 limiters (a window that may end at any time), tickers (a channel of one
tick), cmap (each call atomic, iteration over a snapshot), and the HTTP request of
a check (an outcome, or none).

Mutants: a definition that is preceded by a comment beginning with "Mutant" is a
plausible mistake in the definition of the code that follows it.  No
specification uses it; `PROJECT.json` names for each property the mutant that
breaks it.

## What the runs check

Passing runs.  Invariants unless said otherwise; the first run of a module also
checks its type invariant.

| run | instance | shows |
|---|---|---|
| `pool_lock` | one proxy, two protocols to probe, two workers, a dialer, a `getSocksStr` caller | `LockDiscipline`: at most one goroutine inside, and the lock word says so; `ListedVerified`; `TallyPassed`: no verdict without a successful check; `HandedVerified`: what a caller gets was verified as what it asked for; `ProtoStable` (action property) |
| `pool_live` | two proxies under one endpoint, a worker, a dialer, a `GetAnySOCKS` caller, fair | `ImplementsLedger` (refinement): each verification is handed out once at most; `LockReleased`, `AnyReturnsAfterClose` (liveness) |
| `conductor` | two callers, three spawners, one worker, fair | `PoolOwned`: an open pool has a spawner; `OneLate`: one submission at most after a pause; `PauseReleases`: after a pause the engine runs again or the pool is released and no spawner lives (liveness) |
| `intake` | two loaders, two spawners, a consumer, one endpoint and two proxies for it, fair | `FrontThere`: the front the spawner has seen is there; `MappedQueued`: nothing in the map misses `Pending`; `QueuedTaken`: the spawners come round to everything while recycling is on (liveness) |
| `engine` | a caller, two spawners, a loader, one endpoint, every call, removals and switches of recycling, fair | `EndsEmptyHanded`: a spawner ends without a proxy and without `recycleMu`; `QueuedValidated`: what is queued is validated while the engine runs with recycling on and an open pool, through pauses and refusals (liveness); `PausedQuiet`: a pause lets all validations and spawners end, also one in the middle of a recycling (liveness) |
| `scaler` | two calls that may overlap, all setters, fair | `OvershootBounded`: `mod` leaves its range by one at most; `CapTracksMod`: without overlap, and with no new size given to a scaled pool, it is `mod` workers above the last size ants has taken; `DisabledReturns` (liveness) |
| `dial` | two calls of any kind, one CloseAllConns, one redial, fair | `GivesUpSpent`: a call gives up exactly when its first try and the redials have failed; `OneLateDial`: a call under way at Close dials once more at most; `ImplementsOutcomes` (refinement): a call comes to one outcome, its connection is closed for a reason, and a CloseAllConns that is over ends one thing more at most; `ConnsClosed`, `CancelledReturns` (liveness) |
| `locks` | two goroutines, each making any call after any other, fair | `GuardedOptions`: which options are safe from races; `LockOrder`: locks in one order, and no log under a lock, but in Close; `OnlyTwoKnots`: no goroutines wait for one another in a circle of locks, unless Close has crossed `SetLogger` or its logger has re-entered the engine; `CallsReturn`: a call hangs only when Close crosses `SetLogger` or its logger re-enters the engine (liveness) |
| `filter` | thirteen proxies in every spelling, and every line of up to five words and marks, two records | `FormatsRead`: no documented spelling of a proxy is refused, and all of them leave one record; `TakenDialable`: what is taken can be dialled, but for three kinds of line; `DialableTaken`: a line that can be dialled as it stands is neither refused nor panicked on |

Runs that end in a violation state what a doc, an error or an assertion of the
repository says and what the code does not do; `PROJECT.json` quotes the line.

| run | what happens |
|---|---|
| `pool_panic` | two `getSocksStr` callers see one proxy, the second takes the front of an empty list |
| `conductor_resume` | the old spawner releases the pool the new one has rebooted |
| `dial_timeout` | `DialTimeout` cancels its context on return, and the watcher closes the connection it has returned |

Other disagreements of code and docs that the models contain, none with a run of
its own:

- `ProxyPool`: a check that is not answered after its handshakes has no timeout
  left (`validator_engine.go:39-44`; `defs.go:166` promises one for the request
  too) and keeps its proxy locked for good.  `LockReleased` needs
  `ChecksAnswered` for this reason.
- `Conductor`: two calls of `Start` or `Resume` may both pass the look at `Status`
  (`conductor.go:23`, `:61`) and both start a spawner.  A spawner may look at
  `Status` before `startDaemons` has stored it (`conductor.go:54-55`), and end; the
  engine then says that it runs (`getters.go:77`) with nobody to feed its pool.
- `Intake`: with recycling off nothing is taken from `Pending`
  (`daemons.go:125-130`), which is why `QueuedTaken` speaks of the time it is on.
  An endpoint that is in the map is queued once more and counts as loaded, for
  `add` returns what it finds there (`daemons.go:28`): "proxy already exists"
  (`list_management.go:67`) is not said, unless the endpoint is removed meanwhile.
  A proxy removed for its failures (`dispense.go:117`) stays on `Pending` and goes
  on being validated.
- `AutoScaler`: two calls that both read a `mod` of one lower it to -1, and the
  next call panics ("scaler.go: scaler mod is negative", `scaler.go:112`); the
  model ends there, and `OvershootBounded` says how far below zero it gets.  A call
  under way stores idle over disabled (`scaler.go:159`).  `SetMaxWorkers` moves the
  baseline and keeps `mod` (`setters.go:74`), and scaling down goes below the new
  baseline; after that, or an overlap, `serial` is FALSE and neither
  `CapTracksMod` nor `DisabledReturns` says anything.  Once there are validated
  proxies `SetMaxWorkers` takes zero and less (`setters.go:69`): ants ignores the
  size, and the baseline becomes it all the same (`setters.go:74-75`).  The pool
  then has a size that is not the baseline, which is why `CapTracksMod` counts
  from `asked`, the last size ants has taken.
- `MysteryDialer`: a call gives up after its first try and `dialerBailout` redials,
  for `count > maxBail` is what it asks (`mystery_dialer.go:125`).  This is what
  `setters.go:107` says ("will attempt to redial"), and one more than `setters.go:106`
  does ("the amount of times the mysteryDialer will dial out and fail before it
  bails out"), and than its error "giving up after %d tries"
  (`mystery_dialer.go:126`).  `GivesUpSpent` states the number from both sides.
- `MysteryDialer`: a call that waits for a proxy does not notice its timer
  (`mystery_dialer.go:137`, `:148`), nor the closed engine, whose `GetAnySOCKS`
  returns nil at once: `Dial`, which has no context of its own, spins there for
  good although the loop around it means to say "prox5 closed"
  (`mystery_dialer.go:134`).  `CancelledReturns` therefore asks for both contexts.
  A token left by `CloseAllConns` (`conductor.go:77`) ends a later call or
  connection; `DialOutcomes` says one at most.  `SetServerTimeout` of zero is said "to
  disable" the timeout (`setters.go:58`) and makes a timer that runs out at once
  (`mystery_dialer.go:117`), an outcome of `Check`.
- `EngineLocks`: recycle, removeafter, the bailout, the switches and the stale
  time are written under the options' lock and read under `p5.mu` or no lock
  (`getters.go:99-147`, `dispense.go:103-138`), so that the "concurrent safe getters
  and setters" (`defs.go:128`) race; `GuardedOptions` states what is left.  A
  Close that has `p5.mu` and a `SetLogger` that has `debugHardLock` wait for
  each other (`conductor.go:95`, `setters.go:133-140`).  A logger that asks the
  engine for statistics, as the one of the example does (`example/main.go:69-97`),
  blocks Close, which logs with `p5.mu` held.  Without a debug channel the default
  logger builds its text and prints nothing (`debug.go:50-53`).
- `EndpointFilter`: `LoadMultiLineString` hands its lines to `loadSingleProxy` as
  they are (`list_management.go:84-94`), so that `yeet.com:1080:user:pass`, a format it
  names (`:75-82`), goes on record as an endpoint, "the address:port of the proxy"
  (`proxy.go:27`).
- `EndpointFilter`, in `TwoColons`: `[fe80::c299]:1080` is four fields of a line, of
  which the third passes for a name (`parse.go:101-110`), and goes on record as
  `c299]:1080`: nothing that can be dialled, and the same for two addresses that end
  alike.  `Record`, and with it `FormatsRead`, says what becomes of such a line.
- `EndpointFilter`, in `TakenDialable`: any text that is not empty passes for a name
  and any number for a port, so that `yeet.com:99999` goes on record.  An IPv6 line
  that netip does not read, or with its user in front (`user:pass@[v6]:port`), gives
  an empty endpoint with an ok (`parse.go:36`).  `[v6]:port:user` and `user:pass:x@host`
  index past their fields (`parse.go:33`, `:93`); no line that can be dialled as it
  stands does (`DialableTaken`).  A number for a password in `user:pass:host:port` makes
  the line read the other way round.  An IPv6 address with a user keeps its
  spelling, so that its spellings make a record each.

Bounds.  Two goroutines of a kind are enough for every interleaving the
properties speak of: locks, claims and tokens pass between a pair, and a third
adds only a repetition; `conductor` has three spawners because the third start
is the first that meets two old ones.  Two proxies or protocols show a mix-up of
two.  One redial in `dial` tells a failure that is tried again from the last one.
Counters that grow in the code are capped by constants named as bounds in the
modules (`PendingBound` keeps `Pending` short by refusing loads and ticks, never
by stopping a loop half way; `CapBound` makes a scaling call wait above a
capacity out of reach of one scaler; the constants of `ProxyPool` that cap its
counts are commented there).  `Proxies` in `Intake` bounds how often an endpoint
is loaded anew.  `Engine`
has one endpoint and a `PendingBound` of one, for that the spawners come round to
several is what `intake` shows, and two spawners, so that a second may start
while the first is still in its round.  Symmetry is used in runs without
liveness only.  `filter` loads lines while there are fewer than two records (`MaxRecords`), clears them after a
line it has refused, and a panic ends it: what becomes of a line does not depend
on what is on record already.  `scaler` asks for two sizes: zero, which becomes two
as long as there are no validated proxies, and three, after which two is
a smaller pool; one SetMaxWorkers runs at a time.  `dialerBailout`, removeafter
and the stale time stay what they are; `stillGood` reads removeafter twice
(`dispense.go:112`), and what a change between the two would delete no property
depends on.
The words of its lines stand for their kinds (a name, a number that is a port or
is not, an address), and five of them reach every case of `filter`.  One place in
the debug channel of `locks` is full as soon as one message is there.
`pool_lock`, `scaler` and the filter's runs do not check for deadlock, for a panic
ends the program, and `locks` does not, for its deadlocks are the two that
`CallsReturn` names.

Fairness.  Weak fairness of a goroutine's own steps: Go's scheduler runs each
runnable goroutine again and again.  A call is fair from its first step to its
last, but nobody has to call.  In `ProxyPool` checks are fair where they are
answered: the bound of the handshakes ends the others, except the silence after
them named above.  In `Conductor` a validation ends.  In
`MysteryDialer` dials through a proxy end, because its URI carries a timeout; its
own timer may run out at any look and never has to.  In `Intake` ticks keep coming.  `Engine` asks for
what its two parts ask for.  In `AutoScaler` so do calls, for
the spawner makes one every loop, and a `SetMaxWorkers` that has tuned the pool
goes on to its baseline.  `EngineLocks` asks for strong fairness of each
goroutine's steps, since one that waits for a mutex or for room in a channel is
enabled now and then: Go serves both in the order of waiting (a `Mutex` by its
starvation mode).  There the user of the debug channel keeps reading it, as the
doc of `DebugChannel` asks.

## What is proved

For every value of the constants, from the assumptions named in the modules.

- `ProxyPool_proofs`: `TypeCorrect`, `MutualExclusion`, `ProtocolStable`,
  `TallyIsEarned`, `ListsHoldVerified`, `CallersGetVerified`.  Mutual exclusion
  rests on the type invariant, which ties each `pc` to the proxy in hand, and on
  the lock word being set exactly while some `pc` is inside.  That lists hold
  verified proxies is not inductive alone: `CarriedVerified` says the same of the
  proxies goroutines carry between a list and the next, `Verified` being stable
  because a protocol is written once.  `VerdictEarned` strengthens `TallyPassed`:
  a protocol set by a cancelled call, which a later verdict may read, was set by a
  check of its own.
- `ProxyPool_proofs` also has `LedgerImplemented`, that `ProxyPool` implements
  `VerifiedLedger`.  The mapping counts copies: the places on the lists and the
  consumers' hands that hold a proxy.  `Counted` keeps these sets finite, which
  Go's memory gives and a cardinality needs; a push adds one place, a pop shifts the
  places of a list one down (`PlacesPopped`, by a bijection) and moves its front
  to a hand.  With `IInv` each step verifies, credits,
  hands out, drops, finishes or stutters.
- `Conductor_proofs`: `TypeCorrect`, `PoolIsOwned` and `PauseIsPrompt`.  The pool of a new engine
  is open without a spawner; `PoolInv` says that it stays new as long as no start
  has stored, and `LateInv` that a spawner on its way to submit after a pause has
  not done so before.
- `Engine_proofs`: `EngineConducts` and `EngineTakesIn`, that `Engine` implements
  both of its parts, so that what is proved of them holds of the two together;
  `PoolIsFed` and `NothingIsForgotten`, which draw that conclusion by taking the
  theorems of the parts over (`ConductorProofs`, `IntakeProofs`);
  `SpawnersEndClean`, by an invariant that ties the place of a spawner in its
  round to what it has in hand; and `TypeCorrect`, for which `JobsInv` counts: the
  pairs of a proxy and a worker that is at it are as many as the pool has busy.
- `AutoScaler_proofs`: `TypeCorrect`, `ModStaysClose` and `PoolTracksMod`.  `Decided` counts every
  call that has decided and not yet acted as if it had; with it the bound is
  inductive, by the cardinality of the sets of such calls.  For `PoolTracksMod` the
  invariant says how far the step a call is in has moved capacity and `mod` apart,
  with one call at most away from the start of `ScaleAnts` (`Sole`), and that the last
  size ants has taken is the baseline or about to become it, unless the baseline is
  a size no pool can have (`AskedInv`).
- `MysteryDialer_proofs`: `TypeCorrect`, `GivesUpWhenSpent`, `OneDialAfterClose`
  and `OutcomesImplemented`.  A call past its look at the bailout has not failed too
  often, whatever it returns, and one that gives up has (`TriesInv`); one that has
  begun an attempt since Close is in it or over.  Of
  the refinement of `DialOutcomes` the mapping is the point: the token
  in the channel is what a CloseAllConns may still end, but only while none
  runs, and of those that overlap the first to come and the last to leave are
  the abstract one; a step then finishes a call, closes a connection, ends a
  context or stutters (`OutcomeNext`).
- `Intake_proofs`: `TypeCorrect`, `FrontIsThere` and `MappedAreQueued`.  Nothing shortens
  `Pending` (`PendingKept`), and `LoaderInv` says that a loader holds what it has
  put into the map until it is queued, also when the endpoint is removed and
  loaded again in between.

- `EngineLocks_proofs`: `TypeCorrect`, `OptionsAreGuarded`, `LocksInOrder` and
  `NoOtherKnot`, for any number of goroutines and whatever each is allowed to call.
  A `Walk` says which locks a sequence of steps starts and ends with, and that on
  the way each step has the locks it needs and takes the next one in their order
  (`Move`).  Walks may be put one after the other, begun later (`WalkFrom`) and
  jumped over where the debug switch does (`WalkIf`), so that every call of `Script`
  is shown to be a walk from no lock to no lock by putting it together from its
  parts (`ScriptTrips`).  The invariant says that what is left of each call is
  a walk from the locks its goroutine has (`OnTheWay`), which only speaks of one
  goroutine at a time, and what the locks themselves keep (`Kept`): readers or a
  writer, waiting readers that have come to a writer, an announced writer that is
  about to lock.  The order of locks, the guards of the options and the silence
  under a lock are then conditions of the next `Move`.  In a circle each goroutine
  waits for one that has a lock of lower rank than the one it waits for itself
  (`FurtherOn`), which four ranks do not allow; the one exception, Close with p5.mu,
  leads to one of the two knots.
- `EndpointFilter_proofs`: `TypeCorrect`, `FormatsAreRead` and `TakenAreDialable`,
  for any words, whichever of them are names, numbers and addresses, and any
  proxies and lines of them.  `Split` needs the places of a mark
  in their order; `Nth` names the k-th of a finite set by how many are below it,
  and that there is one for each k (`NthIn`) is a pigeonhole argument and not an
  induction: the counts below are as many different numbers as there are places.
  With it a line that is put together from parts and marks is split into these
  parts again (`SplitAfter` and what follows it).  Each spelling of a proxy with a
  name or an IPv4 address, and of one with an IPv6 address, is then read field by
  field; the two ways an address can be written come together because netip
  writes them alike.  The other way round, every field of a line is free of the mark
  it was split at, and from its case of `filter` comes an endpoint of the parts
  `Dialable` asks for, made of tokens of the line.  `RecordsInv` keeps what
  filter has said of the last line until the next one, with its endpoint on record
  if it was taken: a documented line is then never one that was refused.

`FilterAssumption` says what the provers have to know of the words: that the
marks are none of them, that an IPv6 address has no bracket, and three colons at least
or two side by side, that netip writes an address as an address, and of what a proxy is made.

Only model-checked: the liveness properties (fairness and ENABLED are out of the
prover's reach), and `DialableTaken`.  The bounds and caps of the runs are constants in the proofs as
well.

## What is not modelled

The text of messages and the formatting getters; user agents and check
endpoints, of which `EngineLocks` has only who reads and writes them; the TLS
fingerprints, a table of a library; the traffic of a connection; the SOCKS5 server
and the HTTP client, which hand every connection to `DialContext`; the resolver,
which is commented out; statistics other than those a decision reads.
Middlewares are taken to return the proxy they were given.  Clearing the map takes
its endpoints out one after the other in the code, and in one step here.  Loads of several
shared atomics between two writes of one call are one step in `AutoScaler`.  The
check of a proxy is its outcome: which request fails for which reason makes no
difference to the pool.  A loader that is given an empty or a mixed list, and a
file that cannot be opened, are loads of some lines or of none.

## Plan

In order of weight; the first six parts are done.

1. Done: `ProxyPool` with `VerifiedLedger`, `Conductor`, `Intake`, `AutoScaler`,
   `MysteryDialer`, and their proofs.
2. Done: `EngineLocks`, `EndpointFilter`, `PoolTracksMod`, the proofs of
   `MysteryDialer`.
3. Done: the refinement proof of `VerifiedLedger`, and the proofs of
   `EngineLocks`.
4. Done: `Engine`, the composition of `Conductor` and `Intake`, with all of its
   safety properties proved.
5. Done: the proofs of `EndpointFilter`, except of `DialableTaken`.
6. Done: `DialOutcomes`, which `MysteryDialer` is proved to implement.
7. Left: properties for the hazards of `PROJECT.json` that have none (a spawner that
   ends at its first look, `SetMaxWorkers` in a scaled pool, a middleware that
   returns another proxy, a `Pending` that only grows), once the project says what
   it means to happen there.  An abstract specification of the conductor would
   promise no more than `PoolOwned` and `OneLate` say.
