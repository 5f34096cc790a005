# Verification of GammaLib

GammaLib is a C++ library for the analysis of gamma-ray astronomy data: it
reads event lists and instrument responses, builds models of the sky, and fits
the models to the data by maximum likelihood. This directory holds TLA+ models
of the parts of the library whose correctness depends on state that several
calls, objects, threads or processes share, the TLC runs that check them, and
theorems about them that TLAPS checks. Paths are relative to the directory
that holds `src/` and `tla/`.

## 1. Inventory

The library code is in `src/src/<module>` with headers in `src/include`; the
instrument modules are in `src/inst/{cta,lat,com,mwl}`. Most of its one hundred
and twenty thousand lines compute numbers (spectra, responses, projections,
integrals) without keeping state between calls; the table lists what does.

| part | state it keeps | operations | interacts with |
|---|---|---|---|
| optimizer (`opt/GOptimizerLM`) | lambda, status, value, per-parameter hit counters, freeze and remove flags | `optimize`, `errors` | changes values and free/fixed attributes of the caller's parameters; calls back `GOptimizerFunction::eval`; solves with the sparse matrix |
| parameter container (`opt/GOptimizerPars`) | pointers, and which of them it has allocated | `set`, `attach`, `insert`, `remove`, `extend`, copies | filled by `GModels::pars()` with pointers to model parameters; handed to the fit and to the likelihood |
| parameter (`opt/GOptimizerPar`, `model/GModelPar`) | factors of value, error, gradient and limits, and one scale | `value`, `min`, `max`, `range`, `scale`, `autoscale`, `free`, `fix` | owned by models, pointed to by `GOptimizerPars` |
| observations (`obs/GObservations*`) | list of observations, models, the likelihood function with value, gradient and curvature | `append`, `optimize`, `errors`, `eval`, XML read and write | OpenMP threads evaluate copies of the models; results are merged |
| time and energy intervals (`obs/GGti`, `obs/GEbounds`) | sorted list of intervals, derived totals | `append`, `insert`, `merge`, `reduce`, `remove` | event lists and selections |
| sparse matrix (`linalg/GMatrixSparse`) | compressed columns, one pending element, a stack of columns to be added | element access, column operations, `stack_*`, `cholesky_*` | curvature of every likelihood evaluation |
| VO hub and clients (`vo/GVOHub`, `vo/GVOClient`) | hub: secret, clients, subscriptions, the lock file `~/.samp`; client: connection data, keys | hub: one handler per SAMP call; client: `connect`, `disconnect`, `ping_hub`, `shutdown_hub` | processes over TCP sockets and the lock file |
| application parameters (`app/GApplicationPars`, `app/GApplicationPar`) | parameters, the lines of the parameter file, positions of the values in them | `append`, `insert`, `remove`, `load`, `save` | parameter files shared by processes under `fcntl` locks |
| application and log (`app/GApplication`, `app/GLog`) | log file, line buffer, counters | `logFileOpen`, stream operators, `header` | |
| FITS files (`fits/GFits*`) | list of HDUs, cfitsio handle, columns loaded on demand | `open`, `append`, `insert`, `remove`, `save`, `close` | HDUs hold copies of the handle; observations read events from them |
| XML documents (`xml/GXml*`) | tree of nodes with parent links | `load`, `append`, `insert`, `remove`, `save` | models, observations |
| models (`model/GModels`, ...) | named models, pointers to all their parameters | `append`, `insert`, `remove`, `eval` | parameter pointers are handed to the optimizer |
| sky maps and projections (`sky/*`) | pixels, projection parameters, interpolation cache | `operator()`, `inx2dir`, `dir2inx` | model maps |
| node array, CSV, random numbers (`support/*`) | nodes, cached indices and weights | `set_value`, `append` | spectral models, responses |
| numerics (`numerics/*`) | integrator settings | `romberg`, `value` | pure computation |
| calibration data base (`obs/GCaldb`) | open index file | `open`, `filename` | response loading |
| XSPEC and instruments (`xspec`, `inst/*`) | event containers, response tables and caches | loading, `irf`, `npred` | observations |
| Python binding (`pyext`) | none | wraps the above | |

Behaviours that are hard to get right and to test:

* **the fit as a protocol over shared parameters** - parameters are fixed in
  three places and freed in two, trials are taken back, exceptions and failed
  solutions leave the loop on different paths;
* **threads** - the likelihood of the observations is computed in parallel on
  copies, which are registered, filled and added up in different orders;
* **processes** - clients launch the hub when none answers, find it by the lock
  file it writes before it listens, and share keys drawn from a clock seed;
  applications read and rewrite the same parameter file;
* **deferred state** - pending and stacked elements of a sparse matrix, columns
  of FITS tables loaded on demand, caches in node arrays and responses;
* **bookkeeping under a long sequence of calls** - interval lists, line numbers
  of parameters in their file, parent links, pointers into containers.

For each part, what makes it correct:

* optimizer: a fit returns with exactly the parameters free that it was called
  with; parameters fixed by the user do not move; value, gradient and errors
  belong to the stored parameters; worse values are accepted within a budget;
  every call ends, and its status says how;
* parameter: value, limits, error and gradient stay consistent under scaling;
  a rejected setting changes nothing;
* parameter container: every parameter it allocates is deleted once, by it; nothing of a
  client or of another container is;
* observations: the parallel likelihood, gradient and curvature are the sums over
  the observations, whatever the schedule of the threads;
* intervals: the list stays sorted and stands for the same set of instants;
* sparse matrix: whatever is pending or stacked, the matrix reads as if every
  operation had been done at once, although its count of elements may be wrong;
* hub and clients: a private key leads to the entry of its owner only; references
  are unique; an agent that lives from the events knows all clients; a client that
  says it is connected is registered; connecting ends, and launches at most one hub;
* application parameters: every parameter points at its own line; saving and
  loading give the parameters back;
* FITS, XML, containers: parent and sibling links stay consistent under insertion
  and removal; what is saved is what is in memory.

## 2. Plan

The modules were written in this order, the fit and what it rests on first.

| | part | modules | proofs |
|---|---|---|---|
| 1 | the fit | `GOptimizerLM`, `MCGOptimizerLM` | `GOptimizerLM_proof` |
| 2 | hub and clients | `GVOHubClients` (the table of clients), `GVOHub` (a hub and the programs that use it), `GVOSession` (clients, hub processes, lock file; the same table), `MCGVOHub`, `MCGVOSession` | `GVOHub_proof`, `GVOSession_proof` |
| 3 | who deletes a parameter | `GOptimizerPars`, `MCGOptimizerPars` | `GOptimizerPars_proof` |
| 4 | the matrix of the fit | `MatrixValues` (what a matrix promises), `GMatrixSparse` (implements it), `MCGMatrixSparse` | `GMatrixSparse_proof` |
| 5 | the parallel likelihood | `LikelihoodSum` (what an evaluation promises), `GObservationsLikelihood` (implements it) | `GObservationsLikelihood_proof` |
| 6 | application parameters and their file | `GApplicationPars`, `MCGApplicationPars` | `GApplicationPars_proof` |
| 7 | interval lists | `IntervalLists`, `MCIntervalLists` | `IntervalLists_proof` |

1, 4 and 5 are the levels of one computation. The fit asks for value, gradient and
curvature and takes a function for granted; `LikelihoodSum` says what such an evaluation
promises and the threads of `GObservationsLikelihood` implement it; what each thread adds
to its curvature goes through the stack of a sparse matrix, of which
`GObservationsLikelihood` uses what `MatrixValues` promises: a flush adds what was
pushed, once. `GMatrixSparse` keeps that promise for clients that are `Careful`, which the
likelihood is not always (see there).

What would come next: `GOptimizerPar` (value, limits and gradient under `scale()` and
`autoscale()`) under the fit; the containers `GFits`, `GXml` and `GModels` with their
parent links and copied handles; the index cache of `GNodeArray`; an abstract registry
that `GVOHub` implements.

Parameters are CONSTANTS with named assumptions, one action stands for one operation or
one step of it, and no module uses RECURSIVE.

## 3. Modules, runs and what they show

A definition named `Mutant...` states a bug that the definition after it might have
had. No behaviour uses it; substituted for that definition it makes a property fail,
which shows that the property depends on the code.

### GOptimizerLM

`GOptimizerLM.tla` models `src/src/opt/GOptimizerLM.cpp`: one optimizer, its
parameters and the function it is called for.

| action | code |
|---|---|
| `Optimize`, `OptimizeNothing` | `optimize()` up to the loop (free parameters or none): reset of the bookkeeping, first evaluation, removal of parameters with zero curvature |
| `Iteration` | `iteration()` with a solution: step size, trial vector, hits and freezes, evaluation, removals, acceptance or restoration |
| `IterationFails` | `iteration()` when the solver throws `matrix_zero` or `matrix_not_pos_definite`: early return |
| `SolverThrows`, `EvalThrows` | any other exception of the solver or the function, which leaves `optimize()` |
| `ReleaseFrozen`, `Converged`, `Stalled`, `Continue`, `Exhausted` | the end of the body of the loop, and its condition |
| `Return` | the end of `optimize()`: frees what was frozen or removed |
| `ErrorsComputed`, `ErrorsFail` | `errors()` |
| `ToggleFree` | `fix()` and `free()` by the caller between two fits |

The control is that of the code; the numbers are abstracted. A parameter takes the
positions `0..MaxPos`, where 0 is its minimum and `MaxPos` its maximum if it has
them. The function is a table of integers over the positions. `m_lambda` is the number of increases minus
the number of decreases. The solution of the linear system is *any* direction of each
parameter that has a row in it, with any fraction of the step at which it meets its
limit: the model has more behaviours than a real Newton step, so that what holds here
does not depend on the quality of the solution. `step_size()` keeps its asymmetry: the
flag `m_hit_boundary` that the check of the minimum clears lets the check of the
maximum pass. The variable `call` is history: the state before the call, the best value
met, hits in a row.

The settings (`m_max_iter`, `m_max_stall`, `m_max_hit`, `m_max_dec`, `m_accept_dec`,
`m_eps`, `m_step_adjust`) are constants. Not modelled: changing settings between fits,
copying an optimizer, and `autoscale`, `print` and the log; exceptions of the function at its
first evaluation (`GOptimizerLM.cpp:225`, :424) and in `errors()` (:450), which leave
`optimize()` before anything is frozen, or `errors()` before an error is computed.

| run | instance | shows |
|---|---|---|
| `lm_calls` | two parameters, three positions, a slope, two calls of two iterations; one parameter may have zero curvature | `TypeOK`, `AttributesRestored`, `ResultsMatch`, `FixedByUserUntouched`, `ErrorsBelongToFit`, `RemovedStaysOut` |
| `lm_single` | one parameter, six iterations, three functions, fairness | `BoundedWorsening`, `FreezeNeedsSuccessiveHits`, `FitEnds` |

Two parameters are the smallest number for which freezing or removing one leaves a fit
with the other; three positions let a parameter be at either limit or between them; two
iterations are enough to hit a limit, be frozen, converge and be released, and six let
one parameter hit, leave, hit again and be restarted, on a slope, a ridge and a plateau.
`m_max_hit` is 0 or 1 where the code has 3, so that freezes happen within these
iterations; the theorems hold for any value and any function.

`FitEnds` assumes `WF_vars(Next /\ pc # "idle")`: `optimize()` is an ordinary call that
runs on once entered. No run checks for deadlock: when the calls of an instance are used
up, its caller stops.

**Proved** (`GOptimizerLM_proof`), for any number of parameters, any functions, limits
and settings, from `SizeAssumption`, `ParameterAssumption` and `SettingAssumption` only:
`TypeCorrect`, `AttributesAreRestored`, `FixedStayUntouched`, `ResultsMatchParameters`,
`WorseningIsBounded`, `RemovedStayOut`, `FreezeIsEarned`, `ErrorsAreOfTheFit`. None of these is inductive as
it stands; the inductive invariant `FitInv` has four parts.

* `ParametersKept`: in the loop the free, frozen and removed parameters together
  are those that were free at the start, and the others have not moved. Hence what
  `Return` frees is right.
* `OneRole`: removed parameters are not free, and until the release of frozen parameters no
  parameter has two roles. Needed because `m_par_freeze` is not reset at the release: were
  the release repeated, it would free a removed parameter. `check_for_freeze` prevents it.
* `ResultsKept`: value and gradient belong to the parameters, and the value is within
  what `m_num_dec` accepted worsenings allow. The counter in the invariant is what makes the
  bound survive a restart.
* `HitsCounted`: a hit counter is never ahead of the successive hits. A hit of the maximum
  does not reset the counter of the minimum, so that `successive` counts hits of either limit.

`ErrorsAreOfTheFit` has an invariant of its own, `ErrorsInv`: no loop is entered with the
errors of an earlier fit, so that the end of a fit is never taken for the end of `errors()`.

Only model-checked: `FitEnds` (liveness).

### GVOHubClients, GVOHub

`GVOHubClients.tla` is the table `m_clients` with its look-ups: the reference a new
client gets, the first client with a key or a reference, erasing. `GVOHub.tla` is one hub
(`src/src/vo/GVOHub.cpp`) that serves requests one after the other, so that one
handler with its answer and notifications is one action: `Register`, `Unregister`,
`DeclareMetadata`, `DeclareSubscriptions`, `SetCallback`, `GetRegisteredClients`,
`GetMetadata`, `Shutdown`. The agents are SAMP programs outside the library. They may
send any request in any order, and one that has declared a callback and all events and has
then asked once for the registered clients follows the others by notifications: its `roster`
is what it believes. Agents accept the notifications the hub sends them.

`random_string()` seeds its generator with the time in seconds on every call, so that
the private key is a function of the second: in the model it *is* the second, and `Tick`
advances it. The constant `OnePerSecond` keeps registrations in different seconds. Without
it two agents share a key and the first entry answers for both: each is hidden from the
other, and unregistering erases the wrong entry (section 4).

| run | instance | shows |
|---|---|---|
| `hub_apart` | two agents, which may leave entries behind by registering again; three seconds, a table of three | `TypeOK`, `KeyLeadsHome`, `DeclaredIsHeld`, `NamesAreCurrent`, `RosterIsComplete`, `ReferencesUnique` |

A table of three with two agents is the smallest in which erasing shifts entries of
others, references are reused, and entries without an agent exist. Events are declared
at once or in two parts, so that declarations accumulate. The hub may shut down and
agents may stop: no deadlock check.

**Proved** (`GVOHub_proof`), for any number of agents, names, seconds and clients:
`TypeCorrect` and `ReferencesStayUnique`, also where clients share a key and erase each
other's entries; and where `OnePerSecond`, `KeysLeadHome`, `DeclarationsAreHeld`,
`RostersAreComplete` and `NamesStayCurrent`. The argument is the invariant `HubInv`:

* `KeysApart`: no two entries and no two agents share a key. Without it the first entry
  with a key need not be the agent's own.
* `EveryoneHasAHome`: each agent that joined has an entry that is its own in every field.
  Erasing another entry moves it to another index, which is why the invariant does
  not name the index.
* `FollowersListen`: an agent that follows has joined, subscribed to all events and set
  its callback; with its home entry this makes it a recipient of every notification.
* `RosterIsComplete` itself: the notification about a new client is sent after it is in
  the table, about a leaving one before it is erased.

`NamesStayCurrent` needs all four: a declaration reaches whoever follows (`NamesStep`), and
a reference that is given again was first announced as leaving, then as new, which makes
the name in the roster `Unknown`.

That a table of n entries leaves one of n + 1 references free (`SomeReferenceIsFree`) is a
pigeonhole argument. The assumptions are `TimeAssumption` and `NameAssumption`.

Not modelled: requests that change nothing but the answer (`getSubscriptions`,
`getSubscribedClients`), the `notify` and `call` family, agents that do not accept
notifications, copying a hub, and the XML of the messages.

### GVOSession

`GVOSession.tla` is a number of applications, each with a `GVOClient`
(`src/src/vo/GVOClient.cpp`), the hub processes they fork, and the lock file. Calls run in
steps that interleave:

| step | code |
|---|---|
| `Find`, `Pinged`, `Launch`, `ForkFails`, `Look`, `LookPinged`, `Sleep`, `GiveUp` | `require_hub()` with `find_hub()` and `ping_hub()` |
| `Registered`, `RegisterThrows`, `MetadataSent` | `register_to_hub()`, `send_metadata()` |
| `Unregistered`, `Cleared`, `ShutdownSent` | `disconnect()`, `clear()` and the destructor, `shutdown_hub()` |
| `Post`, `TimeOut` | `execute()`: connect, send, wait two seconds |
| `OpenLockfile`, `WriteLockfile`, `Listen`, `BindFails` | `GVOHub::start()`: the lock file is truncated, filled, and only then the socket listens |
| `Ping`, `Register`, `DeclareMetadata`, `Unregister`, `Shutdown` | a hub serves the oldest request of its queue, whether or not its sender still waits |

All hubs have one address, so that the lock file only says whether there is one. With
`SO_REUSEPORT` several hubs may listen and the system picks one for each connection. A hub
that is asked to shut down leaves with `exit(0)`, which destroys no object of its caller:
the lock file stays (`LockfileAtExit`). Keys are different here; what equal keys do is the
subject of `GVOHub`.

The variable `setting` is a record that does not change: who calls what how often (`users`,
`methods`, `max_calls`), how many hubs can be launched (`hubs`), whether hub 1 is absent,
launched or listening at the start (`first_hub`), and what may go wrong: `late` (an answer
may miss the two seconds), `slow` (a hub may need longer than the tries of
`require_hub()`; `Tries` stands for its five), `again` (a connected client may call
`connect()`), and whether the system has `reuse_port`. A run considers a set of settings.

| run | settings | shows |
|---|---|---|
| `ses_safety` | two applications that call everything, three calls, two hubs, everything may go wrong; and three applications, a hub that listens, answers in time, five calls without shutdown | `KeyIsRegistered`, `ListeningIsFindable`, `OneHub`, `NoStrayEntry` |
| `ses_liveness` | one application, six calls, three hubs that start in time; and two applications that connect, two slow hubs, late answers, no `SO_REUSEPORT`; fairness | `ConnectReturns`, `ConnectSucceeds` |

Two applications and two hubs are the smallest instance in which hubs race for the lock
file and the requests of one client reach different hubs. Three calls allow connect,
connect and disconnect or shutdown. `MaxHubs` bounds the processes; a fork beyond it fails, as it may.
`OneHub` and `NoStrayEntry` are about steady sessions: with `again` an entry does stay
behind, as `connect()` of a connected client registers it a second time.
`ListeningIsFindable` holds with `SO_REUSEPORT` only: without it a hub that cannot bind
removes the lock file of the one that listens (`BindFails`).

Fairness is `WF(InCall(c))` for each client and `WF(InHub(h))` for each hub: a call
and a process run on. Nothing is assumed of applications (`Call`) or of time-outs. In the
first setting of `ses_liveness` a request to a hub that listens is always answered in the
end and a hub that was launched comes up before the tries are over: `ConnectSucceeds` is
about stale lock files, shutdowns and reconnections, not about a system too slow for the
five tries. No deadlock check: applications may stop calling.

**Proved** (`GVOSession_proof`), for any number of applications, hubs, tries and settings,
from `SettingAssumption`: `KeysAreRegistered`, `ListeningStaysFindable`, `OnlyOneHub`,
`NoEntryIsLeft`. The difficulty is what is under way: a request stays in the queue of a hub
when its sender has given up, and a hub may find it after the sender has gone on to other
calls. The inductive invariant `SessionInv` says what such a request can still do.

* `LiveIsAwaited`, `OneLiveRequest`: a request whose sender still waits is the one the sender
  waits for, and there is one. Hence an answer never goes to a later call.
* `KeysIssuedOnce`: no two entries of any hubs share a key, and no two clients hold one.
* `HeldIsRegistered`: the key a client has, or is about to read from an answer, is in a table
  with its reference and owner. This is `KeyIsRegistered` and what it is before `Registered`.
* `UnregisterForsaken`: a request to unregister, however late it is found, has a key that
  nobody holds but a client that is about to give it up. Without it a late request could erase
  the entry of a connected client.

`ListeningStaysFindable` rests on `LockfileStays`: with `SO_REUSEPORT` no hub fails to bind,
and nothing else removes the lock file. `OnlyOneHub` and `NoEntryIsLeft` rest on `SteadyInv`:
in a steady session hub 1 alone listens and is found at the first try, and an entry is erased
before its client forgets the key. `ConnectReturns` and `ConnectSucceeds` (liveness) are
only model-checked.

Not modelled: copying a client (the copy shares its
registration), also into a forked process: when a hub cannot bind, its exception leaves `connect()`
in the copy of the program, whose copy of the client may unregister the key of the original, where
`BindFails` just ends the process; the variable `SAMP_HUB`, connections that break while a request is sent,
programs that create a `GVOHub` themselves, and parsing.

### GOptimizerPars

`GOptimizerPars.tla` is a number of parameter containers
(`src/src/opt/GOptimizerPars.cpp`) that act on one heap. A container has its two vectors
`m_pars` and `m_alloc`; the heap is the set `alive` of addresses that hold a parameter, and
an address that was freed may be allocated again. Each method is one action: `Clear` (also the
destructor), `Construct`, `Copy` (assignment and the copy constructor), `Set`, `Attach`,
`AttachAt`, `Insert`, `RemovePar`, `Extend`. The methods that take a name look up its index
and do the same, or throw without a change. A client may attach its own parameters and those
of any container, as `at()` hands them out.

`Copy` copies the flags and no pointer, `Extend` appends pointers and no flags, as the code
does. From then on the vectors have different lengths, a flag beyond the end of `m_alloc`
may be read as either value, and nothing is promised any more: the invariants are stated
while `sound`, which is TRUE until a container that is not empty is copied or appended.

| run | instance | shows |
|---|---|---|
| `pars_owned` | two containers of at most two parameters, one parameter of a client, three addresses | `TypeOK` with parallel vectors, `OwnedOnce`, `NothingLeaks` |
| `pars_ClientDeallocates` | the same | violated: see Findings |

Two containers are enough for one to hold what the other owns, two places for insertion
and removal to shift a flag, three addresses for an allocation to reuse a freed one.

**Proved** (`GOptimizerPars_proof`), for any number of containers, parameters and
addresses, from `AddressAssumption` and `BoundAssumption`: `Types`,
`NothingDeletedTwice`, `NothingLost`. The three are inductive together: that no address has
two owners is kept because a fresh one is not `alive`, which only `NothingLeaks` turns into
"not owned"; and that what a container deletes is its own needs the flags parallel to the
pointers. `Exchange` is the step common to all methods (give up some, allocate some); the
lemmas `ContentsOf...` say what each method does to the contents of the vectors.

Not modelled: `set()` with a parameter of its own container as argument (it is deleted
before it is cloned), insertion and removal beyond the end of `m_alloc`, and the clients'
use of a pointer after its container has deleted the parameter.

### MatrixValues, GMatrixSparse

`MatrixValues.tla` says what a matrix promises: a value for every row and column, and calls
that take effect at once. `GMatrixSparse.tla` is how `src/src/linalg/GMatrixSparse.cpp` does
it: columns in compressed form, one element that is pending until the next call, and a stack
of columns that are added when it is full.

| action | code |
|---|---|
| `Assign` | `operator()`, which returns an element of the matrix or the pending one |
| `AssignAll` | `operator=(value)` |
| `SetColumn`, `SetColumnArray` | `column()` for a vector and for a compressed array |
| `AddVector`, `AddArray` | `add_to_column()`: pushed on the stack if there is one (`Push`, `Full`, `Mixed`), else added to the column, which is overwritten if it is empty |
| `AddMatrix` | `operator+=` |
| `StackInit`, `StackFlush`, `StackDestroy` | the methods of that name |

A compressed column is a function from its rows to its values, in place of a stretch of three
arrays; `m_colstart` counts the elements in the columns before. `m_elements` is kept as the code
keeps it, which is not always the number of elements that are stored.

`Value` is what the const `operator()` returns, plus what is still on the stack: `Index` is
`get_index()`, and `Read` takes the element at the index `m_elements` for the pending one, as
the code does. Hence a count that has fallen behind shows: an element that is stored reads as 0.

Two restrictions hold for all clients. They flush the stack before they use the matrix in another
way (`Flushed`), as the class asks for. And what an insertion leaves of a matrix that stores more
than `m_elements` is not modelled: such a matrix is filled through its stack, flushed and read,
and the other calls are left to matrices that are `Trusted`.

`Careful` clients avoid more:

* they do not add an array directly while an element is pending (section 4 says why), and add
  nothing directly to a column that is on the stack;
* they push rows only where `mix_column_prepare()` counts them right enough (`Countable`).
  It leaves out the last element of either column. Where the last row of one of them is a row of
  the other too (`Counted`), the two omissions are one element of the mix, and the number of rows
  that are only in the second column is right or too large. Where it is not, two elements are
  missing from the mix, and one may be missing from the new ones. `Countable` asks for it between
  the rows that are pushed, what the stack has for the column, and what the matrix has, so that
  it does not matter when the stack is flushed. Columns that always get the same rows
  meet it, as do rows of which the last is always the same.

| run | instance | shows |
|---|---|---|
| `mat_calls` | three rows, two columns, three entries and five elements on the stack, arrays of one and of three rows, a vector with two nonzero rows, five calls, `Careful` | `NothingTwice`, `StackFits`, `Implements`, `CallsTakeEffect` |

Three rows give columns that overlap in part, two columns an entry that survives next to
one that is mixed. Three entries of three rows are nine elements, of which the stack holds five:
its size decides, not the number of entries, and `StackFits` fails when the room for a mix is
compared with `>` in place of `>=`. Five calls are enough to initialise the stack, push, mix,
overflow and flush. No deadlock check: the calls are used up.

With `Careful = FALSE` the same instance violates `StackFits`, `Implements` and `CallsTakeEffect`,
the last two by an array that is added while an element is pending or, without pending elements, by
a flush that counts too few: section 4 has the histories.

`Implements` is the refinement `MatrixValues` with `value <- Value`. `CallsTakeEffect`
is stronger, as it names the abstract action of each call and says that those that manage the
stack change no value.

**Proved** (`GMatrixSparse_proof`), for any dimensions, values, vectors and stacks, from
`DimensionAssumption` and `DataAssumption`: `StoredOnce` (`NothingTwice`) for all clients;
`CarefulStackFits`, `CallsCorrect` and `MatrixImplements` for `Careful` clients, whatever the size
of the stack. The invariant `IInv` has the types, `NothingTwice`, and, for careful clients,
`Accounted`: no more is stored than `m_elements`, the stack fits, and what a flush would mix is
`Counted`. The three need each other: a flush keeps the first because of the third, and a push keeps
the second and the third because of `Countable`.

* `RoomCounted`: the rows of a `Counted` mix are at most one more than `Requested`. So a mix that
  `Full` lets pass fits.
* `NewRowsCounted`: what a flush adds is at most what it counts. The proof maps every place that is
  added to one that is counted, one to one: the last row of the second column, when it is not
  counted, to the last row of the first one, which the code counts as new although it is not.
* `ReadsRight`: then the index of a stored element is below `m_elements` (`IndexOfStored`), and what
  is read is `Kept`: what is stored, pending and on the stack. The effects of the calls are proved for
  `Kept`; `SameSteps` carries them over to `Value`.

Not modelled: rows, products, transposition, copies, and the symbolic and numeric
decompositions; adding an array directly while an element is pending in an earlier column, which
shifts the bounds of all columns behind; pushing a vector with more nonzero elements than the matrix
has columns, which the arrays it is compressed into do not hold; and anything after
elements were written beyond the stack.

### LikelihoodSum, GObservationsLikelihood

`LikelihoodSum.tla` says what evaluating the likelihood promises to a fit: it ends, and then
value, gradient, curvature and number of events are sums over all observations, and the
parameters have the gradients. `GObservationsLikelihood.tla` is
`GObservations::likelihood::eval()` in `src/src/obs/GObservations_likelihood.cpp`.

| action | code |
|---|---|
| `Eval`, `EvalNothing` | `eval()` up to the parallel region: results cleared, a team of threads, the observations distributed (`omp for`); without parameters the old results stay |
| `Allocate`, `EnterCritical`, `PushBack` | a thread allocates its copies and puts them on the shared lists; the `critical` region, with `push_back()` as reading the size and writing behind it |
| `Compute`, `LikelihoodThrows`, `LoopEnds` | one observation; its contribution to the curvature goes to the stack, which may be flushed before |
| `StackDestroy` | behind the barrier of the loop |
| `Join`, `Merge`, `NextSection`, `Deliver` | the copies are added up and deleted list by list; the gradients go to the parameters |

A sum is a function from the observations to how often each has been counted, so that an
observation that is lost or counted twice shows whatever its numbers are. Any team and any
distribution of the observations is allowed. The stack of the curvature is that of
`GMatrixSparse`: pushed elements are added by a flush, which may happen at any push.
That nothing is lost in it is what `MatrixImplements` shows for `Careful` clients. The likelihood
pushes, for each event, the rows of the parameters that have a gradient there
(`GObservation.cpp:908`). These are `Countable` when they are the same for all events, or when one
parameter behind all others always has a gradient (a background model that comes last); other
models can be counted wrong, which is not part of this module.

| run | instance | shows |
|---|---|---|
| `like_eval` | up to three threads, two observations of which one may throw, two evaluations, fairness | `TypeOK`, `RegisteredOnce`, `CopiesAreDeletedOnce`, `EachCountedOnce`, `Implements` |

Three threads and two observations leave one thread without any; two evaluations show what
the first leaves to the second. The observation that may throw need not. Fairness is
`WF(InThread(t))` and `WF(InCaller)`: OpenMP runs the threads of a team to the barrier, and
`eval()` is an ordinary call. Nothing is assumed of when the caller calls. No deadlock check:
the program may be terminated, and the calls used up.

**Proved** (`GObservationsLikelihood_proof`), for any number of threads and observations,
from `EvalAssumption`: `TypesKept`, `AllRegisteredOnce`, `CopiesDeletedOnce`, `CountedOnce`
and `SafeRefinement`, that every step is one of `LikelihoodSum` or a stutter. The invariant
`IInv` follows the phases: in `ParallelInv` each observation belongs to one thread, what a
thread has counted or stacked is what it has computed, and the lists are equal and hold the
registered threads once (which needs the critical region: `slot` is the length of the list);
in `MergeInv` each result is complete, untouched, or the sum of the copies before the index,
and the copies that are allocated are those still to come. Only model-checked: that an
evaluation ends (the fairness part of `Implements`).

Not modelled: the likelihood of one observation (numbers; the fit sees it as the function),
`hessian()`, and the container of observations.

### GApplicationPars

`GApplicationPars.tla` is a number of applications that share a parameter file
(`src/src/app/GApplicationPars.cpp`, `GApplicationPar.cpp`). Each has its parameters, the
lines of the file as it has read them, and per parameter the number of its line and the place
of its value in the line.

| action | code |
|---|---|
| `AppendPar`, `Insert`, `RemovePar`, `Clear` | the methods of the container, with their changes of lines, line numbers and places |
| `Value`, `Query` | `GApplicationPar::value()` with and without an argument; querying ends with the first value |
| `Load`, `ReadLock`, `Read` | `load()`: from the file of the user under a read lock, or from the file that comes with the tool; `parse()` |
| `Save`, `WriteLock`, `Truncate`, `Write` | `save()`: `update()` of the lines, then the write lock, the file emptied and written |
| `Create`, `CreateLock` | a file that does not exist is created before it is locked |

A line is a record of its fields and of what decides whether `parse()` can tell them apart:
quotes, leading blanks, and whether a value was ever replaced at a wrong place
(`intact`). The variable `sound` becomes FALSE where the code leaves lines and parameters out
of step: after `insert()`, a second load, and a load that throws. `content` is history: what
was last written in whole.

| run | settings | shows |
|---|---|---|
| `app_files` | one tool, four calls, with or without a file of its user; a tool whose file has quoted values and indented lines; two tools in parallel, six calls; fairness | `LinesBelong`, `SavedIsReadBack`, `FileIsWhole`, `CallsEnd` |

Four calls are load, append or remove, value, save; six let two tools load, change and save
in every order. `MaxLines` is 4, one more than the longest file. The 152 thousand states
include a file that is empty under the write lock while the other tool waits to read it.
`SavedIsReadBack` is for the lines that `Ordinary` describes; `FileIsWhole` for a file that
exists at the start, as creating one is not covered by a lock. Fairness is
`WF(InCall(p))`: a load or a save that was begun runs on, and `fcntl()` returns once the lock
is free. No deadlock check: tools stop calling.

**Proved** (`GApplicationPars_proof`), for any number of tools, names and values and files of
any length, from `ConstantAssumption`: `TypeCorrect` (with `InStep`: a line number and a
place for each parameter), `FileStaysWhole`, `LinesStayTheirs`,
`SavedStaysReadable`.

* `FileInv`: locks are held exactly between taking and giving them up, a write lock alone, and
  a tool that is about to fill the file has emptied it; otherwise the file is `content`.
* `LinesInv`: parameters and the lines that are no comments have the same names in the same
  order (`Belong`); a line is only destroyed where the place of the value was wrong, which is
  that of a learned value in an appended or an indented line (`Explained`); and while saving, the
  lines have the values to be learned (`Learned`).

`SavedStaysReadable` says that parsing finds the parameters in the lines that are about to be
written. The lines that `parse()` takes are the increasing enumeration of a set of numbers;
`OrderExists`, `OrderIsOnto` and `OrderIsUnique` show that there is one and no other, so that the
enumeration parsed and the one that the invariant has must be the same, and no induction over
the lines is needed. `CallsEnd` (liveness) is only model-checked.

Not modelled: types, limits and options of values, the
difference of modes `q` and `h`, copies of containers, and a crash while the file is empty.

### IntervalLists

`IntervalLists.tla` is the list of intervals of `src/src/obs/GGti.cpp` (times) and
`src/src/obs/GEbounds.cpp` (energies), which are written alike; `kind` says which one it is.

| action | code |
|---|---|
| `AppendInterval`, `Insert`, `Extend`, `Clear` | the methods; `insert()` looks for the place before the first interval that starts later (`IsPlace`) |
| `Merge`, `MergeIn` | `merge()`, and `merge(start,stop)`, which inserts first |
| `MergePair`, `MergeNext`, `MergeEnds` | the rounds of the loop of `merge()`, and its end |
| `Reduce`, `Remove` | `reduce()` of GGti; `remove()` |
| `Read`, `SetBins` | `read()` and assignment; `set_lin()` and the like of GEbounds |

All but `MergePair`, `MergeNext` and `MergeEnds` set the attributes (`SetAttributes`); merging
does not. History: `meant`, the instants the calls have asked for, and `merged`, whether
intervals were merged since the attributes were set. `Careful` clients avoid what a list does
not survive: `merge(start,stop)` of GGti but in front, and `remove()` of GEbounds but for the
last interval. `Reduce` is modelled where no interval is dropped before one that is kept.

| run | instance | shows |
|---|---|---|
| `ivl_calls` | both kinds, starts and stops 0, 2, 4, 6, instants 0 to 6, three intervals, four calls, `Careful` | `SameInstants`, `MergeSeparates`, `AttributesAreCurrent` |
| `ivl_MergeAddsNothing` | the same, not `Careful` | violated: see Findings |

Odd instants tell a gap from a connection. Three intervals are the least for a merged one to
overlap its new successor while another is behind it; four calls make the list and merge it.
The run has 20,922 states. No deadlock check: the calls are used up.

**Proved** (`IntervalLists_proof`), for any bounds, instants, number of intervals and calls of
`Careful` clients, from `IntervalAssumption`: `InstantsKept`, `MergedAreApart`,
`AttributesKept`. The invariant `IInv` adds to `SameInstants` that in the loop of `merge()`
the list is ordered and what the index has left behind is separate from all that follows
(`LoopInv`), and that first and last instant are current in the loop too (`LimitsInv`):
merging two intervals keeps the least start and the greatest stop, which is why `merge()` may
go without `set_attributes()` for them. The on-time is a sum over the list, of which the
proofs use only that it depends on the list.

Not modelled: units and time references, files and XML, energies on a logarithmic scale.

## 4. Findings

Runs that TLC finds violated:

* `pars_ClientDeallocates`: `extend()` pushes no flags and `copy_members()` copies flags
  without pointers, so that a container deletes what its client has attached. For the
  same reason the copy that `likelihood::hessian()` works on has no parameters.
* `ivl_MergeAddsNothing`: `GGti::merge(start,stop)` and `GGti::insert()` do not store the
  place they look for, so that every interval goes to the front. `merge()` takes the earlier
  interval behind it for one that overlaps, and the gap between them becomes good time.

Met while modelling; the models have them as the code does, or leave out the calls that
meet them, and no run is about them:

* Fit: parameters released after convergence have zero rows in gradient and curvature, which
  were evaluated while they were fixed (`GOptimizerLM.cpp:366`); the next iteration does not
  move them, and when it converges the fit ends. An exception of the solver or the function
  leaves the parameters fixed that were fixed so far (:788). A copied optimizer lacks
  `m_max_hit` and other members (:662).
* Hub: clients that register in one second share a key, hide each other, and erase each
  other's entries (`GVOHub.cpp:1939`). The destructor of any hub removes the lock file,
  whoever wrote it (:292). A subscriber that does not answer blocks the notifications (:1851).
* Client: `connect()` of a connected client registers it again, and `disconnect()` removes
  only the second registration (`GVOClient.cpp:689`). Copies share their key (:461). When the
  connection is lost `send()` returns -1, which is used as a position (:919).
* Matrix: `add_to_column()` takes the bounds of a column and then fills in the pending element,
  so that the last element of the column is lost, which its comment means to avoid
  (`GMatrixSparse.cpp:1346`). `operator=(0)` resets the columns and not
  `m_elements`. `operator*` ignores a pending element if there is no other. `stack_init()`
  and copies drop what is on the stack. The arrays into which a pushed vector is compressed have
  as many elements as the matrix has columns (:2071), and are filled with up to as many as it has
  rows (:2105), so that a matrix with more rows than columns writes beyond them.
* Matrix, counts: `mix_column_prepare()` leaves out the last element of either column (:3284).
  A push that mixes {2} with {0,1} needs three elements and asks for the room of one
  (:2228), so that with four elements allocated and two used, five are used; with
  `Careful = FALSE` TLC finds such a history for `StackFits`. A flush that mixes {2} into {0,1}
  counts no new element (:2404): three are stored, `m_elements` is 2, and the const `operator()` takes
  the third for the pending one and returns 0, although it says of an element that is neither
  missing nor pending that "a reference to the matrix elements is returned"
  (`GMatrixSparse.cpp:373`); with `Careful = FALSE` and `Scalars = {0}` (so that no element is ever
  pending) TLC finds `Implements` and `CallsTakeEffect` violated by such a flush. A copy of such a matrix lacks the row indices of the elements beyond
  `m_elements` (:2600), and the memory of a flush is by this count plus a reserve (:2429).
* Likelihood: an exception of an observation leaves a parallel region and terminates the
  program, although the method documents that it throws
  (`GObservations_likelihood.cpp:178`). Without parameters the results of the last call stay.
* Application parameters: `insert()` writes the line of the last parameter instead of the new
  one (`GApplicationPars.cpp:428`). Saving destroys the lines of appended parameters
  that are learned, and indented lines, and drops the quotes of values with commas. The
  constructor of a parameter counts its value as an answer, so that modes `q` and `ql` are
  never asked, only `a`. A change that another tool saves between load and save is lost. A new
  file is created before it is locked.
* Intervals: `merge()` leaves the on-time as it was, which counts overlaps twice. `reduce()`
  copies to the old indices, beyond the new memory when an interval was dropped before
  (`GGti.cpp:407`). `GEbounds::remove()` assigns the lower limits twice and the upper ones
  never (`GEbounds.cpp:414`).
* Parameter: `scale()` multiplies the gradient by the ratio of the scales as it does the
  value, where the derivative needs the inverse (`GOptimizerPar.cpp:523`); `range()` sets the
  minimum before it finds out that the maximum is refused (:352). `GOptimizerPars::set()` with
  a parameter of its own deletes it before it is cloned (`GOptimizerPars.cpp:350`). Not modelled.

## 5. What the methods do not reach

The proofs cover safety and the safety part of the two refinements. Liveness (`FitEnds`,
`ConnectReturns`, `ConnectSucceeds`, `CallsEnd`, and that an evaluation ends) is model-checked
on small instances under the fairness stated above. What a fold or a sum over a set computes
for every input (the on-time) needs induction over data, which
is out of the prover's reach; the theorems are arranged so that they do not depend on it. The
number of stored elements is the cardinality of a set for this reason.

Not modelled: most of the library. Spectra, responses, projections, integrals, likelihoods of
single events and matrix decompositions are computations with real numbers that keep no state
between calls; TLC has no real numbers, and a model that replaced them by integers would say
nothing of the code. They enter as arbitrary functions, numbers of times, or positions, as
described above. Of the parts in section 1 that do keep state, the FITS and XML containers,
the models, the optimizer parameter itself and the node array have no module: they are used by
one thread, and their hazards are those of the pointers and indices in them.
