# Verification of the Vortex toolbox

Vortex (`src/src/vortex`) runs the tasks of a numerical weather prediction
suite: a script declares the inputs of a task, a binary runs, its outputs are
stored or were promised to other tasks that wait for them.  Most of the code
describes resources and talks to file systems; what is hard in it is the
coordination of several actors: jobs that share a cache without a lock, forked
processes that only share a queue, threads that move objects between sets, a
server that is driven through a socket, steps of one job that trust what an
earlier one has left in the working directory.  This project models that part
in TLA+, checks it with TLC on small instances and proves the most important
properties with TLAPS.

`PROJECT.json` is the index: components, runs, mutants, the source lines of
every definition, findings, hazards and theorems.  Paths below are relative to
`src/src/vortex`.

## 1. Inventory

| Component | Source | State | Operations | Talks to | What is hard | What makes it correct | Module |
|---|---|---|---|---|---|---|---|
| Input monitor | `layout/monitor.py` 20-640 | table of entries (ufo, expected, available, failed) twice, result queue, quit and error events | start, stop, the updater's crawl, `_refresh`, `pop_available`, `all_done` | sections, promise store, users (stdpost, fpserver, eps) | a forked updater and a main process out of step; a promise made again between the look and the get; a kill | the tables agree up to the messages in flight; available means fetched, once; nothing waits for ever | `InputMonitor` |
| Gangs | `layout/monitor.py` 640-969 | sets of members by state, `_firstseen`, timer | `add_member`, `updobsitem`, `autofill`, the pops, the timer thread | monitor entries, MetaGang | two threads, two locks, reads without a lock | a gang is handed out with enough members, decided for good, none is forgotten | `Gang` |
| Promise store | `data/abstractstores.py` 1247-1521 | promise file, resource | put of a promise, put, get, delete, clear by rescue | consumers in other jobs, tracker | no lock, jobs killed anywhere, taken-over promises | no false miss, no orphan, fresh data, nobody waits for ever | `Promise`, `Availability` |
| Sections and sequence | `layout/dataflow.py` 30-640 | stage of a section, coherent groups | add, get, updstage, group close | handlers, contexts | groups closed after or before a get, alternates | a group is all or nothing, a file belongs to one section | `Inputs` |
| Resource handler | `data/handlers.py` | stage, history, container | get, insitu_quickget, put, clear, wait, earlyget, finaliseget | stores, tracker, delayed actions | in situ runs, promises, order of notifications | the file is that of the resource, no second fetch | `Inputs`, `Promise`, `DelayedGet` |
| Local tracker, recorder | `layout/dataflow.py` 900-1220, `layout/contexts.py` 60-180 | URIs got and put by file, reverse index | notifications, append, json and pickle, replay | every process of a job | one copy per process, an index that lags | a skipped put is really there, promises can be cleared | `FlyPut`, `Inputs`, (`Replay`) |
| Outputs on the fly | `algo/components.py` 740-985 | events, queue, co-process | flyput_begin, job, end | promise store, tracker | co-process dead, late, or failing half-way | a promised file is never gone | `FlyPut` |
| Server synchronisation | `algo/serversynctools.py`, `algo/components.py` 984-1180, `nwp/algo/fpserver.py` | socket, connection, server process, failure event | trigger_wait, run, stop, server_begin, job, end | a binary through a script | the server dies, stops, answers late | the right step is computed, nobody touches its files meanwhile, both end | `ServerSync` |
| Run sequence, parallel workers | `algo/components.py` 1243-2200, `tools/parallelism.py` | delayed exceptions, reports | prepare, execute, finalise; instructions, slurp | taylorism (external), recorder | one report of several is an exception | every result is replayed, every error raised | (`Workers`) |
| Delayed actions | `tools/delayedactions.py`, early get in `data/handlers.py`, `toolbox.input` | actions by identifier, result files | register, finalise, retrieve | archive stores | batch that fails in part, identifiers used twice | every early get is finalised once and right; a result of unknown outcome is fetched again | `DelayedGet` |
| Stacks of stores | `data/abstractstores.py` 433-1240, `data/stores.py` | what the cache, its stacks, the archive and its eggs have | get with refill, put, delete, check, early get | caches, archives, other jobs | refill rounds, partial failures, other jobs that fill, delete and clean between two accesses | no false miss, a file of one's own when asked for, refills end, put everywhere, deleted is gone | `Stores`, `DelayedGet` |
| Caches, archives, storage places | `tools/storage.py` | files, history | insert, retrieve, delete, check, early retrieve | file systems, FTP | read-only links, places reached by ftp or in place | insertion is atomic, a link is never written through | `Stores`, `FileLayer` |
| File layer | `tools/systems.py` 2019-2104, 2532-3222, 3604-3682 | inodes and their links, directories, lock directories | cp, smartcp, hardlink, rawcp, secure_directory_move, lockdir_context | every job on the same file system | links that run out, two users, a lock that expires, deaths | the cache is unaltered, who asks gets the file, one at a time in the lock, the directory is there | `FileLayer` |
| FTP client and pool | `tools/net.py` 317-454, 480-1176 | connection, its directory, recorded directory, retry budget; spare clients | login, cwd, get, put, retried commands, deal, reset, relinquish | remote host | retries inside of retries, reconnection in another directory, reuse by another user | the budget is shared, the directory restored, transfers made where the user is | `FtpClient` |
| Environment, sessions, contexts | `tools/env.py`, `sessions.py`, `layout/contexts.py` | active environment, stack of deltas, focus | active, clone, delta, rewind, switch | the OS environment | order of rewinds, focus refused | rewind restores | (`Environment`) |
| Prestaging | `tools/prestaging.py` | requests by tool | record, flush, clear | archives | flush that fails | a request is sent or kept | not modelled |
| Rest of the system layer, MPI tools, resources, providers, names, namelists, services, actions, schedulers, transfers, configuration, command line | `tools/systems.py`, `algo/mpitools.py`, `data/`, `nwp/data/`, `tools/` | little | files, processes, text | the operating system | none of the above | | not modelled |

Modules in brackets are planned.  The packages footprints, bronx and
taylorism, the binaries and the poll script of the on-the-fly outputs are
external.

The interactions, in one paragraph.  A section asks its handler for a `get`;
the handler asks its store, and tells the context (tracker, stages) through an
observer board what happened.  A store may be a promise store in front of a
cache: the get then brings either the resource or its promise, and the section
is `expected`.  Expected sections are given to an input monitor, whose updater
polls the promise files; gangs group the monitor's entries; an algo component
loops over what they hand out, runs a binary or drives a server, and its
outputs go through the promise store again, from the main process or from a
co-process.  What another process has done comes back as a record that the
context replays.  A store is most often a stack of stores: a cache, the stacks of
the cache, an archive reached by FTP, the stacks of the archive; what the slow ones
give refills the fast ones.  The caches are directories shared by the jobs, in which
files are linked and moved by the file layer; archives are reached by pooled FTP
clients, or by batches of delayed actions when several inputs are wanted at once.

### Hazards

`PROJECT.json` lists the main ones, each at its line, with the properties that
cover it or the reason why none does (a property that states what the code
does not do and is kept in a configuration of its own, or a part that is not
modelled).

## 2. Modules and how they correspond to the code

Each module has a header that tells its story, its actions bear the names of
the code where there is one, and the `map` of `PROJECT.json` gives the lines of
each definition.  Operators named `X_Something` are faulty variants of `X`,
used only to see that a property catches the fault: no specification uses
them.

**`InputMonitor`** (`layout/monitor.py`).  The ordered dictionaries of the two
copies are a state and a rank per key.  One crawl of the updater is a chain of
control points (`loop`, `ufo`, `exp`, `check`, `get1`, `get2`, `apply`,
`raising`) because the producers, and the main process, act in between; the
get is split into the read of the promise and that of the resource.  The main
process refreshes message by message, pops, stops, waits, kills.  The producers
keep, break or make a promise again (bounded by `MaxRepromise`).  An expected alternate
is got with `insitu=False`: its container holds the promise, so the get answers that all is
well and fetches nothing (`GetNothing`), and the entry stays expected.  Every entry has a
container of its own; an index below `-Threshold` counts as `-Threshold` (`Lowest`), since
only its sign matters then.  A crawl starts when at most `MaxNews` results are unread, a
bound that is needed because such an alternate brings news at every crawl.
**`EntryNews`** is what
all this tells to whoever listens: an entry that was unknown is expected, available or
failed, one that was expected is available or failed, and nothing else.  `InputMonitor`
implements it (theorem `MonitorTellsNews`), and the action `News` of `Gang` accepts any of
its steps: this is how the two modules fit together.

**`Gang`** (`layout/monitor.py`, the loop of `nwp/algo/stdpost.py`).  The main
thread builds the gangs (`autofill`), consumes them and brings the news; each
gang has a timer thread.  The locks are read from the control points: an action
that takes a lock is enabled when nobody is inside, the unlocked pops and
tests are not restricted.

**`Promise`** (`data/abstractstores.py`, `data/handlers.py`, `layout/contexts.py`)
and **`Availability`**.  One resource; successive runs of its producer that may
fail or be killed at every step, each file operation being an action.  A run may also
end well without having kept its promise (`unkept`): the file was never made, and the put
of a promised file that does not exist only promises again; or its put failed, wholly or in
one of several stores, in a section that is not fatal (`PutFails`).  There are consumers
that look for the promise, then for the resource, and poll.  `Availability` is
what this promises to the outside: absent, promised, there, and nobody waits
without having been told.  `Promise` implements it (property of the run, and
theorem).

**`Inputs`** (`toolbox.py`, `layout/dataflow.py`, `data/handlers.py`).  A script of
`N` sections run twice in the same directory, first fetching, then in situ;
the answers of the stores and of the content check are free.  A section is one
or two actions (quick get, get); the closing of a coherent group and the
clearing of files it entails are part of the action, as in the code.  `NoStrayFile`
has no run: it is proved.

**`FlyPut`** (`algo/components.py`, `layout/dataflow.py`, `layout/contexts.py`,
`data/abstractstores.py`).  The main process promises, runs, ends the
co-process and puts the rest; the co-process polls, puts, records.  Both have a
tracker (the URIs put, and the reverse index).  The co-process may die anywhere
and is late when it likes: the three limited waits of `flyput_end` may each
time out.

**`ServerSync`** (`algo/serversynctools.py` and its script template,
`algo/components.py`, `nwp/algo/fpserver.py`).  The main process, the server
(binary and script) and the socket between them.  A connection is "ready"; a
command is queued on it, answered `OK`, or its connection closed.  Two
flavours, as the three class flags `_SERVERSYNC_*` allow.  FullPosServer makes a step when
all its inputs are there: how many steps that will be (`last`) is free, and its loop is left as in
the code: when nothing is in `bm.available`, on the time limit or an error while inputs are
coming, or when the server is not alive after a step.  **`Rounds`** is what this
offers, the socket, the script and the signals apart: two processes that take turns in
one directory, one step at a time, and a verdict.  `ServerSync` implements it (property
of the run, and theorem).

**`Stores`** (`data/abstractstores.py`, `data/stores.py`, `tools/storage.py`).  Two
jobs of a user and the stores that `VortexStore` stacks.  A request (get, check, put,
put in a stack, delete) is a chain of accesses, one per action, to the places that
the jobs share; the refill loop of `_refilling_get` is `Missed`, `Gap`, `Again`,
`Refill`; the egg is fetched in the job's directory, moves into the cache in two steps
(`EggAway`, `EggIn`) and hatches.  Data are presence; a local file is the set of the
places it shares an inode with.  The history variables record what a place has had
since a request began, so that `NoFalseMiss` can say what may be missed.

**`FileLayer`** (`tools/systems.py`).  Inodes have a version, a writable flag and a
number of links; names point to them.  `Call` starts a cp of a file (insert, retrieve,
copy) or of a directory; `Link`, `Size`, `Replace`, `Relink`, `Same`, `ReadOnly` and
`Rename` are `smartcp` and `_safe_hardlink` with the checks after a link or a copy,
`Rawcp`, `Move` and `Compare` are `rawcp` with its comparison; `seen` is a history
variable: the inodes that the cache's file has had during a retrieval.  `Lock`, `Expire`, `Look`, `Away`, `In` and `Unlock`
are `secure_directory_move` in its sloppy lock.  A process may die at each of them; one
process belongs to another user, who may link but not replace.

**`DelayedGet`** (`toolbox.py`, `data/handlers.py`, `data/abstractstores.py`,
`tools/storage.py`, `tools/delayedactions.py`, `tools/systems.py`).  One batch of input
sections: `Early` for each, `Command` per format for the actions so registered, then
per section `Section`, `LookInCache`, and `TakeResult` or `PlainGet`, and `Refill`.  It
composes the section loop of add_section, the handler, the multistore, the archive,
the hub and the ftserv batch get.  The other jobs fill or clean the cache.

**`FtpClient`** (`tools/net.py`).  A call is a stack of retry wrappers, each with its
tries left; the budget is the shared `_internal_retries_max`.  `Unwind` is the except
clause and the finally of `retries_wrapper`, one frame at a time; `NeedsLogin`, `Connect`,
`LogIn`, `GoBack`, `AskInitial`, `LoggedIn` are the login that a command needs; `Deal`,
`Dealt`, `GiveBack`, `Close` the pool.  The server refuses a command, or cuts the
connection, whenever it likes.

**`MC<Module>`** give the constants of an instance; the `.cfg` files hold one
run each.  **`<Module>Proofs`** hold the theorems: those about the gangs
are in `InputMonitorProofs`, those about the batch get and the FTP client in
`TransferProofs`.

## 3. Runs

| Run | Instance | What it shows |
|---|---|---|
| `monitor_crawl` | 2 entries, the second an alternate, window of 1, one fatal section, 1 promise made again | order of hand-out, the tables agree up to the queue, available means fetched, the user only waits for ever for alternates that are never fetched |
| `gang_collect` | gangs of 3 and 1, 2 missing allowed, waitlimit | classification under the locks, what is handed out, the waitlimit is honoured by the timers alone, the loop ends when every entry gets news |
| `promise_jobs` | 3 runs (2 descriptions), 2 consumers | no false miss, which promises are left and by whom, fresh data, the abstract specification, who may be waited for without end |
| `inputs_steps` | 7 sections, 3 groups, 3 alternates, 1 fatal, 2 steps | groups in the first step, whose file is whose, the tracker |
| `flyput_job` | 2 files | no promised file is ever gone, skipped puts are right, what a job leaves, the main process ends |
| `serversync_steps` | 3 steps, both flavours | who owns the directory and which step is computed (the abstract specification), what a success means, when both processes end and the one case where the main one loops for ever |
| `stores_steps` | 2 jobs, 1 resource in all four places, 3 requests, 1 purge, 1 fault, ftp | own copies, no false miss, put everywhere, deleted is gone, requests are answered |
| `filelayer_cp` | 3 processes, one of another user, 3 calls, 1 death or failed move | the cache is unaltered, its owner gets data that the cache had or a refusal because the file was replaced meanwhile, the lock, the directory, every cp ends |
| `delayedget_batch` | 3 sections, 2 targets of 2 formats, 1 action of another job | whose data a container holds, what a failure means, the life of an action, the batch ends |
| `delayedget_within` | the same in one format, a path that is part of the other | **violated**: a section ends well with an empty file (see 6) |
| `ftp_leases` | 3 users of a pooled client, tries 3/2/4, any error at any command | where transfers are made, patience of a call, bound on its errors |
| `ftp_pool` | the same | **violated**: a reused client may be in the directory where a former put failed |

Sizes: the runs have from a few thousand to 2.7 million distinct states
(`delayedget_batch`, about 80 s with two workers); `stores_steps` (588 000 states)
takes two minutes for its liveness.

Why the bounds are enough:

* monitor: a window of one plus one rotating entry is the smallest that has an
  entry outside.  One new promise is enough to overwrite a fetched file.  Larger
  instances were checked too: three entries with one new promise for the safety
  properties (10.5 million states), and without new promises for the liveness
  (1.15 million); `MCInputMonitor_table.cfg` is the instance of three entries
  for the order of hand-out, `AllDoneIsTrue` and `NoGetAfterQuit`.
* gangs: three members, so that minsize, an incomplete and a complete gang all
  differ; a second gang for the MetaGang's own state.  `MCGang_patient.cfg` is
  the same without waitlimit, where `NoGangForgotten` holds.
* promises: the run that takes a promise over must follow a killed one, and the
  first has another description, so three runs; two consumers only differ by
  their patience.
* inputs: one section per role: member of one group, of two, alternate, alternate
  of an alternate, alternate that is a member, fatal.
* on-the-fly outputs: the files are independent but for the loop that puts
  several of them in a round: two are enough for the co-process to die between.
* server: the first step (startup), one in the middle and the last one.
* stores: resources only meet in the directory of a stack (`MCStores_stack.cfg` has
  two); a request, one that undoes it and one that looks are three requests, shared
  by two jobs in any way; one fault and one purge, since each alone changes an
  answer.
* file layer: one who replaces the inode or the directory, one who reads, one who
  waits behind; one of the three is of another user.  The inode of the cache
  has all its links in the beginning or few, and the cache is empty or holds a file
  and a directory (`MCInit`: the two do not interact); `MaxLink` is above what three
  processes can add to a new one, as in any file system.
* delayed gets: a nominal, an alternate of its container and a section of the same
  path need three sections; two formats, so that one is a command of its own.
* FTP: the tries 3/2/4 keep the order of the real ones (login below default below
  connect: 3/6/8), so that every comparison between them falls on the same side; the
  real ones were checked with one user (3.2 million states).

Bounds in the models: `MaxRepromise`, `NbJobs`, `MaxPolls`, `K`, `N`, `MaxCalls`,
`MaxPurge`, `MaxFault`, `MaxCrash`, `MaxOther`, `MaxLease` and the finite sets; no run
uses a state constraint.

Deadlock is checked but where the system may stop: the requests, the calls of cp
and the users of a pool are bounded (`stores_steps`, `filelayer_cp`, `ftp_leases`,
`ftp_pool`), and a process of `filelayer_cp` may be dead.

Configurations without a run of their own reproduce what section 6 describes
(`MCInputMonitor_roundrobin`, `MCGang_forgotten`, `MCInputs_insitu`, `MCFlyPut_delete`,
`MCStores_stack`, `MCFileLayer_links`: each violates its only property), or a larger
instance (`MCInputMonitor_table`, `MCGang_patient`: they pass).

### Fairness

* `InputMonitor`: weak fairness of the updater, a loop that sleeps a quarter of a
  second, and of a user who goes on asking, as every loop of the code does; strong
  fairness of `Receive`: a message that was put on the queue is delivered in the
  end, although a question may find the queue empty.  `PatientSpec` adds producers
  that keep or withdraw their promises, an assumption on other jobs that only
  `OnlyAlternatesWait` needs.  `CrawlSpec` has the updater and the producers only.
* `Gang`: `TimerSpec` has weak fairness of the main loop and of the timer threads, and
  no news at all: `WaitLimitHonoured` rests on the timers alone.  `LoopEnds` has the
  news of the entries as its hypothesis (`NewsFairness`, strong: the loop may be
  busy when one comes).
* `Promise`: jobs that are not killed go on, consumers poll; nothing makes a next run
  start.  `NoEndlessWait` does not say that nobody waits for ever: nothing in the code
  removes the promise of a run that was killed, or ended well without its file, before
  the next run.  It says that nobody waits for ever for anything else.
* `FlyPut`: only the main process is fair.  The co-process owes nothing.
* `ServerSync`: main and server are fair: the binary ends its steps, dies or
  calls the script; the inputs of FullPosServer are got or not, or exceed the time limit.
  `BothEnd` excludes late answers for the server's end, and states the case in
  which FullPosServer's loop has no end (`LoopsForEver`, see 6).
* `Stores`: a request that began goes on; other jobs, purges and faults owe nothing.
* `FileLayer`: a living process goes on, and the wait for a lock has its limit.
* `DelayedGet`: the batch goes on; the other jobs owe nothing.
* `FtpClient`: none, its properties are safety properties: `BoundedTries` is what
  makes a call end.

## 4. Proofs

| Theorem | Module | Says, for every value of the constants |
|---|---|---|
| `TypeCorrect` | `InputMonitorProofs`, `PromiseProofs`, `FlyPutProofs` | the type invariants |
| `ResultsNeverDropped`, `TablesAgree`, `AvailableMeansFetched`, `NeverFetchedTwice` | `InputMonitorProofs` | `NoResultDropped`, `CopiesAgree`, `AvailableIsFetched`, `FetchedForGood` |
| `FirstFoundFirstOut` | `InputMonitorProofs` | `HandedOutInOrder` |
| `MonitorTellsNews` | `InputMonitorProofs` | that `InputMonitor` implements `EntryNews` |
| `GangsClassified`, `PoppedRightly`, `NeverTakenBack` | `InputMonitorProofs` | `Classified`, `HandedOutRightly`, `DecidedForGood` |
| `NeverAFalseMiss`, `NoPromiseLeft`, `NeverStale`, `Refinement` | `PromiseProofs` | `NoFalseMiss`, `NoOrphan`, `FreshAfterPromise`, and that `Promise` implements `Availability` |
| `PromisedIsNeverGone`, `FilterIsSafe`, `JobsEndWell` | `FlyPutProofs` | `NeverGone`, `SkippedIsThere`, `WellEnded` |
| `OneAtATime`, `NeverNested`, `DirectoryStays` | `FileLayerProofs` | `LockExclusive`, `NotInside`, `DirThere` |
| `NobodyWritesThere`, `OwnerServed` | `FileLayerProofs` | `CacheUnaltered`, `OwnerGetsIt` |
| `TypesKept`, `StepByStep`, `NoStepMissing`, `SynchronisationIsRounds` | `ServerSyncProofs` | `TypeOK`, `InStep`, `SuccessMeansDone`, and that `ServerSync` implements `Rounds` |
| `NothingOverlooked`, `SaidIsWritten`, `NoRevival` | `StoresProofs` | `NoFalseMiss`, `PutEverywhere`, `DeletedIsGone` |
| `WritableIsOwn` | `StoresProofs` | if `Tube = "ftp"`, `OwnCopy` |
| `SettledOnce` | `TransferProofs` | `EachSettledOnce` |
| `OwnDataKept`, `FailureIsOwn`, `CacheStaysSound` | `TransferProofs` | if `NoPathInside`, `OwnData`, `FailsRightly`, `CacheSound` |
| `MadeInPlace`, `PatientCalls`, `BudgetIsReleased` | `TransferProofs` | `RightPlace`, `GivesUpLate`, `BudgetReleased` |
| `ErrorsAreBounded`, `ErrorsAreCharged` | `TransferProofs` | `BoundedTries`, `Charged` |
| `TrackerIsExact`, `GroupsHold`, `NothingStrays`, `OwnFileFirst` | `InputsProofs` | `TrackerKnows`, `GroupHonouredFirst`, `NoStrayFile`, and `OwnFile` in the first step |
| `OwnFileKept` | `InputsProofs` | if `NoneInBetween`, `OwnFile` |

The assumptions are the named `ASSUME`s of the modules (positive bounds, types
of the constants), evaluated by TLC in every run.  Three theorems or groups of
theorems have a hypothesis of their own, because what they say is false without it:

* `Tube = "ftp"` (`WritableIsOwn`): an archive reached in place gives links (section 6).
* `NoPathInside` (`OwnDataKept`, `FailureIsOwn`, `CacheStaysSound`): no path of the
  batch is part of another one.  `delayedget_batch` satisfies it; `delayedget_within`
  does not, and violates `OwnData`.
* `NoneInBetween` (`OwnFileKept`): a section that may fail without stopping the job, and
  that stands between two alternates of a nominal, shares no group with the nominal.
  The instance of `inputs_steps` satisfies it: its section in between is fatal.  Section 6
  tells what happens otherwise.

*Input monitor.*  `NoResultDropped` and `CopiesAgree` are not inductive: a result
is applied correctly only if it is the next one about its key in the queue and
in the stack of the crawl. The strengthening (`IInv`, in `InputMonitor`) says that the stack
holds at most one result per key, which starts from the state the updater still
has (`StackFaithful`), that the keys left in a crawl have none (`TodoFresh`,
`Phases`), and that data in a container was reported (`DataIsReported`,
`QueueIsFetched`).  For the order of hand-out a second invariant, `Ordered`, follows an
entry from the stack of the crawl to its end: the entries already popped were found
before those that are available, these (in the order of their ranks) before those the
queue announces, and these in the order of the queue (`PoppedFirst`, `AvailableNext`,
`QueueThen`).  It needs that ranks are distinct, and that whatever was found is told or
will be (`AllTold`), unless the process was killed: then it is the end of the queue that
is lost, and what is lost comes last.  `MonitorTellsNews` follows from `IInv` (the main
process takes a result that starts from what it knows) and from `NewsOnly` (nothing
on the queue says that an entry is unknown); a promise found again is no news.

*Gangs.*  Their proofs end `InputMonitorProofs`, which extends both modules (hence the
names `GangInit`, `GangNext`, `GangSpec`).  The
cached state of a gang always fits the counts of its members (`Judged`): this takes
the cardinals of the sets of members through each change, and gives `HandedOutRightly`
and `DecidedForGood`.  An observed gang is in the set of
its state, or the thread that is about to put it there still has it (`Tracked`).  The two
threads do not meet, because a timer only turns an undecided gang into an incomplete one
(`TimerDecides`), and while it moves a gang nobody adds or removes it (`AloneInMove`).

*Promises.*  The invariant adds that the runs take turns (`Turns`), that a job
which has promised is covered by its own promise file until it drops it (`Covered`:
its tracker knows the promise, and the resource is there when it drops it), that a
consumer past the promise sees a hole or the resource (`SeesHoles`), and that
results only get newer (`Newest`, `AfterTheEnd`).  The refinement follows
step by step.

*On-the-fly outputs.*  Promised files stay promised until completed
(`StillPromised`), a listed URI is a file that is there (`There`), a promise of the
job that is left is listed by the main process (`Pending`, what rescue relies on);
the rest is bookkeeping on the order of the phases.

*Directories of a cache.*  `LockExclusive` becomes inductive when it names the owner
of the lock (`LockOwned`); then the place is still free when the new directory moves in
(`PlaceIsFree`), which is `NotInside`.  `DirThere` does not need the lock: whoever moves
the directory away is at the point where the next one moves in, and carries one
(`Carries`, `MovedIsThere`).  The steps that work on a file are shown once to be
`Quiet`.

*Files of a cache.*  `FileInv` says who may write: an inode that somebody may write in has
no other name (`Private`), and the inode of the cache, as every inode that a process is
about to link or has read, is unaltered (`Sound`).  `OwnerServed` rests on `SeenInv`: what
a retrieval holds is data that the cache has had since it began (`Saw`), and a check
can only refuse it when the cache has another inode than the one that it came from
(`Gets`); whoever puts a file there adds it to what the others see (`SeenByOthers`).  It
also needs that the model's supply of inodes does not run out, else it would hold
because nobody goes on: the inodes used, plus one for each process that may still make one (`Debtors`),
are at most the calls made plus one (`Counted`).  It is the only place where the proof is
about a bound of the model.  The steps in the lock leave all of it alone.

*Server.*  What the main process may infer from its control point: nothing was asked
(`Idle`), the order was given and the server computes the step, has computed it or is
dead (`Working`), or, with RUNONSTARTUP, the same before the first order (`Starting`).
The connection holds at most a step that was not answered in time and the stop sent
after it (`Sent`), and such a step is only met when the main process is leaving
(`Left`): this is why a late answer never lets it prepare the wrong inputs.  The
refinement of `Rounds` takes from this invariant that a step is prepared when the last one
is computed, that the main process comes back when nothing is being computed, and begun
only when one is due; each step of either process is then a step of `Rounds` or none.

*Stores.*  Each place that a get has gone through without success is not among those
that have had the resource since the request began, unless its access failed
(`Missing`).  `DeletedIsGone` needs that a job whose delete is alone at its resource meets no
request of another job (`Alone`), and that a resource that is gone is about to be written
only by a request that was under way when the delete was answered (`Gone`, kept by
the steps of the others by `GoneKept`): a get that begins later finds nothing to refill.
`gone` is what a delete has answered yes for, if its job was alone at the resource or if
no writeable store had it then.  `Linked`, for `WritableIsOwn`, says that what ftp
brought is linked to nothing until the refill.

*Delayed gets.*  The life of the actions (`Life`: one per path, kept until its section has
used it) is proved without any hypothesis.  `Data` adds that a done action has
its own path's data and a failed one nothing (`Fetched`, the only place where
`NoPathInside` is used), that the containers that were fed hold (`FedHolds`), that a
section which fetches is the first to feed its container (`First`), and that
the nominals come before their alternates.

*FTP client.*  These proofs end `TransferProofs`, which extends both modules (hence the
names `FtpInit`, `FtpNext`, `FtpSpec`).  The stack of wrappers is read through its
outermost and innermost frames: only the outermost has set the budget and may be a
transfer, and only the innermost may be a login that has just been done (`Nesting`).  The
errors of a call, plus the tries that its outermost wrapper has left, are at least its
tries (`Patient`), which is `GivesUpLate` when the call ends.  The directory
recorded is that of the user, or a `cwd` in the stack is about to restore it (`AtHome`,
`AtWork`), unless that return has failed (`lost`).  The connection is in the
directory recorded, except just after a login, during a reset, and after a put that
stopped while it made directories (`InPlace`); since a transfer is the
outermost wrapper and is alone in the stack when it runs, it is made in the right place.

`BoundedTries` (the errors of a call are at most the square of the tries of the method
called) is far from inductive: the budget b that the wrappers share may fall below
zero, each wrapper called still has one try, and a login calls other wrappers which may
log in again.  `ErrorsAreCharged` is a first fact: every error costs the budget at least
one try.  The invariant (`Solvent`) adds up, besides the errors already met:
what the wrappers of the stack have left (`Funded`), and what those that they will call
may still cost (`Due`, at most b (b - 1), the `Reserve` of the budget).  A wrapper that is
called is funded by what was due to it (`DueMore`), and what it leaves when it ends pays
for the next ones (`DueBack`); an error that is caught pays with the try that is
taken from the budget (`DueAgain`).  The sum over the stack is not written as a sum, which
would take an induction over data: `Funded` says that there is a table of its partial
sums, and each step shows how to make the next table from the one before.  The rest
says who calls whom (`Chain`), and that a login which has gone past its first
command has logged in (`PastLogin`).

*Inputs.*  The tracker's entry of a file is that of its data (`Exact`), in both steps.
In the first step a section fetches a file only when it is missing: an alternate by
the test of the code, a nominal because nobody before it in the script has its file (`Missing`,
from `FileAssumption` and `Untouched`).  So the inputs have their files for
themselves (`Single`), and what each section knows of its groups is what the sequence
knows (`Linked`), which gives `GroupHonouredFirst`.  In situ none of this holds, and
`OwnFileKept` has an invariant of its own: after a section that was got, nobody has
its file (`One`), nor will take it if it is lost (`Lost`).

The type invariants of `InputMonitor`, `Promise`, `FlyPut` and `ServerSync`,
`NoResultDropped`, `FetchedForGood`, `NotInside`, `CacheSound`, `InStep` and `NoStrayFile` are proved for
every value of the constants and no run checks them any more.

Model-checked only: liveness (out of the prover's reach, as ENABLED is).  Every invariant
and every action property that a run checks is proved.

## 5. Not modelled

* Clocks: `inactive_time` and `is_timedout` of the monitor, the 20 s caching
  of its polls, the sleeps.  A time limit is a step that may happen at any time.
* The content of files and of promise files beyond a description; formats.
* The sort of the entries by term, MetaGangs of MetaGangs, hooks, histories,
  the display.
* Two producers of the same resource at the same time: the promise store has no
  protection against it and the suite does not do it.
* Failures of the promise cache itself (the write or the deletion of a promise file), and
  of the deletion of the old resource when a promise is made: nothing tests the answer of
  the two deletions (`data/abstractstores.py:1498, 1507`).
* A container shared by a nominal and its alternate in the input monitor (`Inputs` has
  shared containers, without the monitor).
* The file layer is modelled by itself (`FileLayer`); the other modules take from it
  that inserting a file in a cache is atomic and that removing a missing path
  succeeds.  Left out there: small files, which are copied, a file system of the
  cache that is not that of the job, a replacement that fails for lack of
  permissions (EACCES), the temporary link that another user leaves when the copy
  takes over (2988 does not name it).
* Stacks of stores: the other compositions of `data/stores.py`, locate, list,
  prestage, hash files, the extraction of tar files, asynchronous puts (jeeves).
  A multistore is that of `VortexStore`; promises in front of it are in `Promise`.
* FTP: listings, rename, delete and quit, which are wrapped like pwd; several clients
  of a pool at once, which share nothing; the inside of a get or a put.  A get by
  ftget is taken to leave no partial file when it fails.
* Delayed actions: an identifier that nobody retrieves, which only costs a plain get
  to another section of the same path; the clean of the hub.
* The greater part of the repository's lines is outside of all this: classes of
  resources, names and providers, namelists, the algo components of the models
  (`nwp/algo`), MPI command lines, GRIB, ODB and LFI tools, configuration, tests and
  examples.  They declare, format and call: nothing happens over time that a
  model checker would tell apart.  What is modelled is where several actors, or
  several steps, meet.
* The death of the main process while its children live (`ServerSync`,
  `FlyPut`).

## 6. Disagreements between the code and what it says

With a run (see `findings`):

* `delayedget_within`: "the path to the temporary file where the resource has been
  fetched" (`tools/delayedactions.py:532-533`) is an empty file when the command fails
  and the acknowledgement of another path contains this one (`tools/systems.py:2094`).
* `ftp_pool`: "re-used object are properly reseted" (`tools/net.py:1045-1047`) is not
  so after a put that failed while it made its directories (1000).

With a configuration that reproduces it:

* `MCInputMonitor_roundrobin` (`RoundRobin`): "in a round robin manner"
  (`layout/monitor.py:189-193`) is not what `kangaroo_idx` does once it is negative
  (451): an entry that is there is never looked at.
* `MCGang_forgotten` (`NoGangForgotten`): a gang that a timer moves is in no set for
  an instant (`layout/monitor.py:703`), in which the loop of stdpost may end.
* `MCInputs_insitu` (`GroupHonoured`): "get and put will fail from now and on"
  (`layout/dataflow.py:153`) does not hold of the quick get in situ.
* `MCFlyPut_delete` (`DeleteForgets`): "If a match is found, the URI is deleted"
  (`layout/dataflow.py:1007`) fails after a replay or a reload of the tracker.
* `MCStores_stack` (`StackKept`): a resource put in a stack is lost when the egg of
  the archive, which does not have it, refills the stack as a whole directory.
* `MCFileLayer_links` (`GetsIt`): "a simple rawcp is made" (`tools/systems.py:2729`) is
  an exception for who does not own a file that has all its links (2744).

By another value of the constants:

* `Stores` with `Tube = "inplace"` violates `OwnCopy`: an archive reached in place links
  its file whatever the intent (`tools/storage.py:935`).  With `Options =
  {"inarchive"}`, `GetEnds` is violated: a get for the intent "inout" that may not use
  the cache, a refill that succeeds, and another round without an end.
* `Inputs` with `N = 4`, a file shared by the nominal 1 and its alternates 2 and 4, and 3 in
  the group of 1 only, violates `OwnFile` in situ: 1 is expected; 2 is fetched over its
  promise (`data/handlers.py:834`); 3 fails and closes the group, which clears 1 and so
  removes the file that is now that of 2 (`layout/dataflow.py:152-165`); 4 finds it missing
  and is fetched in its place, while 2 still counts as got.
* `FtpClient` with `Streams = TRUE` violates `WholeFile`: the put or get of a stream
  is tried again from where the first try left it, and is reported whole.
  `CwdKept` is violated: `_cwd` is forgotten (`tools/net.py:848`) before the return to
  it has succeeded, although the docstring says "correct the cwd if needed" (839).
  With the real tries (6, 3, 8) one call may bear more than 20 errors, where "the
  maximum number of retries for most of the FTP functions" is 6.

Met while modelling: FullPosServer loops for ever once one of its inputs is not got while
others are: nothing empties `bm.available` (`nwp/algo/fpserver.py:1154`), the time limit is
not tested any more (1230) and the server is only looked at after a step (1219); an expected alternate is never fetched by the input monitor
(`data/handlers.py:845`, since `layout/dataflow.py:280` gets it with `insitu=False`): it
stays expected although its promise is kept, and each crawl reports it again, which
puts off `inactive_time` and with it the time limit; a promised output whose file was never
made is put with success, because the put of the missing file promises it again
(`data/abstractstores.py:1453`), and its promise stays; the data that a killed run left
behind its promise is there again when the next run, which took the promise over, fails
and clears it; the comment "Do not crash at this
stage" (`layout/monitor.py:366-368`) of a get that raises when the section is
fatal; an error of the updater that `stop` ignores when the updater is already
dead (267, 285); `autofill` with `allowmissing >= len(members)` allows nothing to
be missing (948, 837); `_nmembers` is not decremented by the pops (895, 872-876);
a gang with less than minsize members left available stays undecided after the
waitlimit (860, 734-735); `isec.stage in ("get" or "expected")`
(`data/handlers.py:804`); the replay of a cleared stage (`layout/contexts.py:136`);
put hooks notified before the put (`data/handlers.py:1108`); "If it doesn't
work, a SIGTERM is sent" (`algo/components.py:1022`), not so when `trigger_stop`
raises; the replacement of an inode without links left may undo an insertion made
in between (`tools/systems.py:2753`); the lock of a directory that has expired is
removed by who did not make it, and a directory is then moved inside of another;
nothing puts the former directory back when the move of the new one fails (3216); a
reader may see a directory of the cache while it is missing; an idle FTP connection
that is cut with an end of file is not retried (`tools/net.py:879-888`).

## 7. Plan

Written so far: the ten parts above, in the order of their importance (what other
jobs rely on first).  What would come next:

1. `Replay`: the recorder of stages between a worker and the main process, with
   the sequence and tracker of each; `Workers`: reports, delayed exceptions.
2. `Environment`: active environment, delta, rewind, focus of contexts.
3. Compositions: `ServerSync` with the monitor and the gangs in FullPosServer's
   loop; `Stores` over `FileLayer` instead of its assumption; several producers in
   `Promise`; input and output on the same file.
4. The other multistores, hash files, prestaging.

To prove next: that the compositions above, once written, implement the parts they are
made of: FullPosServer's loop should follow from `Rounds` and `EntryNews`.
