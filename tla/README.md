# smiling: models, checks and proofs

smiling is a server that solves problems it finds as files in two directories.
`main` starts two pipelines: `parallel` draws fixtures of countries, `pipe`
solves circuits of logic gates. Every process is a program of its own, and all
of them talk through one interface, `ipcAPI`, of which the makefile selects one
of four implementations (pipes by default; message queues, shared memory and
sockets).

This directory holds TLA+ modules of the parts that carry the program's own
logic, TLC configurations for small instances, and theorems checked by TLAPS.
`PROJECT.json` maps each definition to the lines it stands for, lists the
hazards of the code, the runs, the mutant that each property is known to
catch, and the theorems.

## 1. The system

| part | state it keeps | operations | talks to |
|---|---|---|---|
| `main.c` | two pids | fork, pass SIGINT on, wait | parallel, pipe |
| `parallel.c` | the directory, `signalFlag`, the fifas it has started | read a table, move the file, start a fifa, send the table, wait | one `fifa` per file |
| `fifa.c` | the table with its `used` flags, `finished[]`, `headsAmm`, the fixture | `startChildProcesses`, `childsListener`, report | N/4 `grouph` |
| `grouph.c` | its copy of the table, its group, `sets`, `threadsRet` | `buildSubfixture`, `sortPointers`, `intersect`, `sendSubfixture` | fifa, its threads |
| `conditions.c` | `threadsIndex` and its mutex, a set per condition | one detached thread per restriction | grouph |
| `pipe.c` | the table of circuits of a batch, `totalProccessFiles` | count and read the directory, parse, send the batch, wait | one `gates` per batch |
| `gates.c` | the circuits, `levels[]`, `childPids[]` | a round: fork, send levels, listen, save, wait | one `levels` per active circuit and round |
| `levels.c` | a level and the one before | `evaluateLevel` | gates |
| `pipeIPC.c`, `shmIPC.c`, `msqIPC.c`, `sckIPC.c` | descriptors, rings, a queue or connections; the table of pids; `flag` | `setupIPC`, `addClient`, `synchronize`, `loadIPC`, `selectIPC`, `getIPCStatus`, `readIPC`, `writeIPC`, ... | every pair above |
| `linearHashADT.c` | buckets | insert, search, delete | the transports: pid to channel |
| `fifaGen.c` | - | writes a file of countries, interactively | - |
| `serializable.c`, `tpl.c`, libxml2 | - | encode structs, read XML | parallel, fifa, pipe, gates |

**How they interact.** A father opens its channels, forks and executes its
children, and meets them in `synchronize`/`loadIPC` (a pid one way, SIGALRM the
other). `fifa` then serves requests of its grouph: each has a *copy* of the
table, asks for a country by its index, and is told whether it is still free.
The integers it sends are countries, or -1 (a group follows), -2 (no solution),
-3 (error). A grouph with two or more restrictions runs a thread for each in
every round, and polls an array they write. `gates` works in rounds: circuit f
enters the pipeline in round f, a child evaluates one level of it per round, and
the result is saved in the round of its last level. Above them, `parallel` gives
each file to a fifa and goes on, while `pipe` gives a batch of files to a gates
and waits for it; both run until SIGINT, which `main` passes on.

**What makes it hard**, with the properties that say it went well:

- fifa/grouph: stale copies, requests in any order, one integer for three
  purposes, `select` timeouts, dying children: `GroupsDisjoint`,
  `FixtureIsTheGroup`, `NoSolutionIsHonest`, `IInv`, `NobodyIsLeftWaiting`,
  `DrawSpec`, `Reports`.
- threads of a grouph: places taken at run time, a plain array polled while it
  is written, pointers packed afterwards: `OnePlaceEach`, `NoStragglers`,
  `AsksByTheRules`, `RoundSpec`, `GroupEnds`.
- start of a transport: a signal that can come at any moment and kills who is
  not ready; children that come in any order: `HandshakeInv`, `BarrierSpec`,
  `EverybodyStartsApart`.
- shared memory: two rings that overlap in one byte, offsets that wrap, looks
  without a semaphore: `OffsetsTell`, `WaitsForAByte`, `ChannelSpec`, `TalkEnds`.
- message queue: one queue for all, a look ahead that takes a message out of
  it, a limit on what it holds: `NothingIsLost`, `NoDeadlock`, `ChannelSpec`,
  `AllEnds`.
- gates/levels: staggered files, answers in any order, counters that must agree:
  `EveryRoundWorks`, `SavedIsRight`, `SolvingSpec`, `BatchEnds`, `GatesEnds`.
- circuits from XML: tags loaded after what they contain, gates met twice:
  `MeaningIsKept`.
- the server: files that come while others are read, moved before they are
  processed, SIGINT at any moment to six kinds of process: `ServedSpec`,
  `NothingHalfDone`, `OnlyTheBatchIsLost`, `ReportIsHonest`, `ParentsEndLast`,
  `FilesAreServed`, `InterruptEnds`.

## 2. The modules

| module | what it is |
|---|---|
| `Conditions`, `ConditionsProof` | the restrictions, the slots they fill, `sortPointers`, what may be asked for: operators only; lemmas about them |
| `Fifa` | fifa, its grouph, and the pipes between them |
| `Draw` | abstract: a draw of countries without processes |
| `FifaProperties`, `FifaProof`, `MCFifa` | its properties and inductive invariant; theorems; instances |
| `GrouphThreads` | a grouph's rounds with its threads, mutex and polling loop |
| `GroupRound` | abstract: the same rounds without threads, which are the grouph of `Fifa` |
| `GrouphThreadsProperties`, `ThreadsProof`, `MCGrouphThreads` | properties; theorems; instances |
| `Handshake` | `setupIPC`, `addClient`, `synchronize`, `loadIPC` of the four transports, with signals, masks and the table of pids |
| `Barrier` | abstract: nobody goes on before all have arrived |
| `HandshakeProperties`, `HandshakeProof`, `MCHandshake` | properties and inductive invariant; theorems; instances |
| `Ring` | the segment of shared memory between two processes, byte by byte |
| `Queue` | the message queue of a father and its children |
| `Channel` | abstract: on each line what is said is heard once, in order and unchanged |
| `RingProperties`, `RingProof`, `MCRing` | properties of `Ring`, refinement of `Channel`; theorems; instances |
| `QueueProperties`, `QueueProof`, `MCQueue` | the same of `Queue` |
| `Levels` | `evaluateLevel` and the gates: operators only |
| `CircuitMeaning` | what a circuit means, defined independently of its evaluation: operators only |
| `Gates` | gates, its levels children and their pipes |
| `Solving` | abstract: circuits solved level by level, published once |
| `GatesProperties`, `GatesProof`, `MCGates` | properties; theorems, also about `CircuitXml`; instances |
| `CircuitXml`, `MCCircuitXml` | parsing of `pipe.c` and evaluation of the result; instances |
| `Parallel`, `Pipe` | the two listeners with their directories and workers |
| `Server` | main and SIGINT, composed of `Parallel` and `Pipe` |
| `FileServer` | abstract: a file is taken out of its directory and then given to a worker once |
| `ServerProperties`, `ServerProof`, `MCServer` | properties, refinement of `FileServer` by each listener; theorems; instances |

The layers meet at one step each: `FifaEnds` of `Parallel` is a run of `Fifa`,
`GatesEnds` of `Pipe` a run of `Gates`, and where these send and receive, they
suppose what `Handshake` and `Channel` promise.

**fifa and grouph (`Fifa`).** One action per step that another process can see.
`StartChildren` is the marking of the heads with the forks; `Synchronize` and
`SendTable` the start; `Select`, `Skip`, `Answer`, `GroupFollows`,
`ReceiveCountry`, `GroupFails` the body of `childsListener`, with its loop index
`j`, its `ready` channels and its early exits; `Reap` and `Report` the waits and
the outcome. A grouph is `Load`, then `Ask`/`NoCandidate`/`Die` (a whole round
of `buildSubfixture`), `ReadAnswer`, `Send` and `Exit`. Pipes are sequences: a
write appends, a read takes the head or, when no writer is left, fails
(`ReadFails`); since every child inherits the pipes of its siblings, the data of
one end only when all are gone (`AllGone`). Where the code leaves an array
unsorted or draws with `rand()`, the model chooses. The flag `used` is a set,
in fifa and in each copy. The length sent before each country is left out.

**Threads (`GrouphThreads`).** The main thread's `BeginRound`, `Spawn`, `Poll`
(one look at `threadsRet[j]`), `Combine` and `ReadAnswer`; a thread's
`TakeIndex` and `CountIndex` under the mutex, `Collect`, `ReportDone`. A shared
variable is read or written by one step each.

**Handshake (`Handshake`).** Per child the disposition, the mask, the pending
bit and the flag; `Wake` delivers a signal as POSIX does: pending when blocked,
to the handler, or as the death of the process. `Suspend` and `Resume` are the
two ends of `sigsuspend`. The transports share these and differ in how a pid
gets to the father: `Collect` reads a pipe, a queue or a header child by child,
`Accept` takes the connections of sockets in the order of `backlog`. `bucket` is
where a pid hashes to: `Collides` is what the comparison function of the
transports makes of a taken bucket.

**Shared memory (`Ring`).** Two rings A and B with two offsets and a semaphore
each, in one array `mem`, because the last place of A is the first of B. A byte
moves per step (`WriteByte`, `ReadByte`), the offsets go back to 0 in steps of
their own; `HasRoom` and `HasBytes` are the tests of `writeIPC` and `readIPC`;
`Look` is the comparison that `selectIPC` and `getIPCStatus` make without the
semaphore. The two programs follow a conversation known to both (`talk`).

**Message queue (`Queue`).** The father sends each child its work, then listens
as gates and fifa do: `SelectIPC`, `GetIPCStatus` (which moves a message from
the queue to `msLastRead`), `ReadKept` or `FatherReads`, and a reply when the
dialogue says so. `Msgsnd` waits while the queue is full. `FatherIds` and
`ChildIds` are the types that the two sides compute for themselves.

**gates and levels (`Gates`).** `StartRound` ... `SendJob` is
`startCircuitsPipeline`, `Select` ... `ReadFails` is `listenToMyChildren`,
`Save`, `Reap`, `EndRound`, `Finish` are the loop of `gateInitializer`. A child
evaluates (`Evaluate`) and answers gate by gate (`Answer`). Words are the C
integers a gate can produce, so `!` and the mixture of logical and bitwise
operators in levels.c behave as they do.

**Circuits (`CircuitXml`).** A document is the sequence of its tags in the order
of the text, each with its attributes and the place of the last tag inside it.
`ParseGatesTags` is the order in which `parseGatesTags` comes to the tags, as a
recursive function of the arguments of a call (`Calls`); `Load` is what it does
to the table for one tag, `Table` and `ParseCircuit` what `parseCircuit` makes of
all. The evaluation is that of `Levels`. `WellFormed` is the format of the files:
a gate is always at the same depth (no test file has fathers on two levels), it
has two signals, inputs and tags it is inside of together, a gate that is inside
of none has one tag, and the file fits in the table (`Fits`, section 5).
`Solution` says what the file means, from the nesting of its tags alone.

**The server (`Parallel`, `Pipe`, `Server`).** A directory is a set; a file may
come at any step, and a `readdir` in progress gives it or not. `ProcessFile`
reads and moves a file, `StartFifa` to `ReadAck` hand it over, `WaitForFifas` is
the loop of waits. `FilesSeen` to `WaitForGates` are a turn of `createsGates`;
`listing` is what `readdir` has still to give. `others` counts the entries that
are no circuits. `Interrupt` is Ctrl-C (to the whole group) or `kill` of main;
each process takes a pending signal before its next step, in its handler or by
dying of it, and a child between fork and exec still has the handler of its
father (`CopyHandles`, `FifaInterrupted`). `HandlerExits` is the end of
`handlerCtrlC`, which never returns. What `Fifa` and `Gates` say of the work of
fifa and gates is one step here, `FifaEnds` and `GatesEnds`, or none: where those
modules show that a fifa or a gates may wait for ever, it hangs (`FifaHangs`,
`GatesHangs`) and only a signal ends it. A fifa that dies after its answer
(`"stopped"`) leaves the answer in the pipe, where parallel reads it.

## 3. The runs

| run | what it shows | states |
|---|---|---|
| `groups` | two groups that compete for exactly the countries there are, with each kind of restriction or with a head too few, slow selects, one crash or failed allocation anywhere: the inductive invariant, the safety of the draw, refinement of `Draw`, and, while nothing fails, `NobodyIsLeftWaiting` and `Reports` | 300,000 |
| `threads` | one to four threads, one failure anywhere: `OnePlaceEach`, `NoStragglers`, `AsksByTheRules`, refinement of `GroupRound`, `GroupEnds` | 130,000 |
| `handshake` | each transport, three children, which pids share a bucket, any of them dying: the inductive invariant, which has `NobodyIsKilled` in it, refinement of `Barrier`, `EverybodyStartsApart` | 78,000 |
| `ring` | every conversation of four messages over rings of three bytes, and those of three with one that is too large: refinement of `Channel`, the looks (`OffsetsTell`), `WaitsForAByte`, `TalkEnds` | 56,000 |
| `queue` | three children with either kind of dialogue, one of which may die, on a queue of one message or of five: refinement of `Channel`, the look ahead, `NoDeadlock`, `AllEnds` | 301,000 |
| `gates` | three circuits of one to three levels, two deaths or timeouts: each property of the pipeline, refinement of `Solving`, `BatchEnds` and `GatesEnds` | 114,000 |
| `circuit_xml` | two of the test files with all gate types and inputs: `MeaningIsKept` | 19,000 |
| `server` | main, parallel, pipe, gates and the fifas, files that come at any moment, an empty one, files, fifas and gates that fail or hang, one SIGINT: refinement of `FileServer` twice, what an interruption leaves, and that all ends, but for who waits for what hangs | 277,000 |
| `slow_grouph`, `handshake_shared`, `ring_wraps`, `server_lone` | disagreements, section 5 | |

**Bounds.** Groups have three countries (`GroupSize`; 4 in the code): a group
still needs more than one answer, a refusal is possible between them, and the
pot is exactly consumed. Two grouph are enough for a stale copy and for each
order of two requests; the theorems cover any number and any size. Four threads
are all the program can have. Three children are the least with which a child
can be neither the first nor the last of a loop of `synchronize`. A ring of
three bytes (`Size`; 4000) is filled, emptied and wrapped by messages of one to
three, at each offset. A queue of five messages is the least for which
`AnswersFit` holds of three children with two answers each (one fewer, and
father and children can wait for each other); one message is the least queue
there is. Three circuits of different depth let files end before, with and after
those that entered later. `Workloads` names which two files may come in one
behaviour of `server`: the two pipelines only meet in main and in signals, so a
table and a circuit are enough for them together, and two of a kind for a
listener. The directory of pipe has a third entry there; one that has not takes
a batch later, of which `server_lone` shows the end. `MaxFaults`,
`ParallelMayFail` and `PipeMayFail` (one thing on each side) and the single
`Interrupt` bound what goes wrong. `MaxLevels` (5; 30) bounds the rows of a table
of levels and the gates of a row. No other counter needs a bound: every request uses up a country, every
round a level, every message a place in its conversation.

**Fairness.** Weak fairness of each process or thread: they are scheduled by
the operating system, and each blocks only in calls whose readiness the guards
state. Signals that were sent are taken. No fairness is assumed of timeouts,
crashes, failures, files that come or users who interrupt; and none of a fifa or
gates that hangs, which `InterruptEnds` has to name. The polling loop of
grouph is a step of the main thread, and fairness of the threads beside it is
what makes it end; in the same way parallel looks at its directory for ever.
`pthread_create` that fails is a fault, not a step that is owed.

**Deadlock** is checked in `gates`, `threads` and `circuit_xml`, whose processes
end in a known place (`Ended`, `XmlEnded`). The other passing runs leave it out because the
code really can stop there: fifa after a crash or a slow select, the children of
a `synchronize` that has failed, a reader of a message that wraps (section 5), a
full queue, a server without files or after its end. `NobodyIsLeftWaiting`,
`WaitsForAByte` and `NoDeadlock` say where fifa, the rings and the queue stop and
where not, and they are proved; that all end when they should is what the liveness
properties say.

**Environment.** Pipes are reliable and hold what is written to them: the
models do not follow their capacity, which a request, a group or a level of the
sizes the program is made for is far below; the capacity of the message queue
and of the rings is followed. `select` finds what was written before it. The
kernel delivers signals as POSIX says. A father notices a child that is gone as
it does with pipes: the end of the data or SIGPIPE (`AllGone`, `FifaIsMissed`,
`GatesIsMissed`); shared memory and message queues do not tell. The poll of
`threadsRet` reads memory on every turn, as the build's `-O` leaves it. What
`realloc(…, 0)` returns is up to the library, and both outcomes are there.

## 4. The proofs

Each safety property and each refinement of the passing runs is also a theorem,
for every value of the constants that its module allows.
Each proof has the same layout: the inductive invariant as a conjunction of
named parts, a lemma for each action or kind of action, the theorem that the
specification keeps the invariant, and from it the properties. TLC checked each
invariant on the instance of its component before it was proved, but for `Accounts`
of the rings, which quantifies over functions on all numbers.

**`FifaProof`** - every table, number of groups, group size and number of
faults (`SizeAssumption`, `TablesAssumption`, `FaultAssumption`).

- `Inductive`: `Spec => []IInv`. `IInv` is `TypeOK`, `Stages` (what may be in
  the two pipes and in the output of a grouph, by where it is: nothing, a
  request, an answer, or what follows a code), `FifaStages` (where fifa is in
  relation to that) and `Ledger` (the accounts: what a grouph has or is owed is
  marked in fifa's table, is no head, and is nobody else's). Neither
  `GroupsDisjoint` nor `TypeOK` is inductive by itself: that a country is given
  once depends on the answer being read by who asked, before the next request,
  which is what `Stages` says; that a country of a finished group is not taken
  for a request depends on the code before it. `TypeCorrect`, `NoCountryTwice`,
  `CopiesAreSafe` and `RequestThenAnswer` follow.
- `NoSolutionIsTrue`: a grouph asks of its copy, and what its copy has too much
  is refused by fifa; so what fifa still has, the copy has too. With
  `NoRestrictionIsForgotten` (below), nothing in common in the copy is nothing
  in common in fifa's table.
- `NoConditionHasAChoice`: a pigeonhole. By `Ledger` what is used is the heads
  and what the groups have been given, and a group that still asks has been
  given fewer than it has places: the countries are more than that.
- `NobodyWaitsForEver`: while nothing fails, fifa and its grouph never all wait,
  unless heads are missing. What `IInv` says of a grouph that has announced its
  code is not enough: fifa may only wait in the middle of a group if the rest of
  it comes. `Waits` adds, for behaviours without a fault: who is not sent to yet
  is sent to (`AllSent`), a descriptor that the last `select` has found still has
  something to read (`StillReadable`), each marked head has its grouph once
  fifa has started them (`Made`), a grouph dies only in a draw, with nothing on
  its way, and fifa waits for its children to end only when all have said what they
  had (`Quietly`), and who has ended has sent all of it (`Endings`).
- `FixtureIsReceived` and `TheDrawIsADraw` need to know where every country of a
  group is after it is whole. `DrawInv` adds it to `IInv`: `Stories` (each group
  is asking, announcing, delivering or delivered, and what fifa has of it with
  what is still on the way is the group), `HeadsAccount` (`headsAmm` counts the
  groups that have not come), `Course` and `Spent`. The refinement of `Draw` is
  then one lemma per action.

**`ConditionsProof`** - every table: sorting the pointers to the sets moves no
set away unless fewer are left than are looked at (`Holds`, kept by each
`Move`), so a process that does not die of a NULL slot has forgotten no
restriction (`NoneIsForgotten`, `NoRestrictionIsForgotten`).

**`ThreadsProof`** - every table of a head with two or more restrictions, every
interleaving, and any number of allocations and thread creations that fail
(`TablesOK`, `TakenOK`, `FaultsOK`).

- `ThreadsInv`: the mutex is held by who is in it (`Mutex`), only the threads of
  the round run (`OfThisRound`), `threadsIndex` is the number of those that have
  counted and their places are different and below it (`Places`), an answer was
  written by the thread whose place it is (`Answers`), and what the turn of the
  polling loop has seen is there (`Seen`). `PlacesAreDistinct` follows at once;
  `NobodyStraggles` from counting: as many answers as threads, in different
  places, are the answers of all (a bijection of places and threads).
- `AsksWithAll` needs to know what the sets hold. `SetsInv`: each set that is
  there is the list of what a restriction accepts, in its slot; while nothing
  fails, no thread that has collected is without its set. The loops of the code
  are recursive functions on positions: `ListedMeans`, `MergeMeans` and
  `IntersectMeans` prove by induction that a restriction lists exactly its set
  in ascending order, and that merging ascending arrays leaves exactly what they
  have in common. Induction on numbers is first-order here: a set of numbers has
  a least one (`LeastNat`), hence `SetInduction` and `Recursion`.
- `RoundsAreRounds`: from the same, a round is `Ask`, `NoCandidate` or `Die` of
  `GroupRound`, each exactly when that module says so (`CombineIsARound`).

**`HandshakeProof`** - each transport, every number of channels, every hash and
every number of deaths (`ChannelsAssumption`, `TransportsAssumption`,
`BucketsAssumption`, `FaultsAssumption`).

- `HandshakeInductive`: how far a child is when its pid is known, and how far
  the father is when a signal is on its way. It contains `TypeOK`,
  `NobodyIsKilled` and `NoWakeupIsLost`, which are not inductive without it: no
  signal is sent to a child that has not put its pid, and a child puts its pid
  only with the handler installed and the signal blocked.
- `SignalsAreSafe`: `NobodyIsKilled` and `NoWakeupIsLost` from it.
- `HandshakeIsABarrier`: the handshake implements `Barrier`, step by step.

**`RingProof`** - every size of buffer and every finite conversation
(`SizeAssumption`, `TalksAssumption`).

- `RingInv`: who is inside a ring holds its semaphore (`Inside`); the offsets are
  as far apart, around the end or not, as there are bytes to read, and the write
  offset is at 0 only before the first byte or in the middle of a write
  (`Offsets`, the part that keeps the byte both rings share from being written
  through one and read through the other); nobody is past a message that the
  other has not finished (`InTurn`); what was said and heard is the sum of the
  sizes up to where each is (`Accounts`, with the sums given by the equation that
  defines them); and the bytes that are to be read are in their places in order
  (`Contents`).
- `RingTypeCorrect`, `OffsetsAreTrue` (from `StatusIsTrue` and `EqualMeansEmpty`)
  and the refinement of `Channel`, `BytesAreGivenOnce`, follow.
- `OnlyAByteIsWaitedFor`: the side that is behind in the conversation is to read
  what the other has written, for two sides at the same message are its writer and
  its reader, and the writer finds an empty ring (`InTurn`, `Accounts`). All of
  the message is then in the ring; readIPC counts it, unless the ring has wrapped,
  where it counts one byte less. So the defect of section 5 is the only deadlock
  of two sides, with any buffer and any conversation (`SomebodyMoves`).

**`QueueProof`** - any number of children, any dialogues and any capacity
(`NAssumption`, `DialoguesAssumption`, `RoomsAssumption`, `FaultsAssumption`).

- `QueueInv`: what a status has taken out of the queue is the next message of the
  child that the father is listening to, who reads it before anything else
  (`Ahead`); messages of a line are numbered as they are written and heard in
  order (`Numbered`); those that have not left are in the queue once and in order
  (`Queued`); both ends have said and heard what the dialogue tells them
  (`Counted`); and the queue is removed when no child runs (`Removed`).
- `QueueTypeCorrect`, `LookAheadLosesNothing` and, from them, `MessagesAreGivenOnce`.
- `QueueNeverDeadlocks`: if the answers of the others always leave a place
  ((`AnswersFit`), nobody dies and no `select` gives up, father and children do not
  wait for each other. `Settled` is what `QueueInv` leaves out: the father owes
  a message only to the child he is at, and a child ends only with its dialogue.
  Work that a child is to read is in the queue as soon as the father has passed it
  (`WorkIsThere`), so if every child waits there is no work in the queue and each
  waits for the father or for a place (`StuckChild`). The queue then holds answers
  only. Either one of them is for the father (`AnswerIsThere`), or they are all of
  other children and fewer than the queue holds, by counting (`OthersLeaveRoom`),
  and he can send (`FatherGoesOn`).

**`GatesProof`** - any number of files, every batch of circuits and any number
of deaths and timeouts (`FilesAssumption`, `BatchesAssumption`,
`FaultAssumption`, and two of `GatesProperties`: `CircuitsAssumption`, that the
circuits have a meaning, which `FilesHaveAMeaning` shows of what pipe sends; and
`FormsAssumption`, that two batches of one instance differ in more than their
signals, so that the batch a behaviour began with can be told from its tables. A
single batch, whichever it is, satisfies it).

- `GatesInv(b)`, for the batch b that came: `Shape` (files follow each other one
  level apart), `Children` and `Streams` (a child that has not been read has said
  nothing, or its whole answer is in what gates has read of it, the pipe, and
  what it has still to say), `Loops` (`left` counts those not read), `Cells`
  (while nothing fails, the levels behind a file are right and those before it
  as they came), `Forms` and `Savings`.
- `GatesTypeCorrect` and `EveryRoundHasWork` follow from it; `ResultsAreRight`
  with `RightGate`, which says of each gate that its output is its meaning. The
  meaning is a recursive function on levels, whose equation is obtained with a
  least counterexample, and `evaluateLevel` is shown to compute one level of it
  (`HandlerMeans` on words).
- `GatesNeverHangs`: with any number of deaths and timeouts, until gates has ended
  it can go on or a child can. A child that waits for its level waits for gates to
  send it (`Sent`: a level that was passed is in the pipe, and never empty); when
  none of them goes on, all have ended but these, so the data end, and each `wait`
  of the round has a child to take. This says more than the deadlock check of
  `gates`: a crash or a timeout does not count as going on.
- `PipelineSolves`: the refinement of `Solving`. `Written` (a result is there
  once, when the file has passed its last level) is needed beside `GatesInv`.

The same module has the theorems about `CircuitXml`: any set of files in the
format, of any number of tags (`DocumentsAssumption`), any table
(`MaxLevelsAssumption`) and any names but the empty one (`NamesAssumption`).

- The order of the tags: a call of `parseGatesTags` visits each tag of its range
  once, with its depth and the name of the innermost tag around it, and of two
  tags one of which is not inside the other, the first first (`Walk`,
  `ParseWalks`, by induction on the length of the range). So the first tag of a
  gate is the one that makes it, although a tag is loaded after those inside it:
  the tags of a gate are never inside each other.
- The table: after any number of loads a row has one gate for each name loaded
  into it, with the attributes of the first tag and, when there are two, the
  father of the second as its second father (`Loaded`, `TableIsLoaded`). That
  there are no more than two follows from the two signals of a gate (`AtMostTwo`).
- `ParsedCircuit` puts both together: each gate of the circuit is what the
  document says of its tags (`Says`), all tags are there, and the levels are the
  depths. From it `FilesHaveAMeaning`, and `ValuesMatch`: the value of a gate in
  the circuit, level by level, is the value by the nesting of the tags.
- `XmlInv` (the levels evaluated so far are right, the others as they were
  parsed) gives `FilesMeanWhatTheySay`, which is `MeaningIsKept`. TLC checked it
  on the instance of `circuit_xml` before.
- `FilesAreSolved` joins both halves: of a batch whose tables are what pipe parsed
  out of files, gates writes, while nothing fails, solutions of those files.

**`ServerProof`** - any files, finite or not, any number of arrivals and any
moment of a signal (`EmptyAssumption`, `NoFileAssumption`,
`OtherEntriesAssumption`, `WorkloadsAssumption`, `InterruptsAssumption`,
`ProgramsAssumption` and the two `MayFail`).

- `IInv` is `ParallelInv` (every file with countries that was moved has a fifa,
  but for the one in hand, and `childs` is their number), `PipeInv` (the batch in
  the table has not been sent, or has and is not counted yet: `BatchIsKnown`),
  `MainInv` and `SignalsInv`.
- `ParallelFinishes`, `BatchAtRisk`, `CountIsHonest`, `ChildrenEndFirst`, and the
  refinement of `FileServer` by both listeners, `FilesAreGivenOnce`, follow.

**Only model-checked:** everything that must eventually happen (`Reports`,
`GroupEnds`, `EverybodyStartsApart`, `TalkEnds`, `AllEnds`, `BatchEnds`,
`GatesEnds`, `FilesAreServed`, `InterruptEnds`), because fairness and ENABLED
are beyond the prover. Of `Reports`, `TalkEnds` and `AllEnds` the half without
fairness is proved, and so it is of `GatesEnds`: before the end some process can always go
on (`NobodyWaitsForEver`, `OnlyAByteIsWaitedFor`, `QueueNeverDeadlocks`,
`GatesNeverHangs`). `FifaCanGo`, `GrouphCanGo`, `CanGo`, `FatherCanGo`,
`ChildCanGo`, `GatesCanGo` and `LevelsCanGo` stand for ENABLED of the
steps, which a theorem cannot speak of. What recursive functions compute (the parser, the table,
the values of a circuit, the counting of levels) is proved by induction all the
same: a set that has 0, and n + 1 when it has n, has every natural number
(`SetInduction`, from the well-foundedness of the inclusion of finite sets).

## 5. Where the code disagrees with what is said of it

Each of the first four is a run that TLC ends with a counterexample.

- `slow_grouph`: the report says fifa always prints whether it found a solution.
  A `select` that finds nothing for two seconds ends the listening loop
  (fifa.c:220), and fifa then waits for children that wait for its answer.
- `handshake_shared`: a comparison function shall return 0 for equal keys
  (linearHashADT.h:153); those of the transports return 1. Two pids with the
  same bucket make `synchronize` fail, and the children sleep for ever.
- `ring_wraps`: readIPC reads as many bytes as were written (ipcAPI.h:196). The
  offsets of a ring run over one place more than `_SHM_SEG_SIZE_`, but of a ring
  that has wrapped readIPC counts one byte too few (shmIPC.c:312): a message
  that wraps, and that none follows, is never read. `TalkEnds` says that this is
  the only way for a conversation not to end, and `OnlyAByteIsWaitedFor` proves
  that nothing else holds both sides up.
- `server_lone`: the report says the server consumes all files of its two
  directories. pipe waits for more than three entries (pipe.c:138), of which the
  third is `.svn`: in a directory without one a single circuit is never taken.

The modules also hold these behaviours, outside the instances of the passing
runs or of their fair specifications:

- fifa marks heads among the first N/4 entries only, forks a grouph per head
  but waits for N/4 of them (fifa.c:135-170). The files that come with the program
  have their N/4 heads first; with fewer, `synchronize` never ends, and by
  `NobodyWaitsForEver` that is the only place where fifa and its grouph all stop
  while nothing fails.
- A grouph that dies between its code and its last country leaves fifa in a read
  that its siblings keep open (fifa.c:231).
- The test for an error of a grouph, `status < 0` (fifa.c:302), is never true:
  after -3 fifa reports that there is no solution.
- `sortPointers` is to leave the sets without holes (grouph.h:142). With the
  restrictions champGroup and weakGroup alone it moves one set over the other.
  fifaGen writes no such combination.
- A head whose only restriction is not the continent uses `sets[0]`, which
  nobody filled, and its grouph dies (grouph.c:265; `Die`). The table with
  `{"weak"}` alone in `groups` does so.
- A condition without memory stores `errno`, which is positive, and the loop
  tests for a negative value (conditions.c:36, grouph.c:299). The set it did not
  leave then kills the process, so no restriction is forgotten
  (`AsksByTheRules`).
- A thread that was not created is polled for ever (grouph.c:285).
- gates takes a silent select, and the end of the data while `errno` is 0, for
  the end of the round (gates.c:315, 326) and may save a circuit unsolved; that
  it ends all the same is `GatesEnds`.
- selectIPC of msqIPC is true of any message in the queue (msqIPC.c:266), also of
  one the father has sent: a child that dies with unread messages makes the
  father look for ever. When the answers of the others fill the queue, a father
  that is still sending and its children wait for each other (`AnswersFit`; with a place to
  spare they never do, `QueueNeverDeadlocks`).
- `processFile` returns a positive `errno` on errors, which parallel takes for a
  number of countries (parallel.c:37), and pipe tests its own for -1
  (pipe.c:94): a file that does not open kills the listener.
- A file without countries asks `realloc` for no bytes (parallel.c:148); where
  that gives NULL the directory is closed under the loop that goes on with it.
- fileListener does not rewind the directory before it counts again
  (pipe.c:147), so the inner loop always ends, and what came late waits for the
  next batch.
- The loop of createsGates ends on `signalFlag`, which nothing else clears: the
  handler exits. SIGINT to main alone, while gates has no table yet, leaves the
  handler of pipe waiting for a gates that waits for pipe (`PipeIsHeld`).
- parallel and pipe do not pass SIGINT on to fifa and gates. One that waits for
  ever (a fifa after a silent select, with a head too few or with a grouph that
  died; a gates in `synchronize` without one of its children, or in `wait` for
  children that a shared bucket has left asleep) keeps its father in `wait` after
  a signal to main alone, and main with it (`ParallelIsHeld`, `PipeIsHeld`).
  Ctrl-C kills them, but for a fifa that is still a copy of parallel, whose handler
  lets it go on.
- Before both forks the handler of main sends SIGINT to pid 0, its own group
  with itself in it, and may do so again and again (main.c:14; `early`).
- A parallel that is killed outright loses the file it has moved and not sent.
- setupIPC opens new pipes for every batch and they are finalised once, at the
  end (pipe.c:72); the semaphores of shmIPC are named by pid and never unlinked
  (shmIPC.c:48). Descriptors and pids that come back are beyond the models.
- A file of thirty levels leaves countLevels no empty row to stop at (pipe.c:505),
  and the reallocation of the table at that depth reaches the callee only
  (pipe.c:418). The fathers of the gates of a level beyond the thirtieth are never
  set (pipe.c:365, 430). A second tag of a gate that is inside of none copies a
  NULL name (pipe.c:435), and a third father takes the place of the second. Such
  files are outside `WellFormed`.

## 6. The plan

Done: both pipelines from main down, the start of all transports, the traffic of
shared memory and of the message queue, and the parsing of circuits; the theorems
for each of them. What is left to prove, in this order:

1. The safety parts of the liveness properties that are left, as it was done for
   fifa, the rings, the queue and gates: that who waits has somebody who will
   answer, for the start of a transport (`EverybodyStartsApart`), the threads of a
   grouph (`GroupEnds`) and the server after a signal (`InterruptEnds`).
2. Lemmas that hold of every transport, from `Barrier` and `Channel`, to state
   what `Fifa` and `Gates` suppose of them as theorems of their own.

Runs are kept few: a new component takes the place of, or is merged with, one
that a theorem has made redundant.

**Not modelled, and why:** the reads and writes of `sckIPC.c` (a stream socket
may give a part of a message, which the code takes for an error or ignores; what
arrives together is up to TCP, of which there is no model here). The probing,
growth, deletion and files of `linearHashADT.c`: with the comparisons the
transports give it an insertion into a taken bucket is refused, so each lookup
ends at its first probe, and the program calls no other operation; its effect is
`Collides` in `Handshake`. `fifaGen` is an interactive program that writes a
file; `serializable.c` and `cutils.c` convert and allocate; `tpl.c` and libxml2
are third-party. The printing of fixtures and circuits is layout.
