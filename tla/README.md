# Models and proofs of the operating-systems exercises

The repository holds five programming exercises of an operating-systems course,
in C: a page table, a shell, a character device, a blocking queue (in two
versions), and a counting service over TCP. They share no code and call each
other nowhere. Every one is modelled here by itself, at the level of its system
calls, locks and shared memory; TLC checks the models on small instances, and
the TLA+ proof system proves the main results about every component for any
number of its threads, processes, clients or frames.

## The system and its hard parts

| Component | State | Operations | What is hard |
| --- | --- | --- | --- |
| Hand-over queue, `4/queue.c` | list of items, list of waiting threads (each with a condition variable and the fields `data`, `noLock`), three plain counters, one mutex | `initQueue`, `destroyQueue`, `enqueue`, `dequeue`, `tryDequeue`, `size`, `waiting`, `visited` | the item is handed over before the waiter runs; counters are read without the lock; `destroyQueue` frees nodes of threads that wait; `cnd_wait` outside a loop |
| Its tests, `4/test.c` | threads, what they free | twelve scripts with assertions, five of them with threads | the assertions must hold in every schedule |
| Recitation queue, `4/rec09_mutex/queue.c` | the same with atomic counters and `legal` for `noLock` | the same | `destroyQueue` wakes the waiters, which leave with NULL |
| Its tests, `4/rec09_mutex/test.c` | threads, counters, the recorded order | ten scripts, among them random operations and the wake-up order | `size()` and then `dequeue()` is a race; a record is made after the lock was released |
| Service, `5/pcc_server.c`, `5/pcc_client.c`, and the version in `OS_HW4_Tests-main` | totals, the connection in work, a global descriptor, a running flag | accept, receive, answer, add, print; SIGINT | bytes arrive in any portions, clients vanish, some without a word, files shrink, the signal arrives anywhere |
| Message slot, `3/message_slot.c` | a list of channels for each minor number; a channel per open file | open, ioctl, read, write, release, load, unload | no lock at all |
| Its programs, `3/message_sender.c`, `3/message_reader.c` | the file they opened | open, ioctl, write or read, close | several of them at once; numbers that do not fit |
| Page table, `1/pt.c`, on the memory of `1/os.c`, with the test program there | page frames, a five-level table | `page_table_update`, `page_table_query`, `alloc_page_frame` | long sequences over shared levels, 64-bit words, the end of the memory |
| Shell, `2/myshell.c`, `2/shell.c` | children, ends of pipes | run alone, in the background, through a pipe; SIGCHLD handler | `wait()` takes any child, the handler competes with it, signals merge, either side of a pipe may end first, every other copy of its two ends must be closed |
| Thread exercises, `4/rec08_threads`, `4/rec09_mutex/*_ex*.c` | one shared integer, statuses, a mutex, a condition variable | create, loop, exit, join | unprotected increments, one signal that must not be lost, who draws the last number |

Within a component the parts interact as follows. Threads of a queue share its
lists under one mutex and read its counters without it. The server and a client
exchange bytes over one connection at a time; the signal handler and the main
loop of the server communicate through `client_socket_fd` and
`is_server_running`. Processes that use the message slot share the lists of
channels, and two may share one open file. The shell and its handler share
nothing but the kernel's table of children.

What makes each correct, in a sentence: the queues serve the k-th request with
the k-th item and never lose a wakeup; their counters mean what the tests assume;
the service prints every file it told a client about, once and as a whole, and
nothing else; a message slot is a map from channels to messages as long as
callers take turns, and stays a sound list when they do not; the page table is a
map from pages to frames; the shell collects every child and comes back to its
prompt.

Also in the repository, and not modelled: the testers of exercise 5
(`tester.c`, `testerpy.py`), which start the service and compare what it prints.
The second directory of exercise 5 is a copy of the first.

## Modules

| Module | Is |
| --- | --- |
| `TicketQueue` | what the blocking queue promises: requests and items are numbered, number k meets number k |
| `HandoffQueue` | `4/queue.c`, implements `TicketQueue` |
| `HandoffQueueSpurious` | the same with spurious returns from `cnd_wait` |
| `CommonLemmas` | lemmas about sequences, counting and powers that several proofs need |
| `HandoffQueueProofs` | theorems about `HandoffQueue` |
| `QueueTests` | the tests of `4/test.c` on top of `HandoffQueue` |
| `CancelQueue` | `TicketQueue` whose stranded requests come back with nothing |
| `RecQueue` | `4/rec09_mutex/queue.c`, implements `CancelQueue` |
| `RecQueueProofs` | theorems about `RecQueue` and its callers in `RecQueueTests` |
| `RecQueueTests` | the tests of `4/rec09_mutex/test.c`, and arbitrary programs, on top of `RecQueue` |
| `TestCalls` | the words in which both write down a test |
| `PccLedger` | what the service promises: totals, who is in them, who was told what |
| `PccService` | server, clients, connections and SIGINT of `5/` |
| `PccVersions` | the service of `5/` or the one of `OS_HW4_Tests-main`; both implement `PccLedger` |
| `PccProofs` | theorems about `PccVersions`, that is about both versions |
| `SlotMap` | what the message slot promises to callers that take turns |
| `MessageSlot` | `3/message_slot.c`, implements `SlotMap` when calls take turns |
| `MessageSlotProofs` | theorems about `MessageSlot` and `MessagePrograms` |
| `MessagePrograms` | `message_sender.c` and `message_reader.c`, or any callers, on top of `MessageSlot` |
| `PageMap` | what the page tables promise |
| `PageTable` | `1/pt.c` and the allocator of `1/os.c`, implements `PageMap` |
| `PageTableProofs` | theorems about `PageTable` and its callers in `PageTableTests` |
| `PageTableTests` | the main program of `1/os.c`, and arbitrary programs, on top of `PageTable` |
| `Shell` | `2/shell.c` and `2/myshell.c` |
| `ShellProofs` | theorems about `Shell` |
| `Exercises` | the ten programs of `4/rec08_threads` and `4/rec09_mutex` |
| `ExercisesProofs` | theorems about `Exercises` |
| `MC...` | the sets each of these is given for TLC |

Names are those of the source wherever TLA+ allows it. An operator called
`...Bug` is the operator below it with one plausible mistake. No action uses
it: it replaces that operator when one wants to see a property fail.

### HandoffQueue and RecQueue

A linked list is the sequence of its elements, head first; `threadNodes` is the
sequence of the owners of the linked nodes, and the fields of a node are
functions of its owner, because a thread has at most one node. A step is what a
thread does while it keeps the mutex, cut where the mutex is released and where
one of the counters that are read without it changes again. So `enqueue` is two
steps in `HandoffQueue` (link or hand over; then count and unlock) and one in
`RecQueue`, where the counter is the last thing that changes. `pc` says where a
thread is: `waiting` is inside `cnd_wait`, `signalled` is signalled but without
the mutex. Memory from `malloc` has arbitrary content: `data` starts as
`Garbage` and `noLock` as either value.

`accepted`, `requests`, `ticket` and `ret` are history: no guard reads them, but
for the bound `MaxEnqueues` on the length of `accepted`.

Assumed: `initQueue` runs only while nobody else is inside (threads that an
earlier `destroyQueue` left in `cnd_wait` may remain), nobody calls a queue
between `destroyQueue` and `initQueue`, and the mutex can still be locked by a
thread that was signalled before `destroyQueue`. The last one is how glibc
behaves; the C standard leaves it open. A failing `malloc`, which the code does
not test for, is left out.

### QueueTests and RecQueueTests

A test is data: for the main thread and for each thread it creates, the sequence
of calls it makes, with their arguments, and of the values it checks. `at` says
which call of its script a thread has come to, and every call is the action of
the queue's module of that name; so a behaviour is one schedule of one test. A
sleep is not in a script, for it makes no order of the threads impossible, only
unlikely. Loops over a hundred threads or 100000 items have `Many`, or up to six,
rounds. The bounded loop of `random_operations` chooses in each round whether to
enqueue; testing `size()` and calling `dequeue` are two steps, and `seen` keeps
what the thread saw. `AnyProgram` is no test: its threads call what they like.

### PccService and PccVersions

A step of the server is one system call, or the code up to the next point where
the signal handler would see something else; the handler runs between any two
of them. In particular `accept` and the assignment of its result to
`client_socket_fd` are two steps. `read` returns any portion of what is there,
`write` writes any portion. `cutOff` ends a client: the server finds the end of
the stream or a reset connection at its next call, or an unreachable host. Of that
one it may never hear: neither version sets `SO_KEEPALIVE` or `SO_RCVTIMEO`, so a
`read` on such a connection (`HalfOpen`) may return what was sent or fail, and may
as well block for ever; a `write` goes into the buffer or fails. A file
is a sequence of abstract bytes, `Printable` those that are counted. A
`uint32_t` has `WordBytes` bytes on the wire and `WordBits` bits in arithmetic;
`ToInt` is the conversion to a signed int. `truncate` shortens a file after its size was taken. The client of
exercise 5 then reads 0 bytes for ever, which is a client without a next step;
the other client gives up (`readFails`). The errors of `socket`, `bind` and
`listen`, a full backlog, files that grow while they are sent, and signals other
than SIGINT and SIGPIPE are left out.

`PccVersions` adds the version in `OS_HW4_Tests-main`, chosen at the start of a
behaviour. It registers its handler before it has a socket, exits when `accept`
fails, and means to skip the rest of a connection that failed; but its functions
set a parameter to -1 that hides the global of the same name, so `main` goes on
with the closed descriptor and exits when it writes the answer. The variables
have the names of exercise 5; the module's head gives the others.

### MessageSlot and MessagePrograms

The kernel calls the file operations at any time, the module takes no lock, and
so a step is the code between two accesses to memory that other calls can
reach: one pointer of the list, the length, one byte of the message. A channel
is its number in the order of `kmalloc`. `TurnsSpec` is the same with the guard
that a call starts only when no other is in progress. `TurnsSpec` implements
`SlotMap`. `Spec`, with its races, does not: no document of the repository says
what a read beside a write should return.

The channel number is an `unsigned long` in the call and an `unsigned int` in the
channel. `SlotMap` says what follows for callers that take turns: a number that
does not fit (`TooLarge`) makes a new channel every time it is asked for, known by
a name of its own (`Hidden`) that nobody can ask for again.

In `MessagePrograms` each process runs one of the two programs after another, on
a file of its own, with a channel and a message from its command line; the
programs of different processes interleave between their system calls. `toULong`
is the conversion of a negative argument. When the module is in use by a
program it cannot be unloaded. `callers` may also be `"any"`: then processes call
what they like, on shared files too.

### PageTable and PageTableTests

`pages` is the content of the frames, numbers are words with a limit, and an
update is one step for each level, so that `page_table_query`, a function of the
state, is compared with `PageMap` in the middle of an update too: there an update
is asked for, answered at one later moment, or never because the program ends.
The shifts and masks are divisions and remainders. `outOfMemory` is the end of the program in
`alloc_page_frame`, by its own test or because `mmap` fails, possibly in the
middle of an update.

`PageTableTests` has the main program of `1/os.c` as scripts, in the same way as
the tests of the queues. Its page numbers are mapped to few, such that two part at
the same level of the tree as in the source. Each part of `main` runs in a memory
of its own, because the tables of the earlier ones are never used again;
`clearValid` is the sixth test, which walks down by hand and clears a valid bit.

### Shell

A step is one system call of the shell or of a child, or one run of the SIGCHLD
handler. A child is a model value that is forked at most once. `writers` and
`readers` say which process holds the write and the read end of which pipe: the
shell from `pipe` to its `close`, every child forked meanwhile from the fork on, each
side of the pipe only its own end after `exec`. A program may end at any time,
whatever its neighbour does, and at once when `execvp` fails. What it is obliged to
is another matter (`Unhindered`): one that reads from a pipe may read on until
everybody has closed the write end, and one that writes may block on a full pipe
until a reader runs, or until nobody holds the read end and SIGPIPE ends it.
`pending` is the one bit
that the kernel keeps for a signal. The handler may run whenever the signal is
pending, also while the shell is inside `wait()`: this allows a few orders more
than Linux, which prefers the `wait()`. Words, redirections and the error exits
of a child (it ends as if its program had) change nothing that another process
sees.

### Exercises

The ten programs have one shape, and the module one `Next`: `program` is chosen at
the start and the guards say which steps a program has. A step is one access to
the shared integer, the code between two, or one call of a mutex or of the
condition variable, which may return without a signal. `Garbage` is what the
thread of `6_join_the_creator.c` may read from the frame of `main` after `main`
has left. `main` of `1_simple_thread.c` joins nobody and kills its thread when it
returns.

## What the runs show

| Run | Result |
| --- | --- |
| `handoff` | Three threads, two items, two enqueues between `initQueue` and `destroyQueue`, any number of queues one after the other. The counters are exact at any moment (`CountersExact`) and never negative, also for threads that leave after `destroyQueue` (`NoCounterWraps`); items and waiters are never queued together, the only reason why testing the head of the items is fair (`NoItemPassesAWaiter`); no linked or signalled node is freed (`NodesAlive`); the queue is a `TicketQueue` (`FifoService`); no wakeup is lost (`ServedRequestReturns`) |
| `handoff_spurious` | `cnd_wait` is called outside a loop: a spurious return lets `dequeue` return before there is an item. Comments in `4/queue.c:129` and `4/test.c:453` say it blocks |
| `queue_tests` | Every test of `4/test.c`, in every schedule: its assertions hold (the order that `test_fifo_order` expects holds whenever the consumers asked in that order) and every item is freed once (`TestsPass`), and the test ends (`TestTerminates`) |
| `pcc` | Either version. `KeepsLedger`: a file is counted as a whole and once, a client is told its own count, and nobody who was told is missing from the statistics printed at the end. The server gives up only after a client was cut off or its file truncated (`GoodClientsDoNoHarm`); it ends after SIGINT; no connected client waits for ever. The last two are demanded unless the server is held for ever in one read (`HeldUp`): of a client that became unreachable, or of a client of exercise 5 that reads the end of its truncated file for ever and that itself never ends (`Spins`) |
| `pcc_huge` | A size with its highest bit set becomes negative at `5/pcc_server.c:147`, and in the other version at line 100: the content is never read |
| `slot_turns` | Callers that take turns have a map from channels to messages (`KeepsMessages`), through two files, failing calls, numbers that do not fit and reloads. A reader prints the whole message that was last sent to its channel, or fails when there is none; a message sent to a negative channel is lost and appears nowhere else (`ReadsLastSent`) |
| `slot_races` | With all races the list remains a list without repeated numbers, so every walk ends, and lengths stay within the buffer |
| `slot_lost` | Two racing ioctls on one open file find the list empty, and each makes its channel the head; after both have returned (`NoCall`) the file refers to a channel that is in no list, against the comment at `3/message_slot.c:151` |
| `rec` | The same questions as `handoff` for the recitation queue, in every test and in arbitrary programs; `destroyQueue` leaves no thread behind. What the tests check holds (`TestsPass`), and a thread that recorded its wake-up was not woken before one that had asked earlier (`NobodyWokenFirst`). Every test ends but the random one (`TestsEnd`): it hangs where a worker found `size()` positive and others took the elements, and a worker waits there only if another dequeue was under way or came in between (`WaitsOnlyOnStaleSize`) |
| `pagetable` | The test program of `1/os.c` passes (`AssertionsHold`). Every sequence of updates of two tables in one memory: queries return the last update (`KeepsMappings`), frames belong to one entry each (`FramesOwnedOnce`), no walk leaves the frames (`NoNullTable`), up to and including the end of the memory |
| `shell` | The prompt returns while a foreground command still runs only if `wait()` returned somebody else's child, one for one (`ForegroundAwaited`): without background commands never, whichever side of a pipe ends first. Past the making of a pipe the shell holds no end of it, and of the programs that run only the left one can write into it and only the right one read from it, so that the end of one is the end of input or a SIGPIPE for the other (`OneUserEach`). Every zombie is collected although signals merge (`NoZombieStays`). If programs end that nothing hinders, the prompt comes back (`PromptReturns`) |
| `exercises` | In every schedule the number printed at the end is one that the program can account for: nothing is lost with an atomic or a mutex, the watcher adds its 125 at most once (`FinalCount`). `mutex_ex3.c` draws each number once over all its threads and prints the primes once each (`PrimesPrinted`). Every program ends, and the one signal of `cond_var_ex1.c` is not missed (`ProgramsEnd`) |

### Bounds, and why they are enough

- Queues: three threads are the smallest number with a producer and two waiters,
  or two producers and a waiter, and with somebody left to destroy the queue; two
  distinct items and two enqueues tell an order apart. The proofs remove these
  bounds for `HandoffQueue`. `queue_tests` has up to three producers and three
  consumers, so that both lists reach three, and six items. `rec` has up to four
  threads beside main, three operations for each worker of the random test (it can
  hang with two) and two enqueues in an arbitrary program of three threads.
- Service: two clients whose files share a character, one with a byte that is not
  counted, words of two bytes and three bits. Size, content and answer are split
  everywhere, both clients can be in the backlog, and SIGINT comes twice. The sum
  of a character reaches two, not the modulus, so the wrap of a total is stated
  but never happens. The run has no empty file. `WordBits` is 3 so that in
  `pcc_huge` a file of four bytes is huge.
- Message slot: `slot_turns` has two files of one device, two channels, messages
  of zero to three bytes with room for two, and the numbers 1, 2 and 15: with four
  bits in an `unsigned long` and two in an `unsigned int`, 15 is -1 on the command
  line and does not fit. `slot_races` has two processes on one shared file, three
  channels of which two ids are used (so that a duplicate could be built), and one
  byte per message: the code of the list does not look at files beyond their minor
  number, nor at messages. Its states leave the history variables out (`VIEW`): no
  guard reads them. With one byte a length cannot grow under a writer, so
  the copy beyond the caller's bytes (`Garbage`) is in the model and not in this
  run. Its ids are below `IdLimit`: with a larger one two channels store the same
  number and `ListsSound` fails, as it must.
- Page table: three levels of two entries, nine frames and two tables for the
  scripts, of which an arbitrary program uses six. The page numbers 0, 1, 2 and 6
  differ first at the last, middle and top level; 8, 12 and the frame 19 lie
  beyond the bits that an entry can hold.
- Exercises: three threads, two rounds, `TOTAL` 8 (the numbers drawn include 4,
  which `is_prime` gets wrong, and 9, the first odd number that is not a prime),
  and a limit of 4 for two threads that count to three, like 12 for two that count
  to ten: neither reaches it alone.
- Shell: four children make two pipes, or a pipe beside two background commands.

`CHECK_DEADLOCK FALSE` is set where the program may really stop: threads that
wait on an empty queue (also in the random operations test), a server or a shell
that has exited, a page table whose program has ended or is out of memory.
`queue_tests`, `slot_turns`, `slot_races` and `exercises` check for deadlock.

### Fairness

- `HandoffQueue`, `RecQueueTests`: a thread that holds the mutex runs on (weak
  fairness). A signalled thread competes for the mutex with threads that may call
  again and again, so its return from `cnd_wait` needs strong fairness: the mutex
  is free again and again, and a scheduler that never picks that thread is
  excluded. The threads of a test go on with their script; an arbitrary program is
  not obliged to call anything. In `QueueTests` weak fairness is enough, since
  each thread takes the mutex a bounded number of times.
- `PccVersions`: the server and connected clients run, but the server need not
  return from a read of a client that became unreachable (`HalfOpen`): no timer is
  set on the connection. Nobody has to start a client, to cut one off, to truncate
  a file or to press ctrl-C.
- `Exercises`: every thread runs; weak fairness is enough because no loop is
  endless, so a mutex that is waited for is in the end free for good. Nobody
  promises a spurious wake-up.
- `Shell`: the shell, its handler and the children run. A program may end at any
  time and must end, sooner or later, while nothing hinders it (`Unhindered`): a
  reader when its input has ended, a writer when somebody reads from the pipe or
  nobody can. Nobody has to type a command.
- The other specifications have no fairness and no liveness property.

## What is proved

Each theorem holds for every value of the constants that the module's own
assumption allows; a further hypothesis is named in the table.

| Module | Theorem | Says |
| --- | --- | --- |
| `HandoffQueueProofs` | `TypeCorrect` | the type invariant |
| | `NoItemPasses` | `NoItemPassesAWaiter` |
| | `NodesStayAlive` | `NodesAlive` |
| | `ImplementsTickets` | the queue implements `TicketQueue` (`FifoService`) |
| | `CountersAreExact` | `CountersExact` |
| | `CountersNeverWrap` | `NoCounterWraps` |
| `RecQueueProofs` | `TypeCorrect`, `CountersAreExact` | the types; `CountersExact` |
| | `ImplementsCancels` | the queue implements `CancelQueue` (`FifoOrCancelled`) |
| | `CallersUseTheQueue` | the tests and the arbitrary program make only steps of the queue, so all of the above holds for them, if `NumbersFit` |
| | `CallersTypeCorrect` | `RecTestsTypeOK`, for any number of rounds of the random test, if `NumbersFit` |
| | `FirstComeFirstWoken` | `NobodyWokenFirst`, if `NumbersFit` |
| | `SizeMisleadsOnlyWhenStale` | `WaitsOnlyOnStaleSize`, for any number of rounds, if `NumbersFit` |
| `PccProofs` | `TypeCorrect` | the types of both versions |
| | `OnlyHarmEndsService` | `GoodClientsDoNoHarm` |
| | `ImplementsLedger` | both versions implement `PccLedger` (`KeepsLedger`), if every file is shorter than `2 ^ (WordBits - 1)` |
| `MessageSlotProofs` | `TypeCorrect` | the types of the driver's heap, what a call refers to is allocated, no chain forks |
| | `ListsStaySound` | `ListsSound` in every race, if every channel number fits its field |
| | `TurnsKeepMessages` | callers that take turns implement `SlotMap` (`KeepsMessages`), if `NoAliases` |
| | `ProgramsTypeCorrect` | `ProgramsTypeOK`: senders, readers and the driver keep their types |
| | `ReadersGetLastSent` | `ReadsLastSent`, if `NoAliases` |
| `PageTableProofs` | `TypeCorrect` | the types of the frames |
| | `NeverThroughNull` | `NoNullTable` |
| | `NothingIsShared` | `FramesOwnedOnce` |
| | `ImplementsMap` | the page table implements `PageMap` (`KeepsMappings`), for any number of levels |
| | `ProgramsTypeCorrect`, `ProgramsNeverThroughNull`, `ProgramsShareNothing`, `ProgramsImplementMap` | `PageTestsTypeOK` and the three above for the test program of `1/os.c`, which clears a valid bit by hand, and for any other program, if `PagesFit` |
| | `EveryAssertionHolds` | `AssertionsHold`: the test program gets what it asserts, if `PagesFit` and page numbers have at least three bits |
| `ShellProofs` | `TypeCorrect`, `CommandsAreAwaited` | the types; `ForegroundAwaited` |
| | `PipesEnd` | `OneUserEach` |
| | `NoSignalIsLost` | a child that ended and was not collected has a signal pending (`ZombiesAnnounced`), the safety half of `NoZombieStays` |
| `ExercisesProofs` | `TypeCorrect`, `CountsAreRight` | the types; `FinalCount` |
| | `PrimesAreRight` | `PrimesPrinted`, for any number of threads and any last number |

The assumptions on constants are those the code makes: special values are none
of the ordinary ones, sizes are numbers, sets that are counted are finite, a
`PageSize` is even and divides the address space, the physical memory fits into
it, and the limit of `cond_var_ex1.c` can be reached by two threads and not by
one. Three hypotheses are where the code stops being right. `pcc_huge` has a
file whose size needs the highest bit; a channel number that does not fit is
stored twice (see the bounds of `slot_races`); and `NoAliases` says that no such
number is stored as another one in use, whose messages it would then answer
for. Numbers that were ints on a command line satisfy it (`IntsHaveNoAliases`):
the negative ones are stored as numbers of 2^31 and more. The others say that the
constants have what the scripts use, which TLC evaluates in the MC modules:
`NumbersFit` that there are the threads and elements a test names, however many
rounds (`NumOperations`, 1000 in the source) the random test has, `PagesFit` the
pages and frames. Three bits are those that the pages of the test program differ
in, here as in the source.

None of these invariants is inductive. What is, was checked by TLC first.

**HandoffQueue**: `IInv == TypeOK /\ Linked /\ Numbered`.

- `Linked`: a thread in the middle of an operation holds the mutex, the two lists
  are never filled at once, and linked nodes belong to waiting threads. The mutex
  is needed because an item that is being linked must not meet a thread that is
  being linked, and distinct owners because unlinking the head must not leave a
  second link to the same node.
- `Numbered`: with the queue in use, the linked items are those after the last
  request, the i-th linked thread has the i-th number after the last item, and a
  thread that is out of the lists has the item of its own number in hand, either
  in its node or in its local variable. This is what makes every step a step of
  `TicketQueue`: `StepImplementsTickets` goes through the actions one by one.

The counters need another invariant, `Counting`, on top of `IInv`. It writes each
counter as a sum of list lengths and of numbers of threads at certain places;
`EveryMove` says how these numbers shift when one thread moves, and
`CountingKept` that a step keeps the sums when its changes balance. After
`destroyQueue` the equalities fail, because the lists are emptied and the
counters kept; what remains are inequalities, and they are exactly what keeps
`size()` from wrapping.

**RecQueue**: `IInv == Types /\ Mutex /\ Numbered /\ Counting`, the same argument
for the other code. A cancelled request has no number any more; it is what
`Numbered` says of a signalled thread whose node is not `legal`.

Its callers keep `CallersInv` beside it. The scripts are put together by operators
on sequences; the `Calls...` lemmas say which calls each has, and `CallsOfEach` to
`OrderOfThreaded` in which order, for any number of rounds. So every step of a
caller is a step of the queue or leaves it alone (`CallersAreQueueSteps`).
`Tickets` ties the number of a request to the thread that remembers it; `Woken`
says that a thread which came back from its dequeue had a number that some item
has, so that an older number has one too and its thread does not wait.
`Looked` says that a positive `size()` leaves an item for the next request
(`LooksGood`) until another request begins.

**PccVersions**: the steps of both versions are first shown to be a handful of
kinds (`StepsOfBoth`), so that each lemma is proved once. `Placed` ties the
server's descriptor and its byte counts to its place in the code. `Harm` says
that nobody is found gone without having been cut off, which needs that a
failing `accept` or `write` is remembered until the server acts on it. `Kept`
has three parts: each client is accepted, answered and counted once (`Once`); the
temporary totals are those of the part of the file read so far (`Sums`, by
`CountsMore` for one more portion of any size); and whoever was told a count was
told its own, and is in the statistics unless these are lost (`Answers`).

**MessageSlot**: the lists have no lock, and what saves them is the order of
`kmalloc`. `Chained` says that every link leads to a channel allocated later, no
two links to the same one, and none to the head of a list or to a channel that
is about to be linked. `DistinctIds` says that a call that walks a list has met
none of the channels behind it with its own number; it is what keeps a number
from being in the list twice although two callers append at once.

Calls that take turns have `TurnsInv`: one call at most is in progress, and some
function `own` gives each channel that was allocated its device, such that a list
is exactly the channels of its device, in the order of `kmalloc` (`Sorted`); a
file has chosen the channel it refers to (`Chosen`); the call in progress has
passed no channel with its number (`Found`); a channel that is not being written
holds the last message of its name (`Stored`), and one that is being written or
read agrees with the copy so far (`Copied`). A channel whose number did not fit
is never found again, so it is named in `SlotMap` after the channel itself.
The `Case` lemmas show that each step of the driver is one of `SlotMap` or none.

For the programs, `ProgramsInv` adds what a process has done so far: between
ioctl and close its file has chosen the channel of its command line
(`ProgramOK`); what was last sent to a positive channel of a device is what
`SlotMap` has there (`SentOK`); and two files never share a channel whose number
did not fit (`Unshared`), which is why a message to a negative channel appears
nowhere else, and its reader finds none.

**PageTable**: `IInv` gives every frame a level: there is a function `lev` such that
the roots are at level 0, a valid entry leads one level down, no two entries lead
to the same frame, and an update in progress is in a frame of the level it has
come to. So the entry it reads is that of a table, and a frame just allocated,
which is blank, has nothing leading to it. The lemmas before it are arithmetic:
an address of a frame is even, so that the valid bit can be added to it, and
tells the frame's number.

For the refinement of `PageMap` the recursion in `page_table_query` is replaced by
the frames it goes through: `Leads(r, v, h, k)` says that `h` is the walk from table
`r` for page number `v` down to level `k`, and `QueriesWalk` that the query answers
what the last frame of such a walk holds, or nothing where there is none. Two walks
that come to one frame came from one table through the same entries
(`LeadsApart`), which are the same bits of the page number (`SamePage`); so the
leaf that an update writes changes its own page only (`LeafChanges`). A level that
it adds is blank and behind an entry no walk could pass (`QueriesGrow`). `Walked`,
the second invariant, says that an update is on the walk of its page. These
inductions over levels are over a set of numbers (`UpTo` in `CommonLemmas`).

The programs add `Follows`: where a script is, and that an update in progress is
the one it asks for. Each script is `Proper`: it makes its tables and then calls
with what there is. One step is no step of the page table: the sixth test clears a
valid bit through a walk of its own. `HandWalk` shows that this walk, which looks
at no valid bit, comes to the table of the mapping, because the test has just
made it (`MappedByHand`); `ClearIsLocal` that the invariants survive and one
mapping goes. For the assertions a script is compared with itself: `Right` says
that a test in it expects what the last call before it wrote to that page of that
table (`Latest`), or no mapping if none did (`Untouched`), and this is shown piece
by piece, a piece that is right by itself being so wherever it stands
(`RightJoined`); `Tracks` says that the queries of every state answer just that.

**Shell**: `Awaiting` compares the children that the shell still owes a `wait()`
with the calls of `wait()` to come and with the strays that earlier calls took;
each fork, each end of a child, each `wait()` and each run of the handler keeps
the balance, and none of them asks which child ends first. `Ends` follows both ends
of a pipe from `pipe` through two `fork`s to the last `close`: `Side` says, of one kind
of end, that only the two children of its pipe hold it, while they live, and the
one on the other side only before its `exec`; `Fresh`, that the sides not yet forked
hold nothing. The lemma about a step is the same for the two kinds.

**Exercises**: `IInv == Shape /\ Progress /\ Watched /\ Exact /\ Inexact /\ Draws`.
The rounds that were finished are a set of pairs of a thread and a round, whose
size is compared with the shared integer: equal where increments are atomic or
under a mutex (`Exact`), at least the integer where they are two accesses
(`Inexact`); `Watched` says where the watcher of `cond_var_ex1.c` is when the
limit is passed, and `Draws` that a number of `mutex_ex3.c` is drawn once. For the
primes there are `Answers`, which compares the statuses with the numbers drawn,
and `Checked`, which follows each of these numbers until it is tested and, if it
passes, printed. The sum of the statuses is a fold, which no induction over data
can reach; `SumOfUnits` shows instead that counting pairs satisfies the equation
of the fold, and that any two functions which do agree.

Left to TLC:

- Liveness (`ServedRequestReturns`, `TestTerminates` and the others): the prover
  handles neither fairness nor ENABLED.
- `TestsPass` of the two queues: what a script asserts of a counter depends on
  how many calls all the threads have made so far, test by test.

## Findings

Three runs end in a counterexample, where the code does not do what a comment or a
test of the repository says: `handoff_spurious`, `pcc_huge` and `slot_lost`.
`PROJECT.json` quotes the lines.

The passing runs state some more behaviour that a reader may not expect:

- `test_random_operations` of the recitation queue prints "No deadlocks" and can
  hang (`Hangs` in `RecQueueTests`).
- `test_thread_wakeup_order` records who woke after the lock was released, so it
  may fail although the queue woke its threads in order; `test_edge_cases` compares
  a variable that nobody has written (`4/rec09_mutex/test.c:63`).
- A client of exercise 5 whose file is truncated while it is sent never ends, and
  keeps the server from ending after SIGINT (`Spins` in `PccVersions`).
- A client that vanishes without FIN or RST while the server reads from it keeps
  the server from serving others and from ending, for ever (`HalfOpen`): neither
  version sets `SO_KEEPALIVE` or `SO_RCVTIMEO`.
- In `OS_HW4_Tests-main` the tests for -1 at `pcc_server.c:195`, `204` and `207`
  never hold.
- A message sent to a negative channel is accepted and lost (`ReadsLastSent`).
- `is_prime` of `mutex_ex3.c` takes 4 for a prime (`PrimesPrinted`).

## Not modelled

- The testers of exercise 5: they start the service and compare its output.
- Splitting a command line, redirections and what a program does with signals
  (exercise 2); SIGINT stays ignored in the commands, as `2/myshell.c:21` and
  `execvp` leave it.
- A failing `malloc` in the queues, which is undefined behaviour at the next line
  (`4/queue.c:108`), and what C leaves undefined about destroying a mutex that
  signalled threads still have to lock (`4/rec09_mutex/queue.c:181`).
- A spurious return from `cnd_wait` in `RecQueue`: the same mistake as in
  `4/queue.c`, where `handoff_spurious` shows it.
- Failures of `socket`, `bind`, `listen`, `sigaction`, `thrd_create` and `mtx_init`:
  each of these programs exits at once.

## What is left, and the plan

Every component but the testers is modelled. What is left is proof:

1. `TestsPass` of `QueueTests` and `RecQueueTests` for any number of threads and
   items, from the exact counters and the ticket numbers.
2. A message slot whose messages change their length under a writer, once it is
   settled what a read beside a write should return.
