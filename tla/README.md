# Verification of the peer-to-peer chat

TLA+ models, TLC runs and TLAPS proofs for the chat program in `src/Chat`: about
1850 lines of C with POSIX threads, a hand-written thread pool, a linked list of
peers and a small TCP/SCTP protocol that keeps the lists of all peers equal.

The source files meant below are those of `src/Chat/src`.

## 1. The system

One process is one peer. Its threads:

| thread | code | what it does |
| --- | --- | --- |
| main | `chat.c` `main` | starts everything, waits for the command thread, tears everything down |
| server | `server.c` `Server_thread` | binds, calls `List_init`, accepts connections, adds one `recv_from_client` task per connection to the receive pool |
| command | `chat.c` `Cmd_routine` | reads the user's lines: `@name text`, `/connect`, `/quit`, `/info` |
| 3 + 3 workers | `thpool.c` `Thpool_routine` | run the tasks of the receive pool and of the send pool |

### Components

| component | state | operations | talks to |
| --- | --- | --- | --- |
| Thread pool (`thpool.c`) | task list, counter, mutex, condition variable, threads | create, add, routine, cleanup handler, destroy, free | server and command thread submit; tasks are functions of `task.c` |
| Member list (`list.c`) | head pointer, counter, cells in the heap | init, new, delete member, two searches, print, delete | called by the tasks under the mutex of `task.c`, by `/info` and the server thread without it |
| Peer protocol (`task.c`) | that mutex, the flag `sign` | `send_sign_in`, `send_quit`, `send_member_list`, `send_update`, `recv_sign_in`, `recv_quit`, `recv_member_list`, `recv_from_client` | other peers, one connection per packet |
| Chat messages (`task.c`, `chat.c`) | the hidden position of `strtok`, the line buffers | `Cmd_routine`, `send_msg`, `recv_msg` | command thread, send pool |
| Process life cycle (`chat.c`) | which threads and pools exist | `main` | all |
| Server and client (`server.c`, `client.c`) | the listening socket, one global descriptor, the numbers in tasks and in local variables | `Server_tcp_init`, `Server_sctp_init`, accept, `Client_connect`, close | the operating system's descriptor table |
| Packet codec (`task.c`, `packet.h`) | none | layout of header and payload, checksum, `send_all_data`, the `recv` of `recv_from_client` | peers, possibly of the other byte order |
| libcrc, `taskqueue.c` | - | one CRC function is included; the POSIX queue is not compiled | - |

### What is hard about it

* Lists travel: a peer adds what another peer once had in its list, entry by entry
  or all at once, on three workers that may overtake one another.
* Decisions are taken from values read without the mutex (`List_no_of_members()`,
  `sign`) and acted upon later.
* Nothing is acknowledged or retried; a peer that cannot be reached is skipped.
* Workers are cancelled wherever they are, `pthread_cond_wait` and a task included.
* `/info` and the checksum message read the list without the mutex, and the command
  thread may use the list before the server thread has built it.
* `strtok` has one position for all threads; a descriptor is a number that the kernel
  gives away again as soon as somebody has closed it.
* One `send` and one `recv` may each move any part of a packet, and the stack of a
  receiver still holds an older one.

PROJECT.json lists these places line by line as hazards, with the property that
covers each, or why none does.

### What makes each component correct

* *Pool*: mutual exclusion, a counter that counts, no lost wakeup, no worker that
  takes a node that is not there, a FIFO queue that runs each task once, a
  destruction that returns and leaves nobody inside.
* *List*: no lost and no dangling cell, counter and chain agree, names and addresses
  unique, the peer itself in front; each call is one insertion or one removal.
* *Protocol*: lists unique on every peer whatever arrives; a list does not change
  while it is being sent; peers that met know each other; newcomers and leavers
  become known to all; the exchange ends.
* *Life cycle*: nothing is freed or deleted while a thread that may use it is left,
  on every way through `main`; `/quit` ends the process.
* *Messages*: a worker sends the rest of the line it was given; every message is
  dealt with; the process does not die of a well-formed line.
* *Descriptors*: a number is used for what it was given for, and given back on every
  path but three: a connection that carried a sign-in or an unknown type, and the
  socket of a server thread that gives up; connections are accepted as long as there are
  numbers.
* *Codec*: what was written is what is read on the other host, the checksum is the
  CRC-32 of it, a damaged or mixed packet is noticed.

## 2. Modules

| module | models | 
| --- | --- |
| `TaskQueue` | abstract: what a pool promises |
| `ThreadPool` | `thpool.c`, one pool with its clients and `main` |
| `ThreadPoolProofs` | theorems about `ThreadPool` |
| `Members` | abstract: what the list promises, a sequence of entries |
| `MemberList` | `list.c` on the heap, with its locked callers and unlocked readers |
| `MembersProofs`, `MemberListProofs` | theorems about `Members` and about `MemberList` |
| `PeerProtocol` | the protocol tasks of `task.c` on several peers |
| `PeerProtocolProofs` | theorems about `PeerProtocol` |
| `Lifecycle` | `main` with its threads, both pools, the mutex of `task.c` and the list |
| `LifecycleProofs` | theorems about `Lifecycle` |
| `SendMsg`, `SendMsgProofs` | `Cmd_routine` and `send_msg` with their buffers and `strtok`; theorems |
| `Descriptors`, `DescriptorsProofs` | the descriptor table under `server.c`, `client.c` and the tasks; theorems |
| `Crc32` | `crc_32` of libcrc, and what it should compute |
| `Packet` | layout of the payload, writing and reading it |
| `PacketTransfer`, `PacketProofs` | one packet from a sender's stack to a receiver's; theorems |
| `MC...` | constants and symmetry sets for TLC |

Definitions called `Name_Bug` (for example `Reply_WithoutSelf`) are broken forms of
`Name`. They are in no next-state relation; PROJECT.json names, for every property
of a passing run, such a form under which TLC finds the property violated.

### ThreadPool

A step is what a thread does between two points where another thread can see a
difference. `wpc`, `cpc` and `mpc` say where workers, clients and main are:

* `Thpool_add_task`: `AddTask` (allocate), `AddLock`, `AddAppend` (the list),
  `AddCount` (the counter and the signal), `AddUnlock`.
* `Thpool_routine`: `WorkLock`, `WorkCheck` (leave the loop or wait), `WorkTake`,
  `WorkUnlock`, `RunTask`; `CancelledInWait`, `CancelledInTask` and
  `CleanupHandler` for the cancellation points.
* `Thpool_destroy` and `Thpool_free`: `DestroyLock`, `DestroyUnlock`,
  `DestroyCancel(w)`, `DestroyJoin`.

The condition variable is the set of workers whose `wpc` is "wait"; `SpuriousWakeup`
is a wait that returns by itself. A failed `pthread_create` is `CreateFails`.
Cancellation is deferred: it bites in the wait and in a task, nowhere else.

### MemberList

`list`, `counter`, `data`, `next` and `allocated` are the heap, one store per step.
Threads call under `mutex`; `NewMember`, `NewLink`, `NewCount` are the stores of
`List_new_member`, `DeleteMember`, `DeleteFree`, `DeleteCount` those of
`List_delete_member`. `WalkStart/Step/End` is the loop of `send_sign_in` and
`send_member_list`, which takes the head once and compares its index with the
counter again and again. `PrintStart/Member/Next` is `/info`, without the mutex.
`InitAlloc/Fill/Count` is `List_init` in the server thread, without the mutex.
A freed or unfilled `next` holds its old value, a null pointer or a wild one
(`Leftover`). `LongIds` are the names of 16 bytes without a NUL, for which `strcmp`
reads beyond the array and may answer either way.

### PeerProtocol

A peer is named by its address. `members[n]` is its list without the head,
`mutex[n]` the owner of the mutex of `task.c`, `sign[n]` the flag. `inbox[n]` is
what waits at the peer: the accept queue and the task list of the receive pool.
A worker may take up any of the oldest packets as long as workers are idle for
those in front of it, because a task that has left the pool's queue can be
overtaken before its first visible step.

`work[n][w].at` is where the handler stands:

| label | next step | code |
| --- | --- | --- |
| update | `UpdateLock` | `send_update` waits for the mutex |
| sending | `UpdateSend`, `UpdateUnlock` | its loop over the members |
| reply | `Reply` | `send_member_list` of `recv_sign_in` |
| add | `Add` | the loop of `recv_sign_in`, one lock per entry, the sender's entry first |
| insert | `InsertAll` | the loop of `recv_member_list`, one lock |
| clear | `ClearFlag` | `sign = false` after the unlock |
| delete | `Delete` | `recv_quit`, with its return that leaves the mutex locked (`Leaked`) |

`Take` receives the packet and goes to the first stage of its handler; whether to pass
it on (`Forwards`) is decided from the counter and the flag, read without the mutex. `SignInSend`, `SignInFlag` are
`send_sign_in`; `QuitLock`, `QuitSend`, `QuitUnlock` are `send_quit`. `recv_quit`
copies through a pointer that was never set: either it works (`Take`) or the
process ends (`SignOutCrashes`). `Send` delivers or fails; it fails always when the
peer is gone and at most `MaxLost` times otherwise.

`Exit` ends the process as one step after a sign-out; that `main` may never get that
far is the subject of `Lifecycle`. A sign-in whose packet was not sent although it
had connected still sets the flag, as the result of `send_to_server` is ignored.
Names are shorter than 16 bytes here.

### Lifecycle

`main` says what `main` does next; `TasksStart`, `CreatePool` (which may fail and then
jumps to "cancel recv" or "clean"), `StartThreads`, `JoinCmd`, `JoinServer`,
`CancelPool`, `DestroyPool`, `FreeAgain` and `TasksClean` are its steps in order.
The command thread submits until it quits (`Quit`, `QuitLock`, `QuitDone`), the
server thread submits until it is cancelled. A worker takes a task (`TakeTask`),
which locks and unlocks the mutex of `task.c` any number of times; `TaskCancelled`
ends it at a cancellation point, inside the mutex too, and then the mutex stays
locked. `TaskUnlock` may forget the mutex in the receive pool, as `recv_quit` does.
`FreeAgain` is the second `Thpool_free` of a pool: undefined, so it goes well or
ends the process. `/quit` without a list ends it for certain (`Quit`). The module keeps
of `ThreadPool` what `main` can see of it, and of the tasks what the mutex sees.

### SendMsg

A line is a number; `line[i]` says of what kind it is ("word" is any command but
`/connect`, "blank" an empty line or the end of the input) and whether anything
follows its first word. `FirstCall` is `strtok(line, ...)`, `ReadPosition` and
`StorePosition` are `strtok(NULL, ...)`, which takes the hidden position `saved` and
puts the new one back in two steps. `ClearLine` and `ReadLine` are the loop of
`Cmd_routine` (a message is copied to a buffer of its own, any other line stays in the
array `msg`), `AskFor` the end of `/connect`. A worker goes `TakeJob`, the two calls,
`Lock`, `GiveUp` or `Transmit`, `FreeJob`. A position in a buffer that is `gone` (freed,
or overwritten by the next line) gives garbage or a null pointer. A null pointer ends
the process (`crashed`). `disturbed[t]` records that another thread has stored a
position since the first call of `t`: the program does not know it, the properties
need it. That two commands of one line compare equal or a name is found is not
modelled: `GiveUp` and `Transmit` are both always possible.

### Descriptors

`table[n]` is what the descriptor `n` stands for: nothing, the listener, a connection
of another peer, or the outgoing socket of a thread. `ServerSocket`, `ServerOptions`,
`ServerBind` and `ServerListen` are the two `Server_..._init` functions (over SCTP
`bind` comes before `setsockopt`, and its failure closes the socket without a return),
`Accept` the loop of `Server_thread`. A receive task goes `TakeTask`, `Recv`, the
packets it sends, `TaskDone` with the `close` of the switch. A sender goes round
`Socket`, `Connect`, `Send`, `Close` between `Lock` and `Unlock`; its descriptor is in
the global `sock_fd` until `Client_connect` returns, then in its local `sock`. `conn`
is what the number of a task stood for when the task was made; only the properties
look at it. The kernel gives away the lowest free number. `Recv` may never happen: `recv`
has no timeout, and a peer may connect and stay silent.

### Crc32, Packet, PacketTransfer

`Crc32` computes with words as sets of bit positions: `crc_tab32` by the eight rounds
of `init_crc32_tab`, `crc_32` by the loop, and beside them `Checksum`, the remainder of
the message by the generator polynomial, found without any table. `Packet` has a list
or a text as a record, `Payload` (the loops of `send_sign_in`, which stops at the end of
a name, and `send_member_list`, which does not; the texts of `send_quit` and `send_msg`),
and `IpAt` and `IdAt`, the expressions of the receivers. `Turned` is `htonl` and `ntohl`, `InMemory`
how a word lies in memory on a little- or big-endian host.

`PacketTransfer` takes one packet along: `Build`, the loop of `send_all_data`
(`SendFirst` reads the packet, `SendRest` reads behind it, because `packet+total`
counts in packets), `Damage` by the network, `Recv` over `before`, the old contents of
the receiver's stack, and `Check`. A list that is too long ends in "overflow", a length
beyond the payload in "overread": what is written and read beyond the array is not
modelled any further.

What the runs and proofs show of this part that the code does not say:

* With the payload of 400 bytes exactly the lists of up to 19 members fit
  (`NineteenMembers`); nothing in the senders or in `List_new_member` looks at that, and from
  20 on, or with a long text, they write beyond it. `LengthCovers` is about what fits: there length
  and counter, cut off apart, agree.
* The comment above `send_all_data` ("makes sure that the whole packet is send") does
  not hold after a partial `send`. As no message needs all 408 bytes, a packet whose
  used part went out first is understood nevertheless (`WholeIsUnderstood`).
* An all-zero packet passes the checksum as an empty one, and a `recv` that ends
  inside the header can join a new type to the older payload without a report;
  `ReportsAreRight` says that nothing worse gets through.
* A false checksum is reported and the packet handled like any other.

## 3. Runs

| run | asks | distinct states |
| --- | --- | --- |
| ThreadPool | 3 workers (the real `NUM_THREADS`), 2 submitting threads, 3 tasks, 2 spurious wakeups: mutual exclusion, counter, no null node, no lost wakeup, release; every step of the pool is a step of `TaskQueue`; accepted tasks run; `Thpool_destroy` returns | 370 000 |
| MemberListSafety | heap, chain, counter, walks and `/info` on 4 cells; every step of the list is a step of `Members`, so entries stay unique | 460 000 |
| MemberListUnlockedInfo | *violated*: `/info` reads a freed member | |
| PeerConcurrent | 3 peers, any 2 overlapping commands, 1 loss: types, stable list, direct peers meet, lists stay unique, the exchange comes to rest | 607 000 |
| PeerSequential | 4 peers, any 3 commands one after the other: newcomers become known to all, leavers forgotten | 630 000 |
| PeerNewcomers | *violated*: two newcomers at once never hear of each other | |
| PeerStuck | *violated*: a sign-out that overtakes a sign-in locks the mutex for ever | |
| Lifecycle | 2 + 2 workers, from start to end with every failed start: pools and list outlive their users; after `/quit` the process ends unless a worker left the mutex locked | 12 700 |
| SendMsg | 2 workers and the command thread, any 3 lines: own rest unless disturbed, no unexplained crash, every message dealt with | 123 000 |
| Descriptors | TCP, 3 numbers, 3 connections, 1 receiving thread, 2 senders, every failing call: own descriptors, leaks explained, connections accepted unless leaks and silent peers hold every number for good | 605 000 |
| DescriptorsSctp | *violated*: after a failed connect a packet goes to a peer that has just connected | |
| PacketTransfer | 7 messages, 2 pairs of hosts, 9 places to break: length and counter agree, checksum, whole packets understood, packets that arrived reported if and only if damaged, quiet packets genuine | 118 000 |

The four violated properties each state what a comment or the help text says; the
findings in PROJECT.json quote it and tell the race.

Two further defects are in the models without a run of their own. The flag of
`send_sign_in` is set after the packet is sent, so a fast answer finds it unset: two
groups that join through one sign-in then stay apart (`SignInSend` and `SignInFlag` of
`PeerProtocol` are two steps). And `/connect` or `/quit` before the server thread has
called `List_init` follow a null pointer (`Quit` of `Lifecycle`).

### Bounds

* Pool: three tasks queue up while a worker is away, and two submitters race for the
  tail. Two spurious wakeups let two workers find the list empty.
* List: four cells hold the head, two others and one that was freed before or is
  allocated next, so cells are reused with old contents. No insertion fails for want of memory
  there, as three addresses use at most three cells; such a call changes nothing, and the
  proofs hold for heaps of any size. Two threads suffice because the mutex
  admits one at a time; the unlocked parties are in addition.
* Protocol: three peers are the fewest with a member to tell about a newcomer; four
  are needed for two groups or a chain of three newcomers. Two workers are the fewest
  that overtake. `MaxCommands` bounds the commands, `MaxOverlaps` those given while
  an exchange is under way, `Backlog` the waiting connections (a connection beyond it
  counts as a failed one, which the convergence properties exclude by `lost = 0`).
* Life cycle: two workers in each pool let one hold the mutex and one wait for it in
  the pool that is being cancelled and in the other; one waiting task (`MaxPending`)
  is enough, as a task brings nothing with it.
* Messages: three lines give two workers and the command thread one each, and let a
  worker or the command thread come back with a buffer gone.
* Descriptors: three numbers hold the listener, a connection and an outgoing socket, so
  a further party has to wait and the lowest number is given away again and again;
  two connections besides the listener use up the table, by leaks, by silence, or one queued behind
  a silent one, because there is one receiving thread only: with more threads than free
  numbers the last case would not occur. The second sender keeps three threads contending
  for the mutex and `sock_fd`. The proofs are for any number of threads.
* Packets: the payload is scaled to 60 bytes, so that three members do not fit as 20 do
  not into 400. A packet may break inside the header, after it, inside an address, a name
  and the text, and at the end (`Cuts`). `Behind` and `Flips` are the values of
  foreign bytes and the amounts by which bytes are damaged: any of four adjacent bytes,
  each by an amount of its own, what CRC-32 detects for sure. The run has one amount, the
  proof all.
* Symmetry is used for safety only (the two refinements are safety properties: their
  abstract specifications state no fairness).
* Every user has a name of its own in the runs of the protocol; that lists stay unique
  whoever takes which name is proved (`ListsUnique`).

### Fairness

Weak fairness of each thread's next step: the threads are scheduled. Nothing is
assumed of the user, of spurious wakeups, of other peers, who need not connect, send or
close, or of the order in which a mutex is granted. So `Recv` of `Descriptors` is not fair,
and `Accepted` names the exception: from some time on every number belongs to the listener,
to a connection that was leaked, or to a peer that is silent (or waits for a worker while all of
them wait for silent peers). `connect` and `send` do come back, with an error if need be. `SendMsg` and `Descriptors` need weak fairness only,
because there a mutex is asked for by finitely many tasks. `PacketTransfer` states
safety only.
`EveryTaskRuns` and `DestroyReturns` need in addition that a task returns or, once
cancelled, reaches a cancellation point; it is stated as the fairness of `RunStep`. A worker
that waits for a silent peer for ever does not return: of such a pool only the second half holds, as
`recv` is a cancellation point. In `PeerProtocol` the
users and the end of a process are not fair, and a peer whose mutex is leaked counts
as settled: `ComesToRest` is about forwarding that never ends, not about that defect.

In `Lifecycle` the acquisitions of the mutex are strongly fair: a mutex that becomes
free again and again is granted to a waiting thread at some time, which POSIX threads
of equal priority get from the kernel's queue of waiters. Strong fairness of
`TaskCancelled` says that a cancelled worker does not run through its prints and sends
for ever without being stopped there.

The systems stop when the users have nothing more to say, when the pool is destroyed
when the list is deleted and when the process has ended, so the cfg files switch off the deadlock check.

## 4. Proofs

All theorems hold for every value of the constants that meets the named assumption
of the module.

* `ThreadPoolProofs` (assumption `ThreadsAssumption`). The inductive invariant
  `PoolInv` adds to the checked invariants what a client or worker has in hand between
  two stores (`ClientHolds`, `WorkerHolds`) and how far the destruction is (`Shutdown`):
  `CounterAgrees` is not inductive without it, since it says nothing of a client about
  to count. Results: `TypeCorrect`, `MutualExclusion`, `CounterCounts`,
  `NeverTakesNull`, `FreedQuiet`, `WakeupsArrive`; and `PoolImplementsQueue`, the
  refinement of `TaskQueue`: each action of the pool is one action of the queue or a
  stutter, the append being the moment at which a task is put.
* `MembersProofs` (assumption: the node's record is an entry). `MembersCorrect`: the
  abstract list keeps `Unique` and `SelfFirst`.
* `MemberListProofs` (assumption `ListAssumption`: the heap is finite and holds neither the
  null pointer nor the wild one). The invariants of the heap are about a chain of pointers, so the
  proof names that chain: `Linked(n, q, end)` says that `q` are the `n` cells, each once, that lead
  from the head to `end`, and `ChainFacts` that it then determines `Hops`, `Length`, `Chain` and `OnChain`.
  Every store is an edit of `q`: one cell more at the end, or one cell less in the middle.
  `ChainInv` has such a chain in every state after the head is filled; `OwnerInv` says that who is
  inside a call owns the mutex, `CallInv` what a call has in hand at each label (the cell that
  is about to be linked points to null and its member clashes with none in the chain), `CountInv` how far
  counter and chain are apart, `WalkInv` and `PrintInv` where the two kinds of readers
  stand in the chain. `Hops` is a recursive function; that it follows the chain is shown with
  `Induction`, which is derived from the well-foundedness of the naturals.
  Results: `TypeCorrect`, `HeapIsAccounted`, `ChainAlwaysEnds`, `CounterCountsChain`,
  `WalkStaysInStep`, `PrintIsComplete`, the refinement `HeapImplementsMembers`, and with
  it and `MembersCorrect` uniqueness on the heap (`HeapMembersUnique`).
* `PeerProtocolProofs` (assumption `PeerAssumption`). A list is unique only if what is
  inserted is: `InsertAll` checks each new entry against the old ones, not against one
  another. So `PeerInv` says that every packet on the way (`CleanInbox`) and in the
  hands of a worker (`CleanWork`) carries a list that is unique in itself, and which
  kind of packet a handler has at which label (`Stage`). Results: `TypeCorrect` and
  `ListsUnique`.
  `ListsStable`: the mutex is the only thing between a loop and a change of its list, so
  each conjunct is preserved because its owner is unique (`OwnersDiffer`); it needs nothing
  beyond itself and the types.
  `PeersMeet` is about the end of an exchange, so its invariant `MeetInv` is about the
  middle: as long as a node that has signed in at another one is not listed there, a packet
  or a worker is on its way to list it (`Learns`), and as long as it has had no answer,
  its packet or its handler is still there (`Unanswered`); the same the other way round. A
  name that is deleted meanwhile must have been signed out, so `SignOutsTrue` says that
  every SIGN_OUT on the way has the name of a node that is leaving or gone.
  `NewcomersAgree` and `LeaversForgotten` are about a whole exchange. They assume that no
  two peers choose one name (`NamesDiffer`; with two equal names one of them is refused, as
  `UniqueLists` demands), and the properties speak of commands given one after the other.
  Then a state belongs to a phase (`CalmInv`): nothing is under way but a command that has
  just been given (`Still`), the sign-in of one newcomer spreads through one group
  (`Spread`), or one member is being forgotten (`Forget`). The groups are a
  partition of the peers that the proof carries along and that changes only when a sign-in goes
  out (`Joined`); no list and no packet leaves its group. `Spread` says that whoever has
  not learnt of the newcomer will be told by the peer it signed in at (`Promised`: the packet is there, or
  its update has yet to reach that member), and that what the newcomer has not
  learnt is in the list its answer will carry. `Forget` says that who still lists the leaver
  has its SIGN_OUT or is yet to be sent one (`Told`). When all is quiet each phase
  leaves only complete lists (`QuietPhase`, `RestingLists`).
  `ExchangesEnd` assumes only that there are finitely many peers and workers: every step
  of the whole system makes `Rank` smaller, a natural number that begins with
  `Price * MaxCommands`; so no command causes more than `Price` steps, (4 workers + 8) peers
  + 2 workers + 13, whatever is lost or crashes and however the packets overtake one
  another. `Rank` adds up what may still come of the commands to be given, of each packet that
  waits (`Weight`), of each worker (`Effort`) and of each sign-in and `/quit`. What makes it
  fall is how the flag is counted (`Ahead`): a peer that holds it owes one more round of
  `send_update` for every worker that is not handling a MEMBER_LIST already, which pays for the
  packets of that round; the round ends with the flag cleared for all of them, and only
  a `/connect` sets it again. The sums are sets of tokens that are counted
  (`Total`), so that a step is a few tokens more here and fewer there (`TotalChange`,
  `TotalRaise`), also when a packet is taken from the middle of a queue (`TotalMoved`).
  That is the part of `ComesToRest` that is not fairness: nothing goes round for ever.

* `LifecycleProofs` (assumption `LifecycleAssumption`). Neither safety property is
  inductive: that a freed pool has no worker left depends on where `main` is.
  `LifecycleInv` adds what `main` knows at each label, `WayUp` (who has not been born
  yet, for the failed starts) and `WayDown` (who has been joined). Results:
  `TypeCorrect`, `PoolsSafe`, `ListSafe`.

* `SendMsgProofs` (assumption `SendMsgAssumption`). `IInv` adds who owns which line
  (`Owners`, `Buffers`: the buffer of a line in work is not gone) and where the position
  is between the two calls (`Position`). Results: `SendMsgTyped`, `RestIsOwn`,
  `CrashHasReason`.
* `DescriptorsProofs` (assumptions `DescriptorsAssumption` and `~Sctp`: over SCTP the
  theorems are false, as the run DescriptorsSctp shows). A number stays with its owner
  only because every close hits its own: `IInv` adds that senders are serialised
  (`Locking`), that a connection has one number and one task (`Single`, `Distinct`,
  `Unmade`), that the type a task has read is that of its connection (`Known`) and that an
  outgoing socket is known to its sender alone (`OwnNumber`). With
  these each action hands a number on, closes it, or makes it one of the three exceptions
  (`Leaked`, `Abandoned`), which keeps `LeaksExplained`. Results:
  `DescriptorsTyped`, `DescriptorsOwned`, `LeaksAreExplained`, `TcpSendsToAddressee`.
* `PacketProofs` (assumptions `PayloadAssumption`, `TransferAssumption`). The state
  needs a small invariant (`IInv`: the counts are ordered, only what fits is sent, what is damaged
  are some of four adjacent bytes, a report says what the comparison said); the work is in
  three groups of lemmas. About offsets and byte orders: turning a word to memory and
  back is the identity on either host, an entry does not reach into the next one. About the
  difference of two checksums: a byte is determined by its bits (`BitsDetermine`, `BitsExist`); the upper eight bits
  of a table entry determine the entry, because eight rounds can be traced back bit by
  bit, the polynomial having its highest bit set (`TableInjective`); so from equal
  checksums behind a burst of four bytes the table entries used can be traced back, eight bits
  at a time (`UpdateBack`), and from the equal checksums before it the bytes forward
  (`IndexTells`, `BurstDetected`); behind the burst different checksums stay
  different (`RunsDiffer`). About the value of the checksum: a polynomial is a finite set of exponents,
  and `Sum(p, F)` adds up the words that a table `F` gives for them. With the powers of x as
  table (`PowersOfX`: x times the one before, reduced) the sum is the remainder: a multiple
  of the generator has none (`SumOfMultiple`), so the division does not change it
  (`DividedIsRemainder`) although the division takes its powers of x by repeated squaring
  (`PowerIsPower`: in a square the products of two different terms cancel, `SumOfDoubled`).
  On the side of the program a word read backwards (`Mirror`) makes a round of
  `init_crc32_tab` the multiplication by x (`RoundIsTimes`), a byte taken by the table is eight rounds
  (`EightRounds`), and so the loop has the remainder of what it has read, times x^32,
  after every byte (`RunIsRemainder`), beginning with all bits set as the
  definition does.
  Results: `TypeCorrect`, `WholeUnderstood`, `NineteenMembers`;
  `LoopDivides`, that `crc_32` computes the CRC-32 of any bytes, and with it `ChecksumRight`;
  `BurstsAreSeen`: of the packets whose header has arrived and whose used part is wrong in at most four
  adjacent bytes, cut off there, continued from foreign memory or damaged, those
  are reported in which a byte really differs; and with it
  `DamageIsSeen`, the first half of `ReportsAreRight`, and `LengthsCover`.

Sequences are confined to a few lemmas in each proof module; the steps of the
invariants see them through `ListOK`, `First`, `Rest`, `InboxOK` and `CleanInbox`.
Where a recursive function has to be followed for every argument, the lemma `Induction`
gives the induction over the naturals in terms of a set, which the provers can instantiate (the
library's theorems on induction and on recursive functions take an operator): a function
that obeys the recursion is built first (`LoopExists`), and then the CHOOSE behind the
recursive definition is one such function.

Only model-checked:

* liveness: `EveryTaskRuns`, `DestroyReturns`, `ComesToRest` (but see `ExchangesEnd`), `QuitEnds`,
  `EveryMessageHandled`, `Accepted`. The prover has no fairness and no ENABLED.
* The second half of `ReportsAreRight`, on packets that are cut off by more than four bytes or inside
  the header: for arbitrary texts it is false, as two texts may have one checksum; it is a
  statement about the messages of the run.

## 5. Not modelled, and the plan

All modules and theorems of the plan are written. Worth adding next: the refinement of an
abstract group membership by `PeerProtocol` when commands do not overlap.

Left out, and why:

* `send_error`: it has no caller. `recv_msg` and `recv_error` only print; their lookup is
  a locked call of `MemberList`, their close is `TaskDone` of `Descriptors`.
* `get_my_ip` of `server.c`: it takes the first interface that a filter lets through, an input from
  the operating system.
* What follows a write beyond an array or a heap block: the payload with 20 members
  ("overflow"), the address of `/connect` in a buffer of the size of a pointer
  (`chat.c:76`), the copy of `recv_quit` through an unset pointer beyond "works or ends the
  process".
* A host name with several addresses in `Client_connect`.
* libcrc beyond `crc_32`: the other checksums, the test program and the examples are not
  used by the chat.
* The POSIX queue of `taskqueue.c`, which the Makefile does not compile; help text and
  colours.
