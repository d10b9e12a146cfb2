# Specifications of the UDP delay measurement system

The repository measures the delay of UDP packets between clients on several
platforms and a Windows server, and fits a hidden Markov model to the measured
delays. This directory holds TLA+ models of it, their TLC configurations and
their TLAPS proofs. Every definition is translated from the source; the table
`map` in `PROJECT.json` names the lines.

## The system

| Part | State it keeps | Operations | Talks to |
|---|---|---|---|
| Delay server, `Server/server.cpp` | two receive slots (OVERLAPPED, buffer, source address), the completion port, `sessions`, `session_mutex`, `send_queue` | `init`, `_iocp_recv_loop` (two threads), `handle_packet`, `_send_loop` (one thread) | clients, by datagrams |
| `memory_buffer`, in the same file | `buf`, `begin`, `end` | `write`, `clean`, `read` | nothing yet |
| Windows client, `Client/client.cpp` | per socket: `c_id`, `seq_num`, `send_queue`, `recv_buffer`, three threads | `run`, `_send_loop`, `_recv_loop`, `_delay_loop`, `handle_packet` | server |
| Network core, `common/include/network_core` | none | `get_binded_socks`, packet structures, logger set-up | server, client |
| macOS clients, `mac_client/*.c` | per socket: id, `seq_num`, `delay_thread` | `session_receive`, `session_delay`, the exit command | server |
| iOS client, `iOS_client/UDPClient.swift` | connection, `clientID`, `seqNum`, timer | state handler, receive, init, delay timer, disconnect | server |
| HMM, `HMM_JH/main.cpp` | `pi`, `A`, `B`, `alpha`, `beta`, `gamma`, `xi` | `forward`, `backward`, `viterbi`, `baum_welch`, the epochs of `main` | a file of delays |
| Others: Android, `win_client`, LSTM notebooks, iOS user interface, spdlog | none that matters to the protocol | input and output, training | |

The protocol. A client sends packet 0 with a name; the server makes a session,
whose index in `sessions` is the `client_id`, and answers packet 1 with it. The
client confirms with packet 2 (the session becomes `connected`) and from then on
sends packet 3 once a second; the server sends it back with time stamps, and the
client reports the delay in packet 6. Packet 4 and 5 announce the end of a
session; the server has no case for them.

What is hard in it:

* **Server.** Two threads handle datagrams at once and share the table and the
  queue; names, ids and addresses are read from a receive buffer at several
  moments; a slot has to be posted again after every datagram and is lost when
  a receive fails; `sessions[client_id]` is unchecked, with an id a client may
  have from an earlier run of the server; a receive that completes at once
  inside `init()` is posted twice.
* **Client.** Closures are queued by three threads and read the session when they
  run, not when they are queued; datagrams are lost, duplicated and reordered; a
  second packet 1 assigns to a joinable `std::thread`; a failing `recvfrom` is
  not told from a datagram.
* **Mac and iOS clients.** The end of a session under running threads.
* **HMM.** State kept between epochs, and index ranges.

What makes each part correct: ids are unique and are indices of the table; a
reply goes to the client that asked, once, and always comes; a slot has one user;
probes are numbered without gap and carry an id that was granted; reports speak of
probes that were sent; the buffer is a queue of frames; forward, backward and
Viterbi agree with the enumeration of paths; the clients and the server read the
same fields from the same bytes.

## What is modelled

### Server (`Server.tla`)

One step is one access of a thread to shared state.

| Code | Model |
|---|---|
| slot posted by `WSARecvFrom` | `ops[s]`, a count because `init()` can post one slot twice |
| completion queue of `h_iocp` | `cq`, first in first out |
| `recv_buf` and `client_addr` of a slot | `buf[s]`, a datagram with its kind, address, `client_id` and a `tag`, the number of its arrival |
| place of a thread in `_iocp_recv_loop` and `handle_packet` | `pc[t]`, with `slot[t]` (`p_recv_io_data`) and `id[t]` (the local `client_id`) |
| `session_mutex`, `sessions`, `send_queue` | `mutex`, `sessions`, `sendq` |
| the rest of `init()` and `run()` | `started`: thread `i` runs once slot `i` is posted, the send loop once all are |

`InitPending` and `InitImmediate` are the two outcomes of the loop in `init()`;
`Take` and `TakeFailed` are `GetQueuedCompletionStatus`; `Dispatch` is the
`switch`; `Lock`, `PushSession` and `PushWelcome` are case 0; `Ack` is case 2;
`PushEcho` is case 3; `Rearm` and `RearmFails` are the `WSARecvFrom` at the end of
the loop; `SendOne` is one turn of `_send_loop`. `Deliver` and `FailReceive` are
the kernel. `Restart` starts a new process under the old clients, whether the old
one died or was stopped. An index beyond `sessions` is undefined behaviour in the
code: in `Index` the process dies or goes on, and `wild` remembers it.

Datagrams are abstracted to what `handle_packet` tells apart. Packet 6, packets of
unknown type and packet 0 of a wrong length are one kind, `"other"`, because the
server only logs them. Clients are modelled as far as they can be seen: an address
sends packet 2 and 3 only with an id it has been sent. A session is named after
the address its packet 0 came from. The reply port is always 12346 in the code, so
an address is a host.

`up`, `sent`, `granted`, `wild` and the counters are history the code does not
keep. `early = 0` in a property says that no receive has completed inside
`init()`; `restarts = 0` that the server still runs for the first time.

### Responder (`Responder.tla`) and the refinement (`ServerRefinement.tla`)

`Responder` is what a client may rely on: a request is open until answered, it is
answered at most once and to its sender, the id in a packet 1 is new in this run of
the process, requests are lost only with the process. `ServerRefinement` maps the
completion queue, the datagrams in the hands of threads and `send_queue` to the
open requests, and checks that every step of `Server` is a step of `Responder` or
a stutter. It holds when no receive completes inside `init()`: otherwise one buffer
receives two datagrams and the first is lost.

### Client (`Client.tla`)

One session of the Windows client; sessions share nothing, except that
`std::terminate` ends them all. `SendOne` is one turn of `_send_loop`, with the
packet function, `sendto` and the callback: what these touch besides the queue and
`c_id` belongs to the send thread. `Receive`, `ReceiveEmpty` and `ReceiveFails` are
the outcomes of `recvfrom`; `HandleWelcome`, `PushAck` and `Spawn` are case 1 of
`handle_packet`, three accesses to what the threads share; `HandleEcho` is case 3,
`HandleNothing` the early return and the default. `Tick` is a turn of `_delay_loop`.
`TooShort` compares as the code does: an int converted to an unsigned size.
`recv_buffer` is not initialised in the code; it starts as any member of `Junk`.
Whatever the server could have answered may arrive any number of times, which
covers loss, duplication and reordering. Packets of a wrong length are not
modelled (the server sends none), nor is the value of the delay.

### memory_buffer (`MemoryBuffer.tla`)

`Write` (with `Clean` inside it, as in the code) and `Read`, with the arithmetic
of the unsigned `begin` and `end` modulo `Width`. A byte is the frame it belongs to
and its place in it; a size read from a byte that does not start a frame is any
size. The caller writes what fits and reads what is there. Nothing uses the
structure at this commit.

### System (`System.tla`)

`Client` and `Server` alone are checked against whatever the other side could have
sent (`Receivable`, `Incoming`). `System` instantiates both and joins them: what the
client hands to `sendto` is a datagram under way to the server, a reply to its
address one under way to it. The network loses (`Lose`), delivers twice
(`Duplicate`) and, since datagrams under way are sets, reorders. Other addresses
still send what `Incoming` allows (`ServerReceivesOther`). That each program is
only given what its own module assumes is then a property of the composition:
`ClientKeepsToProtocol` is `Server`'s specification, and `ServerKeepsToProtocol`
`Client`'s, for steps up to which no receive has completed inside `init()`. After one,
two threads may have two clients' datagrams in one buffer, and a session may be sent
the echo of another one's probe: without its guard the run refutes the property.

### macOS client (`MacClient.tla`)

`main.c` and its IPv6 variant `main_thread.c`: all sessions, with the receive and
delay thread of each, and the main thread with the exit command. The two files
differ in one transition, which the constant `RetriesSpawn` selects: after a
refusing packet 1, `main_thread.c` still comes to the test that starts the delay
thread. With `TRUE` the behaviours are a superset, so the run speaks of both.
`Close`, `Free` and `Return` are the exit command; threads that still run then use
the freed array (`UseFreed`), which is undefined behaviour: any value may stand
where the socket was, and the process may die.

### iOS client (`IosClient.tla`)

The main queue is sequential and the timer handlers run on the global queue:
a block of the main queue is one or several steps (`HandleWelcome`, `SendAck`,
`StartTimer`, `KeepTimer`), a handler four (`Tick`, `SendProbe`, `LoadSeq`,
`StoreSeq`), since `seqNum += 1` is a read and a write that nothing protects.

### Packet layouts (`WireFormat.tla`)

Every byte is the field it belongs to and its place in it. C structures are laid
out with natural alignment (`Struct`); the iOS client appends fields (`Appended`)
and reads at fixed offsets (`IosOffset`). The server reads its structures from a
buffer that keeps what earlier datagrams left beyond `recv_len`. `BufferSize` is the
code's 1024 or fewer, down to the 48 bytes of the longest structure. `WindowsNames` are
the lengths of `JH_computer_<idx>` for the indices in use, 13 and up; macOS sends ten
bytes, iOS any name. The server takes the length of a name from the buffer
(`NameLenRead`) and compares it with that of the datagram (`Accepts`).

### Hidden Markov model (`Hmm.tla`, `Training.tla`, `HmmMain.tla`)

`Hmm` has one action per member function `main` calls, in the order it calls them:
`update_observations`, `forward`, `backward`, `init_gamma`, `init_xi`, `baum_welch`,
`viterbi`. Numbers (`Number`) are exact fractions in lowest terms, so that equal
numbers are the same value; `NaN` is what a division by zero gives, and all that is
computed from it. What the code reads uninitialised
is any member of `Junk`, each time anew: `beta` before the first epoch, the last `xi`, and
for each state and symbol the empty optional of a symbol that was not observed. `stale`
is history: what `beta` held when `backward` was last called, which the code adds to.

`Weight` and `SumOver` define the same quantities by enumeration of paths. What an epoch
computes over an uncleared `beta` is defined with `Walks`: paths that may stop at any time
`t` before the last, with `stale[t]` for the rest of the observations (`Value`). Over a
`beta` of zeros only whole paths count, and gamma and xi are the posterior probabilities.
`ViterbiFindsBestPaths` speaks of `delta` and `psi` at all `T` times and of `path` as far as
its array goes, which is `N` elements; `main` has `N = 5` and `T = 10`. What is read back
from beyond the array is any state (`PathsBack`). It speaks of
parameters that are `Defined`: the new row of a state that no path visits is 0/0, and with
`NaN` no comparison succeeds.

`Training` is the loop of `main` over the lines of the file: which line becomes which
observation, and when it stops. `EpochSize` is `T` in the code, `lines` its
`observations`. `HmmMain` is `main` itself: the loop of `Training` around the functions
of `Hmm`. An epoch begins with the lines (`Read`), whose numbers modulo 10 are any
symbols and whose padding is 0 (`Observe`), runs through the functions (`Epoch`), and the
last one is followed by `viterbi` (`Decode`).

### Socket set-up (`BindSocks.tla`, `ServerSocket.tla`)

`BindSocks` is the loops of `get_binded_socks` over adapters and addresses, with every
call of the system failing or not. `ServerSocket` is what `init()` of the server does with
the result: it takes the first socket (`TakeSocket`) and receives on it into the buffer of
`WireFormat`; the others stay open, and nobody reads them. The server asks for up to ten
sockets; for any other `max_count` (the Windows client has the default, which is no limit)
the model ends with the result.

## Runs

| Run | Bounds | What it shows |
|---|---|---|
| `server` | 2 threads and slots, 2 addresses, 3 datagrams, 1 of them inside `init()`, 2 failures, 1 restart | ids unique and equal to indices, slots with one user, replies once and to the client that asked, the table indexed inside its bounds, deaf only after as many failures as slots |
| `server_refinement` | 2 datagrams, 2 failures, 1 restart | `Server` implements `Responder`; every request is answered |
| `client` | 3 probes, 4 datagrams, 1 failure of each call, 3 initial buffers | numbering, ids and order of packets, what reports speak of, what ends the process, that an echo is reported |
| `client_invalid` | 2 probes, 3 datagrams | *violated*: a failed `recvfrom` is handled as a datagram |
| `buffer` | 8 bytes, 5 frames of 2 to 5 bytes | a queue of frames until the first `clean()` |
| `system` | 1 receive thread, 1 probe, 5 datagrams to the server, up to two of them of another client, 3 from it, 1 fault | ids do not cross, each program keeps to what the other expects, one report per probe |
| `system_smooth` | 1 receive thread, 2 probes, 2 datagrams of another client, no fault | every probe is reported when nothing fails |
| `mac_client` | 2 sessions, 2 probes, 3 datagrams, 1 failure | order of packets, nothing sent after `free`, a connected session measures |
| `ios_client` | 2 ids, 3 handler runs, 3 datagrams | order of packets, one timer at a time, an accepted init response leads to a probe |
| `server_socket` | up to 2 adapters of 2 addresses, `max_count` 0, 1, 2 and 10; names of 13 and 14 bytes (Windows), 10 (macOS) and 1 to 20 (iOS), 48 bytes of buffer | no socket leaks, the limit holds, no usable address is missed; the fields read are the fields sent |
| `hmm_main` | files of up to 5 lines, 2 states, 2 symbols, epochs of 3 observations; memory zeroed | observations are the lines in order, padding only at the end, training ends; each epoch against sums over paths and walks; Viterbi against all paths |
| `hmm_gamma` | the same | *violated*: gamma sums to 1 |

Why the bounds are enough. Two threads and two slots are what the server has
(`RECV_THREAD_COUNT`). With two clients and three datagrams both threads can be in
case 0 at once, a client can register, confirm and probe, and a datagram can meet
every state of another one; an id of before the restart is used after it. Two
failures are as many as there are slots. With three probes queued the send thread of
the client is behind the delay thread, and four datagrams contain a duplicated packet
1 and a duplicated or late packet 3. The `system` run has one receive thread because
races between two are the subject of `server`, and one fault of any kind at a time,
because one suffices to break each of its properties; five datagrams are packet 0, 2,
3 and two of another client, packet 0 and a probe, so that a reported probe is reached and
the two clients' requests meet in one buffer. `system_smooth` has room for every datagram
of the session, so that a report fails to come only if the programs do not make it. `MacClient` needs two sessions for the
socket of one to be open while the thread of another uses freed memory, and
three datagrams for a second packet 1 around an echo. Three timers
are one that is replaced while its handler runs, its successor, and one more. With two
states and three observations `path` is longer than its array, as in the program, and a
path can leave a state and return; files of three lines and more make a second epoch, over
the `beta` of the first. The fractions have to fit the 32 bits of TLC's integers: models
of one epoch start with every mix of even and certain rows, those of two with even moves
and certain symbols (`MCInit`), after which the rows are those the first epoch made. The
theorems have no such limit, neither of the model nor of the memory; what the run never
reaches, a `path` with an element for every time, they cover. Ten sockets are more than the
machines of `server_socket` have addresses, so that the limit is met at 0, 1 and 2. Eight bytes and five frames reach every
relation of `begin`, `end` and the size moved by `clean()`. Symmetry over addresses is
used where only safety is checked. Behaviours may stop because datagrams are
bounded, the process has died or a function has returned, hence
`CHECK_DEADLOCK FALSE`.

Fairness. `FairSpec` of `Server` assumes of the operating system that it goes on
scheduling the main thread (which runs `init()` and then waits for the send loop),
the send thread and each receive thread: none of them waits for anything but the
completion port and `session_mutex`. Weak fairness of a thread is enough for
`session_mutex` because datagrams are finite in a run, so that nobody can be
overtaken for ever. `FairSpec` of `Client` assumes the same of the send and the
receive thread. `FairSpec` of `System` adds the delay thread, which sleeps for a
second and goes on, and that a datagram that is not lost arrives. `FairSpec` of
`IosClient` assumes that the main queue ends a block it has begun and that a resumed
timer fires; `Fairness` of `HmmMain` that a sequential program goes on: it reads, it
observes, and the functions of the model return (`Returns`; this is stated of `at` alone,
so that TLC need not compute an epoch to know that it is enabled). Nothing is
assumed of failures, losses or restarts.

Every property of a passing run has a mutant: an operator before the definition it
replaces, commented as such, that changes the definition as a plausible slip would
(no mutex, a slot posted too early, a callback on every packet). It makes the run
fail.

### Findings

* `client.cpp:207`: the length check compares an `int32` with a `size_t`, so `-1`
  passes; the old buffer is handled again, which for a packet 1 ends the process
  (run `client_invalid`).
* `HMM_JH/main.cpp:263`, "sum of gamma[t] == 1": `beta` is added to and never cleared
  (line 237), so that from the second epoch on gamma sums to more than 1 (run
  `hmm_gamma`).

Further consequences of the code which the models make visible. No run is made of these;
where a comment says otherwise, it is quoted.

* HMM: baum_welch() divides the sum of `T` xi, of which `T - 1` are written, by the sum of
  `T` gamma (`main.cpp:351`), so that the rows of the new `A` do not sum to 1, though
  `main.cpp:88` calls it a "transition probability distribution". The array of "the
  optimal state array" (`main.cpp:127`, in Korean) has a place for each state and is
  indexed by time; half of `main`'s path is written beyond it and read back from there, so
  that what it holds need not be part of a most likely path.
* iOS client: a name shorter than ten bytes is padded to the "10 byte fixed field" of
  `UDPClient.swift:35` (in Korean) without its length being changed, and the server refuses
  such a packet 0 (`server.cpp:401`): `ServerReadsWhatWasSent` claims acceptance of the Windows and
  macOS clients' only. Packet 3, "common to sending and receiving" (`UDPClient.swift:61`, in
  Korean), is written without the padding before its 64-bit fields (`timeClientSend` at
  offset 12) and read with it (offset 16), by the server and by the client itself; the delay
  of packet 6 is computed from other bytes than the sending time, which
  `ClientsReadAnswers` therefore leaves out for iOS.
* Server: a slot is lost with every failed receive; after a restart an old id
  is out of range or names another client's session; `init()` posts a slot twice
  when a receive completes at once. `handle_packet` has no case for packet 4, so that a session that
  a client has left stays connected.
* `memory_buffer`, which nothing uses: `clean()` subtracts the number of bytes moved
  instead of the distance. `FramesInOrderUntilClean` holds up to then; after it frames
  are lost and the assertions of `write` and `read` can fail.
* Windows client: packet 0 is never sent again; the delay subtracts
  `time_server_send` from itself, so the time in the server is part of it.
* iOS client: with two init responses numbers may repeat.
* HMM: a file whose length is a multiple of the epoch gets an epoch of nothing but
  padding; a delay beyond an `int` ends training.

## Proofs

Eight modules hold the proofs: `ServerProofs`, `ClientProofs`, `SystemProofs`,
`MacClientProofs`, `IosClientProofs`, `MemoryBufferProofs`, `CommonProofs` (`WireFormat`,
`BindSocks` and `ServerSocket`) and `HmmProofs` (`Hmm`, `Training` and `HmmMain`). All theorems hold for every value
of the constants, from the named assumptions of the modules alone unless said otherwise.
Every safety property of the passing runs is a theorem.

**Server**: any number of threads, clients, datagrams, failures and restarts, from
`ServerAssumption`. `ServerProofs`:

| Theorem | Inductive invariant |
|---|---|
| `TypeCorrect` | `TypeOK` |
| `IdsMatchTable`: `IdMatchesIndex` | `TableInv`: the thread in `push` holds the mutex and its `id` is still the size of the table; after the unlock `id` is an index. The property alone is not inductive, since nothing else ties a thread's local to the table. |
| `IdsAreUnique`: `UniqueIds` | `AnnounceInv`: the ids threads are about to announce differ from one another and from all announced ones, and all are below the size of the table. Uses `TableInv`. |
| `SlotsAreExclusive`: `ExclusiveSlot` | `SlotInv`: also that slots `init()` has not posted have no user. |
| `WelcomesGoToOwners`: `WelcomeToOwner` | `OwnerInv`: a thread in case 0 still has the packet 0 in its buffer, and the session it announces was made from it. Uses `TableInv` for the index and `SlotInv` for the buffer. |
| `TameUntilRestart`: `WildOnlyAfterRestart`; `ConnectedAfterGrant`: `ConnectedWasGranted` | `GrantInv`: until a restart every id in a buffer, in an echo of the queue and in a connected session was granted to the address it comes from, and every granted id is the index of a session of that address. |
| `AnswersOnce`: `AnsweredOnce` | `TagInv`: no two datagrams that wait for an answer, in slots or queue, have the same tag, and none has the tag of an answer that was sent. |
| `DeafAfterFailures`: `DeafOnlyAfterFailures` | `LostInv`: there are at most as many lost slots as failures, where a slot is lost if `init()` has come to it, nothing is posted on it, no completion of it is queued and no thread holds it. A deaf server has lost them all (`Kept`: only a failure loses a slot, and one slot at a time). It holds with receives that complete inside `init()`, which give a slot several users. |
| `Implements`: `ImplementsResponder` | all of the above, see below |

Each proof has one step per action; `HeldStays` (the datagram a thread works on
stays in its buffer), `OwnerStays` (a session keeps its owner) and `QuietSteps` (only an
arrival adds work) are the lemmas most of them rest on.

`Implements`: **`Server` implements `Responder`** (`Spec => R!Spec`), if no receive
completes inside `init()` (`MaxEarly = 0`; with one the implication is false, since a
buffer receives two datagrams). The requests open in the abstract state are those in
slots still unanswered and those in `send_queue` (`OpenRequestsAre`). An arrival opens
a request with a new tag (`ArrivalRefines`, by `TagInv`), pushing a reply moves it from
slot to queue (`PushRefines`, by `KindInv`: a thread is in the case of the datagram in
its buffer), the send loop answers it (`SendRefines`: the id is new by `AnnounceInv`,
within the abstract ids by `CountInv`: there are never more sessions than datagrams), a
restart is `Crash`, and every other step leaves the open requests alone
(`OpenSlotsStay`). `SenderInv` gives the address of each request its type.

**Client**: any set of ids, any number of probes, datagrams and failures, and any
contents of the uninitialized buffer, from `ClientAssumption`. `ClientProofs` proves
every safety property of `Client`:

| Theorem | Inductive invariant |
|---|---|
| `TypeCorrect` | `TypeOK` |
| `ProbesNumbered`: `SeqNumbersConsecutive` | `SeqInv`: `seq_num` is above the number of every probe sent, and one above that of some probe. Without it nothing ties the next number to the history. |
| `ProbesGranted`: `ProbesCarryGrantedId` | `GrantInv`: as long as `c_id` is -1 there is no delay thread, none is about to start, and no probe is queued. |
| `AcknowledgesFirst`: `AckBeforeProbe` | `AckInv`: a probe in the queue has a packet 2 ahead of it, or one was sent; a delay thread, running or about to start, implies a packet 2 queued or sent. |
| `ReportsHaveProbes`: `ReportsMatchProbe` | `ReportInv`: while `recvfrom` has not failed, the number in a buffer to be handled and in a packet 6 of the queue is that of a probe sent. |
| `DiesOfWelcomes`: `DiesOnlyOfSecondWelcome` | `DeathInv`: a packet 1 is counted before its delay thread runs, a datagram before it is handled; a second start implies a second packet 1. |

`SendOneEffect` (what popping a job does to the queue and to the history) and
`PushEffect` carry these proofs.

**Composition**: any network, any number of other clients, probes, datagrams, failures
and restarts, from `SystemAssumption` and `JunkAssumption`. `SystemProofs` takes the
invariants of `Server` from `ServerProofs`, through the instance `P` (`SameStep`: a step
of `System`'s own instance of `Server` is one of `P`); `ClientKeeps` is what makes them
hold of the composition. Its theorems assume `NoJunkWelcome`: the
memory `recv_buffer` has before the first datagram does not read as a packet 1. With such
memory and a failing `recvfrom` the client would take up an id nobody granted.

| Theorem | Inductive invariant |
|---|---|
| `ClientKeeps`: `ClientKeepsToProtocol` | `OriginInv`: a datagram of the session in a buffer of the server is one that it sent. `GrantedInv`: every id the session holds, or that is in its queue, its history, its buffer or a packet 1 under way, was granted to it. |
| `IdBelongs`: `IdIsMine` | also `AckedInv`: until a restart a session in the table that was made of this client's packet 0 is connected only if the client sent a packet 2 with its id; with `GrantInv` of the server. |
| `ServerKeeps`: `ServerKeepsToProtocol` | `AnswerInv`: what is queued for the session, or under way to it, answers a packet that it sent. The guard `early = 0` is in the property: a receive completed inside `init()` lets a thread read a second datagram in the place of the one it began to handle. |
| `HandledOnce`: `OnceUnlessDuplicated` | `OneEach`, as long as nothing was duplicated, no `recvfrom` failed and no receive completed inside `init()`: packet 0 and every probe number is in one place only, which is the queue or the network on the way to the server, a slot or the send queue of the server, the network on the way back, the hands of the receive thread, or a report (for packet 0, a packet 1 handled). Every step keeps the places, moves one to another or adds a new probe (`Keeps`, `Moves`, `Adds`). `DeathInv`: the process dies of a second packet 1. |

**macOS client**: any number of sessions, probes, datagrams and failing calls, any
set of ids and both variants of the program, from `MacAssumption`. `MacClientProofs`:

| Theorem | Inductive invariant |
|---|---|
| `TypeCorrect` | `TypeOK` |
| `PacketsAreInOrder`: `PacketsInOrder` | `BuiltInv`: at most one delay thread for each session, with at most one probe built and not sent, numbered just below `seq_num`. `SeqInv`: the next probe to be sent has the number after the last one sent. `AckInv`: a delay thread, or the step that starts one, implies a packet 2 sent. `ReportInv`: an echo being handled has the number of a probe sent. |
| `SilentFromFreed`: `SilentOnceFreed` | `OpenInv`: while `main` closes sockets, those before `next` are closed; once it frees the array all are. |
| `Measures`: `ConnectedMeasures` | `StartInv`: sessions `main` has not come to are off and unconnected. `MeasureInv`: a connected session that is not in the middle of its packet 1 has a delay thread, if no call failed. |

**iOS client**: any number of timers, datagrams and failures, and any set of ids, from
`IosAssumption`. `IosClientProofs`:

| Theorem | Inductive invariant |
|---|---|
| `TypeCorrect`: `TypeOK` | with `WelcomeInv`: init responses handled are counted among the datagrams received, so that there is a timer for each. |
| `TimersDoNotAddUp`: `OneTimer` | `TimerInv`: between `StartTimer` and `KeepTimer` the timer being replaced and its successor may both fire, elsewhere `self.timer` only; a cancelled connection has none and handles nothing. |
| `PacketsAreInOrder`: `PacketsInOrder` | `AckInv`: a timer fires only after an acknowledgement, and a handler is about to send a granted id that was acknowledged. `ReportInv`: an echo being handled has the number of a probe sent. `SeqInv`: with one init response `seqNum` is the number of probes sent, except that the handler may not have counted its own. |

**memory_buffer**: any size of the buffer, the counters and the frames, from
`MemoryBufferAssumption`. `MemoryBufferProofs`: `FramesInOrder`
(`FramesInOrderUntilClean`) from `OrderInv`: until `clean()` is called there is a layout of
the unread frames (`Layout`): each starts where the one before it ends, the first at
`begin`, and `end` is behind the last one, so that `read` finds the size of a whole
frame and empties the buffer only after the last.

**Packet layouts**: any size of the buffer, any index of a Windows session and any lengths
of iOS names that fit the buffer, from `WireAssumption`. `CommonProofs`:

| Theorem | What it rests on |
|---|---|
| `BufferReadsWhatWasSent`: `ServerReadsWhatWasSent` | `Received`: the front of the buffer is the last datagram as its sender encoded it, and what lies behind is stale. A field of the datagram is then read where the reader's structure has it, if sender and reader agree on the offset. |
| `AnswersAreRead`: `ClientsReadAnswers` | the same, and `EchoCarries`: the bytes of a packet 3 that the server copies, and those it fills in. |

The offsets of the members are a recursive function, which `OffsetsAre` solves. From it
follow, for any list of members, that no two overlap (`InOrder`) and that the bytes laid out
at an offset are those of its member (`LayHolds`, `StructHolds`, `AppendedHolds`). The
offsets of each packet are then computed.

**Hidden Markov model**: any numbers of states, symbols and observations, any
distributions and any uninitialised memory, from `HmmAssumption`. `HmmProofs`:

| Theorem | What it rests on |
|---|---|
| `EpochIsExact`: `EpochComputesSums` | `EpochInv`: the parameters and tables are numbers, and each table written in this epoch is what its function writes from the parameters and the tables before it (`AlphaInv`, `BetaInv`, `GammaInv`, `XiInv`); `BetaInv` speaks of what `beta` held before, `stale`. No assumption is made of the epoch or of the memory. |
| `ViterbiIsOptimal`: `ViterbiFindsBestPaths` | a step lemma: of the state `viterbi()` starts from, only that its numbers are numbers. |

The argument for `EpochIsExact`: fractions form a commutative semiring with `++` and `**`
(`PlusAssociates`, `TimesAssociates`, `Distributes`, `Closed`), which needs that Euclid's
recursion has a solution (`GcdExists`) and divides both numbers. A sum over a finite set may
take its elements in any order (`OverRemove`), part by part (`OverParts`) and with a factor
taken out (`OverTimes`). The recursive functions of the model are solved first (`Recursion`).
Then `alpha` is the sum over the paths that end in a state (`ForwardSums`, by induction over
time: a path is a shorter path and a last move), `Weight(p, t) ** beta[t]` over the walks that
begin with the path `p` (`BackwardSums`, by induction from the last time: such a walk stops
at `t`, with `stale`, or makes a move), and gamma and xi over the walks through a state (`ThroughSum`)
and a move (`MovingSum`).

The argument for `ViterbiIsOptimal`: `Less` is a strict order (`Ordered`) and products are
monotone in it (`TimesMonotone`), so that no path to a state is worth more than its entry of
`delta` (`TableBounds`), and one traced through `psi` is worth just that (`TracedWeighs`: if
the entry is 0, so is every path to it, by `NotPositive`). Traced back from the best entry,
which `max_element` finds (`MaxElementIs`), it is a most likely path (`TracedIsBest`). With an
element for every time that is `path`; without, `path` is traced from whatever state was
read back for its last element.

Induction over naturals and over finite sets is stated of sets (`SetInduction`,
`RemovalInduction`, `AdditionInduction`: a set with 0, or the empty set, that is closed under
a step has every element), since a lemma with an operator as parameter cannot be applied.

**Training**: any file and any epoch length, from `TrainingAssumption`.
`HmmProofs`: `TrainingTyped`; `LinesAreInOrder` from `LineInv` (one line has been taken
for every observation as long as lines are left), `PaddingEndsTraining` from `PadInv` (no
epoch before the one being read is padded) and `CountsEpochs` (a file of numbers is
trained in one epoch more than it fills) from `CountInv`. **main()**: a step of `HmmMain`
is one of `Hmm` or leaves its variables alone, and the same of `Training` (`MainIsBoth`), so
that `MainKeeps` has all of these of the composition that the run `hmm_main` checks.

**Socket set-up**: any list of adapters and any `max_count`, from `BindAssumption`.
`CommonProofs`: `SocketsTyped`; `NothingLeaks` from `SocketInv` (the open sockets are those of the
result and the one being bound), `CountIsRespected` from `CountInv`, and `ResultDistinct`
(no address is bound twice) from `PlaceInv` (what is in the result was passed by the
loops). `NoneMissed` (`NothingMissed`) from `ScanInv`: of the eligible addresses the loops
have been past, each is bound or some call failed for it. `StartKeeps` has them of
`ServerSocket`, up to the step in which the server takes its socket and after it, together
with the two theorems about layouts, since every step of it is one of `WireFormat` or leaves
the buffer alone (`StartReceives`).

Only model-checked:

* All liveness (`AnswersEverything`, `EchoIsReported`, `ReportsWhenSmooth`,
  `WelcomeLeadsToProbe`, `EndsForAReason`), out of the prover's reach together with
  `ENABLED`.
* The properties of the two runs that are expected to fail (`InvalidPacketIsDropped`,
  `GammaSumsToOne`).

## Not modelled

* Vendored and generated files. Almost all lines of the repository are spdlog with its
  bundled fmt and the compiler-identification files of two CMake build trees; the
  code of the project itself is some three thousand lines. Of it the map covers the
  server, the clients that speak the protocol and the HMM.
* Time. Stamps and the delay in packet 6 are not modelled: the code subtracts
  them and acts on none.
* Floating point. `Hmm` computes in exact fractions; the run takes distributions small
  enough to enumerate, the theorems any. Rounding is not modelled, so the theorems say
  nothing of its size. `gen_random_observations` is left out: its values are
  overwritten before they are read.
* Start-up of server and clients before the first receive: a failing call ends the
  process. `deinit()` of the server, which `run()` never returns to reach.
* `mac_client.c` (an earlier single-threaded client), the Android client, `win_client`,
  the iOS user interface and data collector, the LSTM notebooks and the logger: they have
  input and output, but no state another part depends on.
* `get_binded_socks` of the macOS client, of which the repository has only the
  declaration.

## Plan

Everything first planned is written, except two parts. An abstract `Survey` above `System`
would have restated `OnceUnlessDuplicated` and `ReportsWhenSmooth`; they are checked
directly. A composition with clocks was dropped, since no behaviour depends on them. What
remains worth doing:

1. The macOS and iOS clients composed with the server, as `System` does for the
   Windows client.
2. More about the composition: that a report follows the echo it is made of, and that
   sessions of two clients never share an id, as theorems of `System`.
