# A TLA+ model of eQUIC

eQUIC limits the simultaneous QUIC connections of a client. An eBPF program on
the XDP hook of the network interface drops what a client over its quota sends,
before it reaches the socket; the server counts connections up and down in a
map that the program reads. This directory models the two servers of the
repository, the counter library, the hook and the way the hook gets on and off
the interface; TLC checks the models on small instances and TLAPS proves what
matters most for all of them.

Everything here is read from the code in `src/`. What lies outside (lsquic and
its `prog.c`, the kernel, the clients) is modelled from how that code uses it,
and marked `external` in `PROJECT.json`.

## 1. The system

| component | code | state it keeps | operations |
|---|---|---|---|
| XDP hook and map | `src/equic_kern.c` | map `counters`: address to int, 1024 entries | `udp_quota`, for every frame |
| counter library | `src/equic_user.c` 78-156 | none of its own (the map) | `equic_inc_counter`, `equic_dec_counter` |
| XDP lifecycle | `src/equic_user.c` 20-75, 159-235, both `main`s, `src/equic.c`, `Makefile` 208-216 | `EQUIC_IFINDEX`, `EQUIC_PROG_ID`, `prog_fd`; the interface's program | read object, load, `equic_sigint_callback`, `equic_sigterm_callback`, `make load`, `make unload` |
| echo server, connections | `echo_server.c` 50-146, 262-317 | `conn_ctxs`, `n_conn` | `on_new_conn`, `on_conn_closed`, end of `main` |
| echo server, streams | `echo_server.c` 149-245 | `buf`, `buf_off`, what the stream wants | `on_new_stream`, `on_read`, `on_write`, `on_close` |
| HTTP server, connections | `http_server.c` 327-352, 430-643 | `n_current_conns`, `n_conn`, `max_conn`, `Quotas`, `stopped` | `on_new_conn`, `on_conn_closed`, the quota functions |
| HTTP server, request counter | `http_server.c` 405-428 | `requests_per_second` under `lock` | `inc_request_counter`, `request_counter` (a thread) |
| HTTP server, file streams | `http_server.c` 717-1122, 1253-1324 | `flags`, `written`, the reader or `file_fd`, `resume_resp`; `RECEIVED_GOAWAY` of the connection | `on_new_stream`, `on_read` of requests and of pushed streams, `process_request`, `on_write`, `resume_response`, `on_close`, `on_goaway` |
| HTTP server, hq mode | `http_server.c` 1339-1441 | like the file streams | `hq_server_on_read`, `hq_server_on_write` |
| HTTP server, interop mode | `http_server.c` 1125-1250, 1471-2189 | a union of handlers' contexts, header sets, paths still to be promised | header-set callbacks, `http_server_interop_on_read`, `http_server_interop_on_write`, pushes |
| experiments, tracing, build, certificates | `experiments/`, `bpftrace/`, `docker/`, `CMakeLists.txt`, `ssl/` | none at run time | - |

How they interact:

- The hook and the server share the map and nothing else. The hook reads it
  per frame; the server writes it per connection, after the handshake and at
  the close. What has passed the hook waits in the socket in between.
- lsquic runs all callbacks on one thread. It chooses when: it handles the
  packets of a batch connection by connection, times out silent peers, and
  closes what is left when `prog_cleanup` destroys the engine.
- The HTTP server has a second thread, which shares `requests_per_second` and
  holds its lock from the print to the reset, and timers of the event loop,
  which hold pointers to stream contexts.
- The streams of the HTTP server share the process (many errors end it), the
  table of descriptors, and, if one was pushed by another, the connection.
- Signal handlers run between any two instructions, on either thread.
- Several servers, and whoever uses `make load`, share the interface. It holds
  one program; attaching refuses to replace (`XDP_FLAGS_UPDATE_IF_NOEXIST`),
  detaching names no program.

What is hard: the quota is decided at one place and counted at another, later;
the address of a connection may change; the map may be full and updates may
fail; a blocked client cannot even say goodbye; refused connections go through
half of the accounting; the query and the detach of the signal handler are two
steps; a delayed response is in the hands of a timer; lsquic's results on
errors are ignored or mixed with byte counts. `hazards` in `PROJECT.json` lists
these with the line where each bites and the properties aimed at it.

## 2. The modules

| module | models | composed of |
|---|---|---|
| `EquicCounters` | the map, the library, the hook as a function | - |
| `QuotaOffload` | hook, queue, engine, the echo server's connection callbacks, the end of the process | `EquicCounters` |
| `QuotaSpec` | what the offloaded quota promises | refined by `QuotaOffload` |
| `HttpServer` | the HTTP server's connections, quotas, counters, counter thread and stop conditions | `EquicCounters` |
| `XdpLifecycle` | servers, their signal handlers and an administrator on one interface | - |
| `InterfaceSpec` | what a server may expect of the interface: a lock | refined by `XdpLifecycle` |
| `EchoStream` | the streams of one connection of the echo server | - |
| `EchoSpec` | what an echo is | refined by `EchoStream` |
| `StreamContext` | what the three modes of the HTTP server share: context, opening and closing of streams, descriptors, pushes | - |
| `FileMode` | streams with `-r`, and `-w`, `-y`, `-P`, `-p` | `StreamContext` |
| `HqMode` | streams with `-r` and `-Q` | `StreamContext` |
| `InteropMode` | streams without `-r`: header sets, handlers, bodies, generated files, pushes | `StreamContext` |
| `HttpStream` | the streams of the HTTP server, in any mode | `FileMode`, `HqMode`, `InteropMode` |
| `ResponseSpec` | what a response promises, whatever the mode | refined by `HttpStream` |
| `MC...` | model values and symmetry for TLC | the module named |
| `EquicCountersProofs`, `QuotaOffloadProofs`, `HttpServerProofs`, `XdpLifecycleProofs`, `EchoStreamProofs`, `HttpStreamProofs` | theorems | the module named |

A definition named `f_word` next to `f` (`Blocked_late`, `SetLink_force`) is a
mutant: what `f` would be with the bug its comment names. No specification uses
it. Putting it in the place of `f` makes TLC report the property it is paired
with in `PROJECT.json`, which shows that the property depends on that code.

### Correspondence

**EquicCounters.** A map is a function from the addresses that have an entry.
The update operators return a set of maps, because the callers print a failure
of `bpf_map_update_elem` and go on: `Insert` fails when the map is full
(`MAX_ENTRIES`), `Replace` only with `UpdateMayFail`. Lookup and update are two
system calls, but only one process and one thread of it writes, so an operation
is one step. `udp_quota` keeps the order of the hook's tests: bounds of the IP
header, protocol, bounds of the UDP header, lookup, limit.

**QuotaOffload.** `XdpReceive` is the hook plus the socket: a datagram it passes
goes to `rxq`, one it drops leaves no trace. `rxq` is a set: the engine handles
datagrams in any order, and a duplicate of one that waits is no new state.
`Handle` is the engine taking one of them; `StartsHandshake`, `EndsHandshake`,
`Closes` and `Moves` say what a packet means to a connection in a given stage,
`Discard` is everything else. `echo_server_on_new_conn` and
`echo_server_on_conn_closed` are the callbacks, whole: the peer's address is
asked for at each of them, which is what migration breaks. `n_conn` reaching
zero calls `prog_stop`; what the socket still holds is lost, and the remaining
connections are closed by `Cleanup`, which runs the callback again. `Exit`
leaves hook and map in place, `Interrupt` (the signal handlers) takes the hook
off and with it the map, `Crash` leaves both. The fault that
`echo_server_on_conn_closed` risks by reading `conn_h` after freeing it is such
a `Crash`. A negative `-n` behaves like one that is never reached and is not
modelled.

**QuotaSpec.** `live` and `admitted` count connections and admissions per
address; an admission needs `live < Limit`, and at most `Window` wait. The
refinement maps them to `OpenFrom` and to the `finished` packets in `rxq`.

**HttpServer.** With `-e` the map, without it `Quotas`, indexed by the last
octet (`LastOctet` stands for `extract_last_octet`; the instance lets two
addresses share one). A refused connection has been counted in
`n_current_conns`, is closed by the server, and goes through
`http_server_on_conn_closed` like every other; this is where its quota is
decremented without ever having been incremented. With `-e` the hook also
filters: `HookPassed` is what `QuotaOffload` shows of it, that an address gets
at most `RxCap - 1` connections past its limit. `clients_move` says whether the
clients of a behaviour migrate: the properties that migration breaks are stated
of the behaviours in which nobody does. The counter thread takes the lock and
prints in one step (`PrintRequests`) and resets and unlocks in another
(`ResetRequests`); a callback that counts a request waits for the lock. What is
printed is a rate, the count divided by `COUNTER_INTERVAL` as integers divide: a
count below the interval prints 0 and is reset all the same. So no statement that
every request is printed holds, and none is made: `ResetsWhatWasPrinted` says that
a reset takes away exactly the count that the printed rate was computed from.

**XdpLifecycle.** `pc` is how far `main` has come; the handler has three steps
of its own (query, compare and detach, exit) that interleave with everything
but the `main` of its own process. `Gone` is the end of a process: the kernel
closes its descriptors, the interface keeps what is attached. Ids are reused
once nothing holds them. `Leave` stands for all ends of a running server that
do not detach: `-n`, `-h`, a bad option, and `equic.c`, which exits right after
the load. Compare and detach are one step, since nothing separates what they
do from a detach that is late by itself: `attached` may change between
`QueryLink` and `UnloadIfOwn`. The handler ignores the result of its
detach; the model takes it to succeed. A query may fail (`QueryLinkFails`), and
the handler then ends its server with the program attached; `SignalUnloads`
speaks of the handlers whose query succeeded (`Unloading`). `SignalsEarly` allows signals before `equic_load`
has returned, when `EQUIC_PROG_ID` is still 0; `admin_acts` says whether
somebody uses the Makefile's targets. A signal that arrives while `main` is on
another thread (the HTTP server has one) lets `main` go on meanwhile; the only
thing it can do to the interface's program is to end, which `Crash` covers.

**InterfaceSpec.** A lock: taken when free, given back by its holder. A holder
that ends otherwise leaves it locked (`stray`) until an administrator comes. The
refinement maps `holders` to the servers whose program is on the interface,
`stray` to a program that no server holds; query, compare and exit of a handler
are stutters, and so is every load that fails.

**EchoStream.** Bytes are model values, the buffer has `BufSize` of them and
starts with anything, as `malloc` left it. `received` and `echoed` are history.
A stream that was reset makes every read fail with -1, which the code takes for
a byte.

`short_writes` says whether writes fall short in a behaviour, since the code
forgets the rest of the line then.

**EchoSpec.** A stream takes bytes until a line is complete, then sends the line
back, all of it, before it takes another byte. The refinement forgets the
buffer: what waits is what was received and not echoed. It holds of the streams
in `Served`, those that are not shut, closed or reset while writes take whole
lines; the end of a stream is `Lose`, after which nothing is said of it. Since
losing is always allowed, when a stream may be shut is a property of its own
(`OnlyOverlongShuts`): not for a line that fills the buffer to its last byte.

**StreamContext.** `st` has the context of each stream and what the engine
keeps of it, as a record: `want`, `read_shut` and `write_shut` are the engine's
view, `left` is what `bytes_left` returns, `reader` and `file_fd` are
descriptors, of which `fds` says who opened what they stand for (POSIX opens
the lowest free one, `Lowest`). Every `exit(1)` and every fault is
`End("dead")`, a failed assertion `End("asserted")`. `goaway` belongs to a
connection and has any value at first, because `conn_ctx` comes from `malloc`.
`opt` is the configuration of a behaviour: the options of the program (`mode`,
`delay` for `-y`, `immediate` for `-w`, `pwritev` for `-P`, `push` for `-p`),
whether the process was started with a standard input (`stdin`), whether
`lsquic_stream_pwritev` falls back on reads (`falls_back`), and whether clients
close streams early (`leave`). `Promised` makes the streams that a push opens;
the engine may refuse any of them (`Promises`). `Freed` is what `on_close` leaves
of a context: its timer is not deleted, and `resume_response` may find it.

**FileMode.** A file is a number of units and a write takes any part of what is
left. `process_request` contains the immediate write of `-w` and the end of its
callers, which shut the read side whatever `process_request` wanted. With `-P`
the source is `file_fd` and `bytes_left` subtracts what was written before the
last write, so that the end is only seen at the next callback; the fallback
(`Taken` with `falls_back`) reads at one offset until it has enough and may take
more than is left, which makes `left` negative.

**HqMode.** Headers, delay and pushes are absent. `SeenLeft` is `bytes_left` with
a `file_size` that nobody has set.

**InteropMode.** A header set is its methods and paths in order and the number
of other headers. `hset_accepts` is the decoder with its buffer and the engine's
requirement of all pseudo-headers; `req` is what `add_header` makes of it.
`find_handler` maps a path to a service, `Status` to the status of the answer,
`Handled` is `on_read` on the headers: it replies, or waits for the body
(`ReadBody`). `GenSize` takes the size of a generated file modulo `Word`, as the
shift does. `reply` sets `SH_HEADERS_SENT` whether the headers went out or not,
as the code does, which ignores the result of `lsquic_stream_send_headers` there;
`headers_lost` is the history of a flag set after a failure. All other callers
look at the result. A failed write in `reply` aborts the connection, and with it
all of its streams.

**ResponseSpec.** `phase` and `due`: a response is settled with a length,
delivered front to back, and ends when nothing is left, or is lost. `HttpStream`
maps a stream to `none` before its request is processed, `due` while it is open
and the server up, `ended` once the write side is shut, `lost` otherwise. What is
due is `left`, of an ended response too: a write side that is shut while something
is left is a step `ResponseSpec` does not have. The refinement is about the body;
headers are the business of `NoTruncation`. The two ways of writing that do not keep the length (`Excused`) are mapped to
`none`.

## 3. What TLC checks

Passing runs:

| run | shows | instance |
|---|---|---|
| `offload_quota` | `OvershootBounded`: the limit is passed by no more than the queue; `ExitLeavesNothingBlocked`; `BlockedRecovers` under fairness; `ImplementsQuota`: the refinement of `QuotaSpec` | 2 addresses, 3 slots, limit 2, queue 2, `-n` 0 or 2 |
| `offload_full_map` | who is not counted found the map full (`MissOnlyWhenFull`), and the others are counted exactly after any history (`CounterExact`) | 3 addresses, map of 2 entries, crashes, `-n` 0 or 2 |
| `offload_migration` | `CountersCoverOpen`: migration never makes the map count too little in total; `NoCounterUnderflow` | migration, crashes |
| `http_accounts` | the accounts: `CurrentConnsExact`, `QuotaNeverOvercharges`, `QuotaCapped`, `EbpfCountersExact`, `ResetsWhatWasPrinted`; what they decide: `RefusedOnlyAtLimit`, `OnlyRefusalsLoosen`, `StopsOnce`, `ServesMaxConn`; `CooldownEnds` under fairness | 3 addresses on 2 octets, 3 slots, limit 2, with and without `-e`, `-n` 0 or 2, moving clients or not |
| `lifecycle_attached` | `ProgramStays`: what a server attached stays until its own signal; `SignalUnloads`: it is gone after a handler whose query succeeded; `ImplementsInterface`: the refinement of `InterfaceSpec` | 3 servers, 4 ids, an administrator or not |
| `echo_lines` | `EchoFaithful`, `EchoesWholeLines`; `EchoInOrder`, also when writes fall short; `OnlyOverlongShuts`: a stream is shut for a line longer than the buffer and for no other; `ImplementsEcho`: the refinement of `EchoSpec`; `LineComesBack` under fairness | 2 streams, buffer 2, 3 bytes, resets, short writes or not |
| `stream_response` | one stream: `NoTruncation`, `ProcessedOnce`, `SomeoneInCharge`; what streams do to each other: `TimerHasStream`, `OwnFile`, `AssertionsHold`; `ImplementsResponse`: the refinement of `ResponseSpec`; `ResponseEnds` under fairness | 2 streams, 12 configurations of the three modes (options, failures, a missing standard input), each with clients that leave or not; files of 0, 1 and 4 units, 11 paths, 16 header sets |

Violated runs, each a statement of the sources that the code does not keep
(`findings` in `PROJECT.json` quotes them):

| run | what happens |
|---|---|
| `quota_overshoot` | handshakes that passed the hook together take an address over the limit |
| `quota_false_block` | a connection that migrated leaves its count behind, and the old address is blocked with fewer open connections than its quota |
| `http_quota_bound` | every refused connection lowers the quota it did not raise, and the next one gets in |
| `lifecycle_foreign` | a signal before the load takes "no program" for its own and detaches another server's |
| `echo_reset` | after a reset the buffer's old content is echoed |

More disagreements are in the models and have no run of their own; each takes
one constant and one formula to see:

- an address that found the map full is never blocked (`Insert`);
- without `-e`, a refusal may be due to the connections of another network with
  the same last octet (`RefusedOnlyAtLimit` with addresses for octets), and the
  octet that a moving connection left stays charged (`QuotaNeverOvercharges`
  without its premise);
- a rate of less than one request a second is printed as 0 (`PrintRequests`);
- a handler whose query of the interface fails ends the server with its program
  attached (`QueryLinkFails`);
- a reply of interop mode whose headers could not be sent goes on with its body
  and ends like any other (`NoTruncation` without `MayLackHeaders`);
- a signal between the attach and the assignment of `EQUIC_PROG_ID` leaves the
  program attached (`SignalsEarly`);
- after an end that does not detach (`Leave`, `Crash`), the next server cannot
  load (`SetLinkFails`);
- what a short write did not take of a line is lost (`ShortWriteOptions`, and
  `EchoFaithful` without its exception);
- responses of up to 10000000 bytes are not delayed by `-y` (`DelayAfter`);
- with `-P`, a stream that ends without having opened a file closes descriptor
  0: first the standard input, later a file that another stream reads
  (`OwnFile` without its premise);
- with `-Q` and `-P`, the first write of a response is taken for its last
  (`NoTruncation` without `CutsShort`);
- the fallback of `lsquic_stream_pwritev` reads the larger of two sizes, past its
  buffer or past what is left of the file, and the response then never ends
  (`ResponseEnds` without `falls_back`);
- with `-p` every request promises the file to be pushed, its own request
  included: the path is compared after the document root was put before it
  (`http_server_on_read_regular`);
- `find_handler` ignores the method of a table entry;
- the size of a generated file wraps around before it is compared: some
  requests over the announced 2 gigabytes are answered with a short file
  (`GenSize`);
- a push of `verify-headers` has no headers to return and fails
  `assert(resp->sz)` (`AssertionsHold` without its exception);
- what one read returns of a body counts as all of it (`ReadBody`).

### Bounds

- *Addresses and slots.* An address is affected by another only through the
  capacity of the map and through `n_conn`, so two suffice, and for a full map
  three, with two entries. With limit 2 and queue 2, three connections of one
  address exceed the limit. Three addresses on two octets give sharing and its
  absence. `http_quota_bound` has a fourth slot: two connections at the limit,
  the refused one, and the one that takes its place.
- *`RxCap`* bounds the socket's buffer; two places are enough for a handshake
  to overtake another and for the overshoot. The theorems have no such bound.
- *`RequestCap`* caps `requests_per_second` in the guard of the increment: with
  2, a request can come before the print, between print and reset, and after.
  With `COUNTER_INTERVAL` 2 the counts 0, 1 and 2 print 0, 0 and 1. A state in which it disables `NewConn` is one in which the counter thread is
  quicker.
- *Lifecycle.* Three servers give one that runs, one that is refused and one
  that comes after. One id more than the servers covers a program left behind
  by a process that is gone. One handler per server; `ASignalUnloads` is proved
  for any number.
- *Echo.* A buffer of 2 and inputs of up to 3 bytes have a line that fits, one
  that fills the buffer exactly, one that is too long, and one that follows
  another. `MaxInput` also bounds what a failing read may have echoed.
- *Files* of 0, 1 and 4 units with `DelayAfter` 1: empty, too short for a delay,
  and long enough to be delayed and to need several writes after it; `-w` with 2
  units covers the second whole and the third in part.
- *Streams.* Two of them have three descriptors, so a stream can close or reuse
  one under another, and one can be the other's push. No property relates three.
- *Interop.* `Word` 16 and `GenLimit` 4 give generated files that are empty, short,
  too long (5) and so long that they wrap around (9 shifted by 1 is 2);
  `DecodeBuf` 4 a header set that does not fit; `RespSize` 2 a response that
  takes two writes. Paths have 0, 2 and 4 pushes, one more than the patterns
  take.
- *Options* that change what may happen (`has_eBPF`, `max_conn`, `clients_move`,
  `admin_acts`, `short_writes`, the fields of `opt`) are chosen by `Init` and
  never change, so one run covers all their combinations, or for `opt` those of
  `MCConfigurations`: options that do not meet in one line of the code are not
  combined.
- *Symmetry* is used in `offload_full_map`, `offload_migration` and the violated
  runs `http_quota_bound`, `lifecycle_foreign` and `echo_reset`, which have no
  liveness property, and only over sets that no property tells apart: addresses
  (of the HTTP server, those that share an octet) and slots; servers, ids and
  handlers; streams.
- `CHECK_DEADLOCK FALSE` everywhere: every one of these systems may stop (the
  process has exited, the last stream is closed, the input is over).

### Fairness

- `QuotaOffload`: the event loop handles what is queued (`WF` of `Handle`);
  timeouts fire for connections whose address is blocked, since a peer whose
  packets are all dropped is silent, and lsquic's idle timeout is on by default;
  the clean-up and the exit are straight-line code. No fairness for clients,
  and none for timeouts of others, who may keep a connection alive for ever.
- `HttpServer`: closes are fair for refused connections (the server has called
  `lsquic_conn_close`), during a cooldown (lsquic sends its clients away) and
  in the clean-up. Connections in general need not close.
- `EchoStream` and `HttpStream`: lsquic calls the write callback of a stream that
  wants to write, stream by stream (`WF` of `echo_server_on_write(s)` and of
  `on_write(s)`); timers of the event loop fire (`WF` of `resume_response(s)`).
  Nothing is assumed of clients, closes and reads.

## 4. What TLAPS proves

The theorems hold for every set of addresses, slots, octets, processes, ids and
handlers, every limit, capacity and queue; the assumptions on the constants are
those of the modules (`CountersAssumption`, `OffloadAssumption`,
`HttpAssumption`, `LifecycleAssumption`, `EchoAssumption`,
`StreamAssumption`, `InteropAssumption`), which TLC evaluates in every run.

`EquicCountersProofs` has the lemmas on the map: what the operations do to its
type and its values, and that adding an entry never makes room.

`QuotaOffloadProofs`:

| theorem | says | assumes |
|---|---|---|
| `TypeCorrect` | `[]TypeOK` | - |
| `NoUnderflow` | `[]NoCounterUnderflow` | - |
| `CountersAreExact` | `[]CounterExact` | `Steady` |
| `OnlyAFullMapMisses` | `[]MissOnlyWhenFull` | `Steady` |
| `OvershootIsBounded` | `[]OvershootBounded` | `Steady` |
| `ExitUnblocks` | `[]ExitLeavesNothingBlocked` | `Steady`, no crash |
| `OffloadImplementsQuota` | `Spec => ImplementsQuota` | `Steady`, `Roomy` |
| `CountersCover` | `[]CountersCoverOpen` | `Roomy`, no failing update |
| `OneInFlightRespectsQuota` | `[]QuotaRespected` | `Steady`, `Roomy`, `RxCap = 1` |
| `BlocksOnlyAtQuota` | `[]BlockedOnlyAtQuota` | `Steady`, no crash |

`Steady` is "no migration and no failing update", `Roomy` "the map has room for
every address"; `quota_false_block` shows that migration breaks the counts, and
a full map admits an address for ever. The argument:
`TypeOK` is not inductive, since a slot in use must have an address and the
queue must be finite; `Shape` adds these, and that nothing is left of a process
that ended. `CounterExact` is not inductive either: it speaks of addresses with
an entry, and one that gets its first entry at its second connection would start
at 1. `Accounts` adds that an address without an entry has connections only if
the map is full. A full map never gets room again, so such an address never gets
an entry. `OvershootBounded` is inductive relative to these: a `finished` packet
enters the queue only while the count, which is exact, is below the limit, and
the queue is bounded. The refinement maps each action to one of `QuotaSpec` or
to a stutter, with the cardinalities computed by `FS_AddElement` and
`FS_RemoveElement`.

`CountersCover` is about migration, where no entry is exact. Instead of adding the
entries up, which would be an induction over the map, `CountersCoverOpen` counts
their units: the pairs of an address and a number from 1 to its count
(`Units`). An increment adds one unit, a decrement removes one or finds none.
So a new connection adds a unit and a connection, and a close removes a
connection and at most a unit, whichever address it is reported at: `Covered` is
inductive, given room for every insertion.

The last two state when the findings do not happen. With one datagram behind the
hook at a time no address passes its limit (from `OvershootBounded`), so
`quota_overshoot` is due to the queue alone; without migration and crashes a
blocked address has its quota of connections, after the server has ended too, so
`quota_false_block` is due to migration.

`HttpServerProofs`:

| theorem | says | assumes |
|---|---|---|
| `HttpTypeCorrect` | `[]TypeOK` | - |
| `ConnectionsAreCounted` | `[]CurrentConnsExact` | - |
| `ResetsArePrinted` | `ResetsWhatWasPrinted` | - |
| `LoopStopsOnce` | `[]StopsOnce` | - |
| `MaxConnIsServed` | `[]ServesMaxConn` | - |
| `ChargesAreCapped` | `[]QuotaCapped` | - |
| `NobodyIsOvercharged` | `[]QuotaNeverOvercharges` | - |
| `RefusalsAreJustified` | `RefusedOnlyAtLimit` | - |
| `RefusalsAloneLoosen` | `OnlyRefusalsLoosen` | - |
| `EbpfCountersAreExact` | `[]EbpfCountersExact` | no failing update |

`TypeOK` needs `CurrentConnsExact` to be inductive: a count that is the number
of connections is not zero when one of them closes. `Slots` joins the two, that
a slot in use has a peer, and that `stopped` is set exactly when the loop does
not run, which gives `StopsOnce` and `ServesMaxConn`: the loop runs only below the
limit of `-n`, and without a cooldown stops only at it. `Charges` has the two bounds on `Quotas` and that the
array stays zero with `-e`: the decrement of a close then never meets a charge
that another connection owns. A refusal found the quota at its limit, and the
quota is at most the number of accepted connections, so the refusal is
justified. `RefusalsAloneLoosen` is the other direction: what an octet has
beyond its charge grows only at the close of one of its refused connections,
which is the one cause of what `http_quota_bound` shows. `Ledger` does for the map what `Accounts` does in
`QuotaOffloadProofs`. `ResetsArePrinted` rests on the rate printed still being
that of the counter while the thread holds the lock.

`XdpLifecycleProofs`:

| theorem | says | assumes |
|---|---|---|
| `LifecycleTypeCorrect` | `[]TypeOK` | - |
| `ASignalUnloads` | `[]SignalUnloads` | no early signals |
| `OwnProgramStays` | `[]ProgramStays` | no early signals, at most one handler |
| `OneServerUp` | `[]AtMostOneUp` | no early signals, at most one handler |
| `ServersImplementInterface` | `Spec => ImplementsInterface` | no early signals, at most one handler |

The invariant `Own` says whose program an id is: processes hold different ids,
a server that is up knows its own, handlers run in servers that are up, and a
program that a handler did not see on the interface at its query will not be
there later, since only its own process could attach it and that one is past the
attach. `SignalUnloads` follows at the compare. `ProgramStays` needs in addition
that a handler which saw its own program at the query still finds it there: with
one handler and no administrator nobody else detaches it, and attaching does not
replace. `lifecycle_foreign` shows what early signals do to it. `OneServerUp`
follows: two servers that are up would both have their program, and different
ones, on the interface.

For the refinement, `Holders` has at most one element because loaded ids differ.
An attach needs a free interface and makes the server its holder. A handler
that detaches found its own program at the query, which is still there without
an administrator (`ProgramStays`), so the detach is the holder's; with one it
may hit something else and is a step of the administrator's. An end is
`Abandon` if the process held the interface and a stutter if not; it cannot make
another server's program a stray one.

`EchoStreamProofs`, for any streams, bytes and size of the buffer:

| theorem | says | in behaviours |
|---|---|---|
| `EchoTypeCorrect` | `[]TypeOK` | all |
| `ReadsHaveRoom` | `[]ReadHasRoom` | all |
| `EchoIsFaithful` | `[]EchoFaithful` | until a reset, without short writes |
| `EchoKeepsOrder` | `[]EchoInOrder` | until a reset |
| `LinesAreWhole` | `[]EchoesWholeLines` | without short writes |
| `OverlongLinesShut` | `OnlyOverlongShuts` | all |
| `StreamsImplementEcho` | `Spec => ImplementsEcho` | until a reset or the end of the stream, without short writes |
| `EchoesOnlyReceived` | `[]EchoedWasReceived` | without resets (`~ ResetsAllowed`) and short writes (not in `ShortWriteOptions`) |

`TypeOK` is inductive only with `Turns`: a stream reads while there is room, and
writes when the last byte in use is a newline. `EchoFaithful` and `EchoInOrder`
follow from one invariant, `Ordered`: the buffer holds the last bytes received,
and what was echoed are bytes from before those, all of them unless a write
fell short. A read leaves the border between the two where it is, a write moves it
to the end.
`Whole` is `EchoesWholeLines` by length; a window that reaches into the line
just echoed contains the newline before it or the one at its end.

`OverlongLinesShut` adds to `Ordered` the invariant `MidLine`: the buffer of a
stream that reads holds no newline. When the byte that fills it is none either,
the last `BufSize` bytes received are in the middle of one line.

For the refinement, `Ordered` says that the bytes that wait are those in the
buffer (`WaitsInBuffer`), and `Turns` that a stream reads exactly while no whole
line waits: a stream whose last byte is a newline wants to write, one that reads
has another last byte or none, and one whose buffer is full without a newline is
shut. `EchoesOnlyReceived` extends `Ordered` to streams that were shut or closed,
of which it says nothing; the run `echo_reset` shows that one reset breaks it.

`HttpStreamProofs`, for any number of streams, any configurations, file sizes,
paths and header sets:

| theorem | says |
|---|---|
| `StreamTypeCorrect` | `[]TypeOK` |
| `NothingIsTruncated` | `[]NoTruncation` |
| `RequestsOnce` | `[]ProcessedOnce` |
| `ResponsesAreInCharge` | `[]SomeoneInCharge` |
| `TimersHaveStreams` | `[]TimerHasStream` |
| `FilesAreOwned` | `[]OwnFile` |
| `AssertionsAreKept` | `[]AssertionsHold` |
| `StreamsImplementResponse` | `Spec => ImplementsResponse` |

The invariant `IInv` has a part that speaks of one stream (`Sane`) and a part
that relates streams to descriptors. `Sane` is the conjunction of what each
property needs of a context: `SidesShut`, a side that is shut is not wanted;
`Begun`, nothing is written before the request was processed, and the read side
of a processed request is shut, so that it cannot be processed again;
`InCharge`, callback and timer hand over to each other; `Complete`, a response
that ended has nothing left, and one that lost its headers is a reply of interop
mode; `Answered`, an interop response has a handler and
something to send; `Fresh`, a context that was not used is as it was made, which
pushed streams rely on. A step of one mode changes the context of its own stream
and those it promises, so each action needs a lemma on contexts only.

`Descriptors` says that nobody owns two descriptors and that owners have
processed a request. There is one more descriptor than there are streams, so a
stream about to open a file finds one by the pigeonhole principle, and `Lowest`
is defined. `Files` joins `OwnFile` with the fact that a request that was
processed has opened something. For these the process takes five kinds of
steps: a drift, in which no file is opened or closed; the end of the process; a
failed assertion; the opening of a file; `http_server_on_close`.

The refinement maps a step of one stream to `Deliver` or `Lose` of that stream
or to a stutter (`OneGoesOn`), an aborted connection and the end of the process
to `Lose` of every response that was due (`StaysOrLoses`).

Only model-checked: the liveness properties (`BlockedRecovers`, `CooldownEnds`,
`LineComesBack`, `ResponseEnds`), which need fairness and `ENABLED`. Of the
violated statements, three have a theorem that says when they hold
(`QuotaRespected`, `BlockedOnlyAtQuota`, `EchoedWasReceived`); `OthersProgramStays` is
`ProgramStays` with early signals, which `OwnProgramStays` excludes; and
`RefusalsAloneLoosen` names the step that `QuotaIsUpperBound` fails at.

## 5. What is not modelled, and the plan

Not modelled: `-Q` without `-r`, which runs the interop callbacks over an engine
without HTTP; the text processing of `extract_last_octet`, of request lines and
of the patterns and checksums of interop mode, which are abstracted to their
results; frames that are not IPv4 (the hook reads them as if they were);
`rate_limit_map` (declared, never used); a detach that fails; what a freed
context may hold but a fault or nothing; logging and time measurements. Not to
be modelled: experiments, tracing scripts, build, certificates: they share no
state with the servers.

Next: `HttpOffload`, `HttpServer` behind the hook of `QuotaOffload`, with
`XdpLifecycle` for its ends: what a restarted server finds in map and interface;
then a theorem that `HttpServer` with `-e` implements `QuotaSpec`, and the
counterpart of `CountersCover` for its moving clients.

## 6. Running

    tlc -config offload_quota.cfg MCQuotaOffload
    tlapm QuotaOffloadProofs.tla

The module of each configuration is in `PROJECT.json` under `runs`. The
`MC` module of a configuration starts with `MC` followed by the module it
instantiates.
