# A TLA+ model of the HTTP/SOCKS proxy

The program is a proxy that runs inside Pythonista on an iPhone: a SOCKS5
server, an HTTP proxy and a small server for the WPAD file, bound to an outbound
network interface, with a supervisor that watches interfaces and listeners and
rebuilds the servers when something breaks. It brings its own copy of dnspython,
through which every host name a client asks for is resolved. This directory holds
TLA+ modules of the program and of what of dnspython carries state or order, TLC
configurations that check them, and proofs that TLAPS checks. Everything is
translated from the code under `src/`; paths below are relative to it.

1. [The system](#1-the-system)
2. [The modules](#2-the-modules-and-the-code)
3. [The runs](#3-what-the-runs-check)
4. [Bounds](#4-bounds-and-why-they-are-enough), [fairness](#5-fairness), [assumptions](#6-assumptions-about-the-environment)
5. [What is proved](#7-what-is-proved)
6. [Where the code and its documentation disagree](#8-disagreements-found)
7. [What is not modelled](#9-what-is-not-modelled), [plan](#10-plan)

To run: `tlc -workers 2 -config <run>.cfg <module of the run>` and
`tlapm <module>_proofs.tla`.

## 1. The system

Three kinds of threads meet in the program. The UI thread (and its short-lived
worker threads) calls `StableServerManager`; the *runtime thread* runs one event
loop with the supervisor, the listeners, the watchers and a task per client; the
WPAD server and the keepalive supervisor have threads of their own.

| Component | State it keeps | Operations | What makes it correct |
| --- | --- | --- | --- |
| `StableServerManager` (`lib/stable_runtime.py` 100-460) | `_thread`, `_loop`, `_stop_async`, `_recover_async`, `_stop_requested`, `_startup_event`, selections, all shared between threads | `start`, `stop`, `recover`, `set_outbound_selection`, `_thread_main`, `_supervise` | one runtime at a time; an early stop is not lost; what `start()` and `stop()` return is true; back-off follows failures; the runtime comes back |
| Generation (`stable_runtime.py` 462-698, 1256-1322) | three listeners and five tasks | `_start_generation`, `_wait_for_change`, `_stop_generation` | every socket of a failed or replaced generation is closed; a changed selection is not lost |
| `AsyncProxyServer` (`lib/proxy_server.py`) | `_server`, `_client_tasks`, the count in the statistics | accept, `client_connected`, `stop` | the limit and the count are exact, slots come back, `stop()` ends and leaves nothing behind |
| Relay and handlers (`proxy_server.py` 35-136, `lib/socks5_server.py`, `lib/http_proxy_server.py`) | two connections per client | negotiate, connect, relay, close | both connections are closed however the handler is left; half-close keeps the order of data and EOF |
| `UdpForwarder` (`lib/socks5_server.py` 56-270) | endpoints, `_locked_client`, `connections`, pending tasks | datagrams of either side, pruning, `close` | one client per association; table and tasks bounded; replies only for recent exchanges; nothing is left behind |
| `InterfaceRegistry` (`lib/interface_manager.py`) | `_records` under two locks | `refresh`, `resolve` | the newest scan wins; an interface is given up after both thresholds only |
| Interface watchdog (`stable_runtime.py` 462-540, 700-864) | the generation's interfaces, the clock of an inbound interface without IPv4 | scan, advise, resolve, restart | the servers are bound to an address the phone has; no restart without a reason |
| Health monitor (`stable_runtime.py` 945-1254) | failures in a row, confirmation attempts | probe, judge, confirm | no restart on thin evidence; no dead listener for ever |
| Background runtime monitor (866-943) | clock of the last tick | measure delay, repair keepalive | the audio session is active while the runtime is |
| Keepalive (`lib/keepalive.py`) | player, session, supervisor thread, stop event | `start`, `stop`, `ensure_active`, supervisor | no audio after `stop()`; one supervisor; audio repaired while a session runs |
| Outbound connect (`proxy_server.py` 138-225, 310-423) | resolver, source addresses | `_resolve_domain`, `tcp_connect`, `resolve_address` | a host is out of reach only when each family failed; one connection is kept |
| Statistics (`lib/status.py`) | counters and texts under one lock | update, snapshot | the shown state agrees with the runtime |
| Stable UI (`lib/stable_ui_view.py`) | `_busy`, `_refreshing`, enabled controls | toggle, refresh, exit, completions | calls do not overlap; the view comes back; Exit leaves no runtime |
| en2 diagnostics (`lib/en2_diagnostics.py`) | thread, stop event, last signature | `start`, `stop`, `note`, samples | the log has each session from START to STOP, and every transition |
| Legacy Mode (`socks5.py`, `lib/ui_view.py`, `lib/interfaces.py`) | threads and listeners of a start, `_running`, chosen interfaces | `start`, `stop`, callbacks of the view | the view shows what is bound; a failed start leaves nothing |
| Interface enumeration (`lib/ifaddrs.py`), configuration | | | inputs, constants |
| dnspython (`dns/`) | see section 2 | resolve, exchange, caches, messages, zones, transfers, DNSSEC, QUIC | an answer is a server's, whole, within the lifetime; zones are as their sources say |

**Interactions.** The UI calls `start()`/`stop()`, which share attributes with
the runtime thread without a common lock (`_state_lock` covers part of `start()`,
one statement of `stop()` and `set_outbound_selection()`); requests reach the
event loop by `call_soon_threadsafe`. The supervisor starts a generation, waits
until a stop or recovery event is set or a task of the generation ends, and tears
it down. Watchdog and health monitor end by raising `RecoveryRequired`, which the
supervisor sees as a task that ended. UI and watchdog both call
`InterfaceRegistry.refresh()`. The supervisor awaits `AsyncProxyServer.stop()` of
both servers, which waits for the clients' handlers. The health monitor's probe
of SOCKS is itself a client of that server, and counts against its limit.

**Hard behaviours.** Calls of several threads around one `_thread` attribute;
requests before the event loop exists; partial failure of a start; teardown that
is cancelled at any await; a second cancellation three seconds after the first;
`asyncio.wait_for` that swallows a cancellation; limits checked at one point and
counted at another; records aged by time and by misses at once; decisions on what
was read before an await; tasks that go on after the object they belong to was
closed. `PROJECT.json` lists each with its line and the properties for it.

## 2. The modules and the code

Each component module declares its variables with the attributes they stand for,
has an action per operation, handler or step between two points where another
thread or coroutine can intervene, and ends with its properties. Operators named
`<Definition>_<Fault>` are faulty variants of the definition that follows them:
what the code would be with a plausible mistake. No specification uses them; put
in place of their definition, each makes TLC report the property it is paired
with in `PROJECT.json`.

**RuntimeLease** — what the manager promises, without saying how: runtimes follow
one another, only the live one takes ports, it serves only with all of them, stops
serving before it gives one back, and ends with none.

**StableRuntime** — the manager, its runtime threads and generations. A *session*
is one thread with its event loop; `pc[s]` is where it is. A *caller* is a thread
inside `start()`, `stop()`, `recover()` or `set_outbound_selection()`; `cpc[c]` is
the statement it is at, as none of them is atomic: `StopLatch`, `StopPost`,
`StopCapture`, `StopJoin`, `StopKeepalive`, `StopCheck`, `StopRelease` are the
lines of `stop()` one after another. `posted` is what `call_soon_threadsafe` has
not run yet. `flaky` says that the environment may still make a bind, a
verification, a task or a WPAD shutdown fail; `EnvironmentSettles` ends that. It
implements RuntimeLease by `Lease == INSTANCE RuntimeLease WITH ...`.

**ProxyServer** — one listener: `Accept`, `ClientConnected` (limit, slot and count
before the first await), the awaits of the handler and of `tcp_forward`'s,
`do_CONNECT`'s and `client_connected`'s `finally` clauses as values of `pc[c]`,
`Cancelled` for a `CancelledError` raised there, `Stop`, `StopTimeout` and
`StopReturns`. A connection is `link[c][side]`: open, flushing, closing or lost;
`waiter` is the future behind `wait_closed()`, which a cancellation of the waiting
task cancels too and which may carry the exception the connection failed with.
`Handler` chooses between the SOCKS and the HTTP handler's way of leaving.

**InterfaceRegistry** and **InterfaceWatchdog** — the second extends the first. The
registry has the phone's real interfaces (`world`, `online`), the records, and a
refresh in progress per thread. `TakeLock`, `Scan`, `ScanFails`, `Publishes`,
`Raises` are the steps of `refresh()`; `Resolve` is the operator of `resolve()`,
giving the set of names it may return. The watchdog module adds a generation's
choice of interfaces and the watchdog's passes; a tick is one `watchdog_interval`.

**HealthMonitor** — `_health_monitor` with its probes (`Probed`, `ConfirmProbed`),
the judgement after the await (`Gathered`) and the verdict (`Confirmed`). Real
state (`alive`, `full`) and the network's mood (`glitched`) change in between.

**UdpForwarder** — one association: creation of its endpoints, datagram tasks that
have not begun, that wait for a resolution, the table with the age of each entry,
`close()` and `connection_lost()`. A datagram is only who sent it; what it names
is decided when its task looks at it, or when its resolution is over.

**TcpRelay** and **DuplexPipe** — `tcp_forward()` and its two `forwarder_loop()`
tasks between two asyncio streams. Bytes are numbered in the order they are sent:
`inBuffer[d]` is what a StreamReader holds of direction `d`, `outBuffer[d]` what a
transport has not passed on, `taken[d]` what the other end has read. DuplexPipe is
the promise (in order, each byte once, the end after the last byte, also when the
other direction has ended), and TcpRelay implements it.

**HttpHandler** — one request from its first line to the end of the response:
limits and timeouts of the head, `_validated_framing`, `_forward_headers`, chunked
and counted bodies with trailers, CONNECT, and which answer can still be given when. Of a head it keeps kind, framing fields and nominations of Connection.
**Socks5Handler** — greeting, choice of a method, the three commands and every
reply. **ClientConnection** composes both with TcpRelay and UdpForwarder in one
task per client: a handler goes on when the relay returns, and answers in the step
that creates the association.

**Keepalive** — `KeepaliveManager`, its supervisor threads (one per
`start_supervisor()` that made one), the controller's order of calls, the runtime's
repair and iOS's interruptions. **StableView** — controls, `_busy`, background
threads, completions by `ui.delay()`. **DiagnosticMonitor** — the sampling thread
of `En2DiagnosticMonitor` and its log, to which each entry is appended, or not, in a
step of its own. **LegacyServerManager** — `start()` and `stop()` of Legacy Mode, with
a server thread per start and the one client that keeps the WPAD server (`WpadClient`);
**LegacyView** extends it
with the callbacks of `ProxyUIView` and the choice of interfaces.
**Supervision** puts these and HealthMonitor beside each other; they share no state.

**NameService** does the same for what lies below the proxy:

| Module | Code | State |
| --- | --- | --- |
| Outbound | `lib/proxy_server.py` | lookups and connection attempts per family, who wins |
| DnsResolver | `dns/resolver.py`, `dns/asyncresolver.py` | names and servers left, back-off, elapsed time |
| DnsExchange | `dns/query.py`, `dns/asyncquery.py`, `dns/_asyncio_backend.py` | one exchange by UDP, TCP or TLS: what was read, time left |
| DnsCache, RecencyList | `dns/resolver.py` | both caches; the LRU's ring of nodes, which implements the list |
| DnsMessage | `dns/renderer.py`, `dns/message.py`, `dns/name.py`, `dns/wire.py`, `dns/tsig.py` | the message written so far, its compression table, what the reader makes of it |
| UpdateMessage | `dns/update.py` | the sections of an update, and what the calls mean |
| ZoneLookup | `dns/resolver.py`, `dns/message.py` | the name tried, the responses, chains of aliases |
| QuicStreams | `dns/quic/` | streams with their buffers, the worker, waits; in threads, each half of a `put()` or `get()` |
| NameTable | `dns/name.py`, `dns/namedict.py` | names and a NameDict |
| ZoneFileTokens | `dns/tokenizer.py`, `dns/name.py`, `dns/rdata.py` | the tokenizer character by character, escapes |
| ZoneFileReader | `dns/zonefile.py`, `dns/transaction.py`, `dns/rdataset.py` | origin, TTLs, last name, the stack of included files; the rdatasets read |
| ZoneVersions | `dns/versioned.py`, `dns/zone.py`, `dns/transaction.py`, `dns/node.py`, `dns/serial.py` | versions, readers, the writer, its queue |
| InboundTransfer | `dns/xfr.py`, `dns/query.py`, `dns/serial.py` | the transfer's state and its transaction |
| Dnssec | `dns/dnssec.py` | keys, signatures made, what a resolver has fetched |

dnspython is vendored, but the proxy's lookups rest on it and this tree is where
it is kept; what of it only converts a value is left out (section 9).

**MC_*** instantiate these for TLC (interfaces, names, small zones).
**\*_proofs** hold the theorems. The other components meet through interfaces that
are inputs of each other: `SeeChange` of StableRuntime is what `Restart` of
InterfaceWatchdog and `Restarted` of HealthMonitor stand for; StableRuntime's
`CloseSOCKS` and `CloseHTTP` are ProxyServer's `Stop` to `StopReturns`; Outbound
takes from DnsResolver that a lookup ends within `LookupBound`, less than the
`connection_timeout` of 12 s since a lookup ends within 5 s of lifetime and 2 s of
back-off (LookupsEnd); DnsResolver takes an exchange's outcome from DnsExchange.

## 3. What the runs check

| Run | Question | Result |
| --- | --- | --- |
| `runtime_serial` | One controller, two sessions, keepalive on, every failure: is what `start()` and `stop()` return what happened (`CallsTruthful`), is the port lease implemented (`ImplementsLease`), does the runtime come back and end when asked (`RuntimeFollowsRequests`)? | holds, 54 k states |
| `runtime_selection` | Selections change and recoveries are asked for at any point: is a change lost (`SelectionChangeNotLost`), does the delay fit the failures (`BackoffMatchesFailures`)? | holds, 1.7 M |
| `server_socks` | Three SOCKS clients, two slots, resets, swallowed cancellations, `stop()` anywhere: are slots, limit and the shown count those of the handlers at work (`SlotsSound`)? | holds, 865 k |
| `server_http` | HTTP handlers cancelled at any await: are both connections closed (`BothEndsClosed`), does `stop()` return (`StopCompletes`)? | holds, 74 k |
| `server_stop_stalled` | The same `StopCompletes` with peers that stop reading | violated, finding 1 |
| `server_slot` | `FinishedClientsHoldNoSlot` with errors other than `ConnectionError` | violated, finding 2 |
| `watchdog_refresh` | UI and watchdog refresh one changing interface, in fore- and background: is the newest scan published, and an interface given up only after the grace period (`RegistryTruthful`)? | holds, 303 k |
| `watchdog_grace` | Two interfaces under Auto: no restart without a reason (`RestartHasReason`), finally bound to the truth (`EventuallyBound`)? | holds, 190 k |
| `health_full` | Listeners that live, and a SOCKS server that may be full (`LiveListenersKept`) | violated, finding 3 |
| `supervision` | Restarts only on an unbroken row of failures (`RestartNeedsEvidence`), dead listeners replaced (`DeadListenerReplaced`); audio with the session (`AudioFollowsSession`) and repaired (`AudioRepaired`); Exit leaves no runtime (`ExitLeavesNothing`); the log is whole (`DiagnosticsComplete`); Legacy Mode shows what is bound (`LegacyViewTruthful`); both views come back (`ViewsFreed`) | holds, 313 k |
| `client_connection` | What proxy and upstream read of a request agrees, is whole and is answered once (`HttpExchangeSound`); SOCKS replies tell what was done (`SocksRepliesTruthful`); a relay is a bounded pipe (`RelayIsBoundedPipe`); an association has one client and its recent peers (`AssociationSound`), others are refused (`RepliesSolicited`); all of it ends (`ConnectionsFinish`) | holds, 143 k |
| `name_service` | The 14 modules above, a property or two of each: OutboundUsesWhatWorks, LookupsSound, LookupsEnd, CachesSound, MessageSound, UpdateMeansItsCalls, ZoneIsClosest, QuicAnswersTaken, NamesSound, ZoneTextSound, ZoneReadRight, VersionsSound, WritersServed, TransferAllOrNothing, ValidatedIsSigned | holds, 219 k |

A property that has several parts names each of them in its module: SlotsSound, for
one, is LimitRespected, CountMatchesHandlers and RejectedOnlyWhenFull. The
type invariants, AtMostOneRuntime, ListenersMatchGeneration and BoundWhileUp are
proved for all instances and are in no run.

In `supervision`, `client_connection` and `name_service` a behaviour starts in one
of the parts, chosen at the start, so that a run is the sum of its parts' state
spaces and not their product. Deadlock is checked in the runtime and watchdog runs and
in `health_full`; elsewhere a stopped server stays stopped, a finished connection
finished, and peers need not do anything.

## 4. Bounds, and why they are enough

* `MaxSessions` 2: the second session meets every leftover of the first (latch,
  events, posted callbacks, WPAD port). AtMostOneRuntime and the lease are proved
  for every number. `MaxRestarts` is 1, or 3 where the delay matters, with
  `MaxDelay` 3 so that one doubling is exact and the next is cut off.
* `MaxClients` 2 with three clients: two hold a slot while the third is rejected
  or takes a freed one. `server_http` has one slot and two clients, as its
  properties are about a single client's teardown.
* The age counters stop one tick past the last threshold they are compared with.
  The thresholds (2 or 3 misses, 3 ticks of grace, a TTL of 4) are small but
  ordered as in `config.py`, so that each is reached before and after the others.
  `MaxChanges` bounds the environment's changes per behaviour: two changes make an
  interface leave and return, or change its address while a scan is under way.
* `Resolve` gives what the code gives for at most five candidates: the limit of
  five probes in `_best_connected` is left out.
* `FailuresBeforeRecovery` 2 and `Attempts` 3 are the defaults of `config.py`.
  One pause may come before or during a row of failures.
* The UDP table holds two of three peers and the TTL is one tick: every entry may
  be pushed out, expire or be renewed in any order; two pending tasks per endpoint
  are a task that overtakes another.
* Relay: two bytes one way and one back, a reader limit of two, chunks of one, a
  transport that pauses its writer as soon as it holds anything. Back-pressure, a
  reader that is paused, and data behind an EOF all happen.
* HTTP: heads of two lines, eight pieces of a body, chunks of at most two; every
  combination of the given framing fields, and bad ones.
* Keepalive: three supervisors are a session, one that was given up and one after;
  two interruptions. Diagnostics: a log of five entries holds a session with a
  transition, or a failed entry, and the start of the next. Legacy Mode: two starts.
* QUIC: two queries as tasks; one as a thread beside the worker's (`ThreadQueries`), as
  the worker takes the streams one after another and no step of a stream reads another.
* Resolver: three servers, two names, a lifetime of 5 in steps of the first back-off
  as in `dns/resolver.py` (doubling, at most 2). Exchange: datagrams and a stream in
  up to three pieces, bodies of two octets, so that a read may end inside the length
  and inside the body.
* Messages: 12 cells with an offset limit of 6 for compression, so that both limits
  bind; two owners and two types. Updates: two calls in a row, on a zone with two
  records. Zone files: four lines with includes and ranges, texts of four
  characters. Transfers: seven records, which hold an IXFR of two steps.
  Versions: three threads, two versions kept, three committed.
* Caches: three keys for two places, times to live of 0 and 1 on a clock of one tick,
  so that entries are over when put, run out, or stay. The search for a zone: the
  root, two names below it and one below these, two of them possible aliases.
* Serial numbers are modulo 8: a circle small enough to wrap. DNSSEC: three keys, two
  with one tag, two of one algorithm, one unreadable.

## 5. Fairness

Only what the program's own scheduling gives is assumed.

* *Threads run and event loops run their ready callbacks:* weak fairness of each
  session's steps, each call under way, `Deliver`, `LoopStep`, `Monitor`, `Runtime`,
  `ConnectionLost`, `HttpRead`, `RelayProgress`, `SupervisorsTurn`, `ViewUnderway`,
  `LegacyViewUnderway`. Calls are never assumed to be made.
* *Timeouts fire:* `TimedStep` (handshake and connect have limits),
  `StopTimeout`, `StartTimesOut` within `StartStep`.
* *The abandoned WPAD worker ends:* it polls its shutdown flag twice a second.
* *Time passes for a sleeping watchdog:* weak fairness of `Tick` while asleep.
* *The refresh lock* is not fair and the user may refresh again and again: strong
  fairness of the runtime's step that takes it. A lock that starves the watchdog
  for ever is excluded, nothing else.
* *A paused app comes back:* `EnterForeground`, `EntersForeground`. Without it iOS
  has suspended the program and nothing can be promised.
* *Reads with a timeout end:* `HttpRead` for the lines of a head, the exchanges of
  DnsExchange, the waits of QuicStreams with a timeout.
* *Interruptions end:* iOS gives the audio back (`InterruptionEnds`).
* *A thread that writes a zone ends its transaction* (ZoneVersions).
* *Peers* need not send, nor end what they send. That they read what they are sent is
  assumed in two runs: in `server_http`, where what is queued is read at some time
  (`~PeersStall`; `server_stop_stalled` is the same question without that), and in
  `client_connection`, where `RelayProgress` has the reading of both ends (`Take`,
  `SeeEof`), so that ConnectionsFinish is about relays between peers that read.
* *A client of Legacy Mode's WPAD server* is not assumed to be done (`WpadClient`).

Conditions of liveness are part of the properties: RuntimeComesBack after
`flaky` has ended, EventuallyBound once the bounded environment is quiet.

## 6. Assumptions about the environment

* `CallsTruthful` is checked with one controller: the UI's `_busy` flag serialises
  its calls (`stable_ui_view.py`, `_toggle`, `_exit`; StableView has it). What
  holds without that, AtMostOneRuntime and the lease, is proved for any number.
* `StableRuntime`'s `CloseSOCKS` and `CloseHTTP` end. Finding 1 says when that is
  not so; then neither RuntimeComesBack nor StopEndsRuntime can be expected.
* The Pythons the application runs on are older than 3.12: `Server.wait_closed()`
  returns at once after `close()`, and `asyncio.wait_for` may return a result
  although it was cancelled (`WaitForSwallows`). The latter is TRUE in
  `server_socks`, and has any value in the theorems.
* `StopTimeout` happens when the event loop has run all it could in three seconds.
* The probes of one health round are answered at one moment.
* `except Exception` in `_thread_main` is not reached: `_supervise` handles its own.
* `asyncio` cancels datagram tasks at `connection_lost`; one that a swallowed
  cancellation lets go on finds no endpoint and changes nothing.

* A join that times out leaves its thread behind. Keepalive's, the diagnostics' and
  Legacy Mode's properties say what holds until then; section 8 says what may follow.
* Legacy Mode is not started again while a thread that `stop()` gave up on lives.
* asyncio is not late for a read (`LateReads = FALSE` in DnsExchange), see section 8.
* The constructor of `AsyncProxyServer` does not raise (`ServersRejectHosts = FALSE`).
* Name servers answer truly in ZoneLookup, and anything at all in DnsResolver and
  DnsExchange. Nobody signs with a key he does not have (Dnssec).

## 7. What is proved

For every value of the constants that the named assumptions allow, TLAPS checks:

**StableRuntime_proofs.** `RuntimeInvariant`: `RuntimeInv` is inductive. Its parts:
types; sessions are numbered in order (`NumberingInv`); a `start()` past its check
holds the lock and no runtime is alive (`StartHoldsLock`); a live thread is the
one in `_thread`, and a `stop()` about to forget a thread forgets a dead one
(`OwnerInv`); the failure count (`CountInv`); the sockets held at each program
point (`HeldInv`). `AtMostOneRuntime` alone is not inductive: two launches are
excluded only because the check, the lock and `OwnerInv` go together. From it:
`TypeCorrect`, `OneRuntime`, `NoListenerForgotten`, and `RefinesLease`, where every
action of the threads is matched with a step of the lease or a stutter.
`SelectionsTakeEffect` rests on `EventsInv`: while a session's loop runs, `_loop` and
`_recover_async` are its own, so that what is posted reaches it. `BackoffFitsFailures` rests on `DelayInv`, which says of each point of the
loop whether the failure behind it is in the count and in the delay yet; that the
delays grow, which `ScaledDelay` defines by recursion, is an induction.
`CallsTellTheTruth` is for one controller `c`, whose calls follow one another:
`TalkInv(c)` says what `start()` and `stop()` know of the thread at each statement.
With two controllers it is false (section 8).

**ProxyServer_proofs.** `SlotInv` relates the three things updated at different
points: handlers at work are in `_client_tasks`, which is within the limit, and the
count is the cardinality of those inside `handle()`. It gives `ProxyTypeCorrect`,
`LimitHolds`, `CountHolds`. `SlotsReleased` and `RejectionsJustified` add that no
close future carries an `OSError` that is no `ConnectionError`, *assuming* that
connections do not fail so; `server_slot` shows the assumption is needed.
`HttpClosesBothEnds` (for the HTTP handler) rests on `EndsInv`: an open upstream
belongs to an await that a `finally` clause guards.

**InterfaceWatchdog_proofs.** `WatchdogTypeCorrect` and `ServersAreBound` from
`CoreInv` (types, the runtime's refresh, what a generation is bound to);
`NewestPublished` from `ScanInv` (one thread scans at a time, and what the latest
scan saw is in its merged result or else in the records); `GivenUpOnlyAfterGrace`
from `AgingInv` (an interface's misses are no older than its last sighting).
`RestartsHaveReasons` holds for an `Attentive` watchdog: in the foreground, with no
refreshing user, and with a cache that keeps records for longer than the grace
period and the scans that count (180 s against 20 s and 3 scans in `config.py`). Then
`ReasonInv`: each tick is counted by a miss (`Counted`), so a record is given up
before it is old enough to be dropped. Section 8 has the restarts without a reason
when the user refreshes or the app was in the background.

**Supervision_proofs.** For the health monitor: `EvidenceInv` relates `failures` and
`attempt` to the row of failed rounds they stand for; it gives `HealthTypeCorrect`
and `RestartsHaveEvidence`. `LiveAreKept`: while SOCKS is never full, listeners that
live survive probes that fail all at once. For the keepalive: `AudioGoesWithSession`
from `ThreadsInv` (what the thread in `_supervisor_thread` is while the controller is
at each point) and `JoinedInv` (what a join that did not time out makes sure of). For
the stable view: `ExitIsClean` from `WorkerInv` (what the worker's return value says
of the runtime), `ControlsInv` (a control that is enabled has no call under way) and
`ClosedInv`. For Legacy Mode: `LegacyViewSaysWhatIs` from `ManagerInv` (which ports a
start holds at each of its points, and what its threads may still do) and `ViewShows`
(what the callback under way has read of it), where the constructor of the servers
does not raise; section 8 says what happens when it does. For the
diagnostics: `DiagnosticsTellWhatWasSeen` from `DiagnosticInv`, which speaks of
positions in the log, since what is appended leaves earlier positions alone, and says
what the last of them is while a scan has its sample in the log and not yet its
transition.
`StepOfParts` splits a step of Supervision into steps of its parts, and
`SupervisionKeepsPromises` puts them together.

**ClientConnection_proofs.** For the UDP forwarder, `TableInv`: entries and
resolutions in progress are of the locked client, and an entry is as old as the last
exchange with its peer. It gives `AssociationHasOneClient` and
`OnlySolicitedReplies`. `AssociationKeepsItsTable` adds the limits: where a
peer of the last TTL is not in the table, `max_mappings` others used no earlier are
(`Filled`), and `Tasks` counts the pending ones of each endpoint. For the relay, `RelayInv`: in each direction, what was taken,
the buffer on the way out and the buffer on the way in are, in this order, the
numbers of the bytes sent (`Placed`), except behind a reset; where a forwarder is
says what its buffers can hold and whether EOF has passed (`DirectionInv`); and
`finally` begins only when both tasks have ended (`TasksInv`).
`RelayImplementsPipe` then matches each step of the relay with a step of
DuplexPipe or a stutter, and bounds the buffers. For the SOCKS5 handler,
`SocksTellsTheTruth` from `SocksInv`: the replies written at each point. For the HTTP
handler, `HttpForwardsOneMessage` from `MessageInv` (what was sent is the beginning
of one message, and where the handler is says how far; the message is read by a
fold, which `FoldExists` unfolds for one more piece) and `AnswersInv`.
`ConnectionKeepsPromises`: a connection, whatever it becomes, keeps all of these.

**NameService_proofs.** The parts of NameService share no state, and each has an
invariant of its own.

* Outbound: `OutboundTriesAll` from `OutboundInv` (what each family has come to, and
  that a race has one connect open until it ends).
* DnsResolver and DnsExchange: `LookupsSayWhatHappened` from `ResolverInv`, made of
  `ServersInv` (a server that may still be asked was not found broken, and is there
  once) and `NamesInv` (the names before this one were denied), and `ExchangeInv`
  (how much of the stream was read at each point of an exchange).
* DnsCache: `LruIsARecencyList` from `CacheInv`: the nodes are linked as some
  sequence of the dictionary's keys, in both directions and round the sentinel.
  `UnlinkKeeps`, `LinkKeeps` and `FlushEnds` say what LRUCacheNode's operations and
  `flush()` make of that sequence, `ChainIsList` that following `next` yields it;
  so each method is a step of RecencyList. `FreshAgree` compares the two caches.
* QuicStreams: `QuicAnswersAreWhole` from `QuicInv`, which has for each stream
  `StreamPlace`, where receive() and the worker can be with it at once, and
  `StreamCount`, which counts the octets that are buffered, taken and on their way into
  the buffer. It is the safety half of `QuicAnswersTaken`, which adds that the answer is
  taken in the end. A thread's put() reads the buffer in one step and stores it in
  another, as get() does; a stream where one stored between the two steps of the other
  is `torn`, and nothing is promised of it.

**ZoneData_proofs.** What concerns zones.

* ZoneFileReader: `ZonesAreReadRight` from `ReaderInv`. The property speaks of the
  records that were given to the transaction, and of what it made of them: a record
  joins those of its name and type or takes their place, and all have the lowest TTL
  (`JoinedInv`, `RecordsJoin`). The invariant says besides that what the reader holds is
  what the lines so far give to the next one (`HoldsAt`): the origin, the TTL of the
  last $TTL or SOA record (`DefaultAt`), the last TTL that a record had, and the
  owner. As the end of an included file brings back what was saved, the invariant says
  the same of each file on the stack, for the line of its $INCLUDE (`Stacked`). That
  this is right again after the included file is `EarlierIncluded` and `HoldsAgain`: no
  line in between reaches the next one, since all of these lie deeper. `SameRecords`
  carries it over a record that is added, as an SOA record and the TTL of a record count
  only where the record was taken.
* ZoneVersions: `ReadersSeeOneZone` from `ZoneInv`: ids in a row, versions that are
  read are kept, a node of an earlier version is shared but never written to
  (`NodesOk`), and any mixture of old and written nodes is a zone (`Mixable`).
  `WritersAreAlone` from the same invariant.
* Dnssec: `ValidMeansSigned` from `DnssecInv` (each signature was made over the data
  that it says, with the key that it says, `SignedBy`).
* InboundTransfer: `TransfersAreWhole` from `TransferInv`: how far the answer has come,
  what the transaction has so far, and that it is what the row of records read so far
  makes of the zone (`UnderWay`, `Waiting`, `AllThere`).

**DnsData_proofs.** The parts about what names, updates and answers say, and the
lemmas about sequences, numbers and folds that both modules above use as well.

* NameTable: `NamesAreFound` from `TableInv`, which adds to the property that no key is
  deeper than the depth that is kept (`DepthsCover`), and that the match of a name is
  the longest of its suffixes that is a key (`MatchSound`), which is a key at or above
  it unless it is the empty one (`MatchMeans`). Names are compared from
  their ends; relativizing and splitting keep their labels.
* UpdateMessage: `UpdateIsItsCalls` from `UpdateInv`: the update section, read back,
  makes of the zone what the calls made of it so far (`UpdateMakes`), and the
  prerequisites ask what was demanded (`AsksFor`). Each entry holds one record or
  none, so that a section comes back entry by entry (`SectionComesBack`).
* ZoneLookup: `ZonesAreClosest` from `LookupInv`: each zone around the name that was
  asked for is around the name that is tried now (`StillInside`), and a response tells
  what the servers know (`TrueAnswer`). A chain of aliases is a trail over the names
  that stays at its end (`TrailStays`) or goes round (`TrailGoesRound`), so it comes to
  no more names than there are aliases, and one (`ChainIsAll`); `TurnsGoAlong` and
  `AnswerMeans` say where `resolve_chaining()` is on it after each turn.
* DnsMessage: `MessagesComeBack` from `MessageInv`, which says of each phase of
  `to_wire()` what the wire holds. A mark is a place of the wire from where a name is
  spelled, by its first label there or by a pointer to a mark further back; a log is
  the records written so far, each with the cells that it takes and the marks of its
  names (`WrittenAs`, `SentBy`). Each name that is in the compression table has a mark
  (`BufferOK`), which `NameToWire` keeps, and so does a rollback, as it forgets exactly
  what lies behind the cut. Reading follows the marks: `TurnsReadOn` says where
  `from_wire_parser()` is after each turn, and `QuestionRead`, `RecordRead` and
  `SectionIsRead` what the reader has made of the log so far, up to the place where a
  message that was cut short ends. `MessageAssumption` asks for a size that holds an empty message with
  its OPT and TSIG record, as `to_wire()` allows none below 512 octets.

The assumptions are the `ASSUME`s of the component modules; TLC evaluates them in
each run. Where a property speaks of what a recursive function computes or of a
whole sequence, the proofs go by induction: `SetInduction` is the principle for sets
of numbers, shown by way of a least counterexample, as the library's induction
theorem, which has a parameter that is an operator, cannot be used. Definitions
with RECURSIVE operators cannot be used in proofs at all, so the modules that are
proved about have recursive functions instead.

**Checked by TLC only:** all liveness, as temporal reasoning with fairness is out of
reach here, so also what QuicAnswersTaken adds to its safety half, and WritersServed;
and ZoneTextSound, for which an invariant would have to say, of each place between two
characters, which words lie before it; it is not written.

## 8. Disagreements found

Three are runs, and entries of "findings" in `PROJECT.json`:

1. `server_stop_stalled`: `AsyncProxyServer.stop()` never returns when a relayed
   client and its upstream both stop reading: two cancellations meet three
   `wait_closed()` (`proxy_server.py:268`).
2. `server_slot`: `client_connected` catches `ConnectionError` only, so a client
   lost to ETIMEDOUT keeps its slot (`proxy_server.py:305`).
3. `health_full`: a full SOCKS server is healthy in a first round, but dead in the
   confirmation (`stable_runtime.py:1106`).

Instances that are not kept as runs show behaviour that a comment or a test does
not lead one to expect; each takes overlaps that are rare, or has mild
consequences:

* `runtime_serial.cfg` with two controllers, JoinedRuntimeToldToStop: the
  `_stop_requested.clear()` of a `start()` undoes the latch of a `stop()` that has
  not read `_thread` yet, which then waits for the new runtime in vain.
  `stable_runtime.py:249-250`: "an early Stop must not be lost". The UI's busy flag
  excludes the overlap.
* `server_socks.cfg`, StopLeavesNoHandler: a client that was accepted but
  whose task has not begun is not in `_client_tasks` when `stop()` lists it, and is
  served after `stop()` returned. `proxy_server.py:259`: "Cancel all in-flight
  client handlers".
* `server_socks.cfg`, BothEndsClosed: a cancellation at the
  `gather()` of `tcp_forward`'s `finally` clause (`proxy_server.py:129`) skips the
  closing of the upstream; `do_CONNECT` has a `finally` of its own, the SOCKS
  handler has none.
* `server_http.cfg` with `WaitForSwallows = TRUE`: a handler that swallows both
  cancellations, one at the end of its handshake and one at the end of its connect,
  relays on while `stop()` waits. BothEndsClosed holds all the same.
* `watchdog_refresh.cfg` with `BackgroundLite = TRUE`, `UiRefreshes = FALSE`,
  FirstMissTolerated: time in the background, without scans,
  counts towards the cache TTL; after a long pause one missed scan is enough to
  drop a record (`interface_manager.py:203`).
* `watchdog_refresh.cfg`, RestartHasReason with a user that refreshes: the watchdog
  finds the outbound record intact, awaits `resolve()`, and finds it missed once by
  the user's refresh meanwhile: the servers restart within the grace period
  (`stable_runtime.py:845`).

* `name_service.cfg` with `LateReads = TRUE`, LookupsEnd: `dns/_asyncio_backend.py`
  takes a timeout of 0, which `_timeout()` makes of an expiration that is over, for
  none, so that an exchange that comes late to its next read waits for ever.
* `name_service.cfg` with QuicTimesOut as PROPERTY: `quic()` with a timeout does not
  end under trio or asyncio where a wake-up is missed each time.
* `supervision.cfg` with `ServersRejectHosts = TRUE`, LegacyViewTruthful: when
  `AsyncProxyServer()` raises, Legacy Mode's `start()` leaves the WPAD port and
  thread behind, and every later start fails to bind (`socks5.py:227`).

Other behaviour that the models reproduce, and that nothing in the repository speaks
about:

* *Keepalive.* After a join of 1.5 s was given up, the thread may take the audio
  once more. `start()` does not look at what `setActive_error_()` and `play()`
  return (`keepalive.py:165-180`), and reports a silent player as active; it is found
  silent at the next repair.
* *Legacy Mode.* `shutdown()` of the WPAD server (`socks5.py:351`) waits, in the UI
  thread and without a limit, for the one client it is serving, whose request has no
  timeout: ViewsFreed excepts a client that keeps it. Exit while no servers run leaves the audio that `run_with_ui()`
  started; closing the view in another way leaves the servers running; of two
  interfaces `en0` and `bridge`, the bridge becomes the default of both, although a
  comment in `interfaces.py` says "then any non-proxy interface".
* *Diagnostics.* A session that begins while a thread that `stop()` gave up on lives
  watches nothing. An entry that cannot be appended is lost, and a transition that is
  lost like this, or with its sample, is not written later, as the signature was kept
  before (`en2_diagnostics.py:140`): a MONITOR_ERROR stands in its place, or the thread
  dies.
* *HTTP.* A head cut off by the client is parsed as if it were whole; the response
  is not read before the body was sent, so that an upstream that answers first and
  stops reading keeps the handler waiting.
* *HTTP, SOCKS.* An address that `urlsplit()` refuses is answered 431, as a head that
  is too large is (`http_proxy_server.py:286`).
* *QUIC.* In threads (`dns/quic/_sync.py`) the worker's `Buffer.put()` takes no lock. Where
  it meets `have()`, an answer that has come whole may be an UnexpectedEOF; where it
  meets `get()`, octets are lost or are there twice. The trio worker's UnexpectedEOF
  leaves the nursery of the manager, and cancels every query in it (`_trio.py:129, 158`).
* *Resolver.* `zone_for_name()` of `dns/resolver.py` trusts the SOA record of a zone
  that an alias leads to; the asynchronous `tls()` does not use an SSL context it
  is given; `proxy_server.py:189` narrows a resolver that other servers may share.
* *Zones.* A relative `$ORIGIN` is not completed, and then completes the owners of
  records twice, since `as_name()` does what `from_text()` did already
  (`tokenizer.py:661-662`), but those of `$GENERATE` and `$INCLUDE` once; an SOA record
  that is not at the origin is a ValueError, and no syntax error (`transaction.py:426`);
  a record that joins an rdataset with a higher TTL lowers it for all
  (`rdataset.py:98`). A blank owner without an origin and
  an included file without a zone's origin raise AttributeError; included files
  stay open after an error; `$GENERATE` out of the zone still sets the last TTL; a
  line that begins with a parenthesis and a comment is refused; `inbound_xfr()`
  reports a missing TSIG after it has committed.
* *DNSSEC.* `sign()` counts the asterisk of a wildcard as a label, so that
  expansions never validate; `validate()` lets the `struct.error` of an unreadable
  key escape. *Names.* `NameDict.get_deepest_match()` finds the empty key for an
  absolute name as well, although its docstring wants "a superdomain of *name*" and
  `fullcompare()` says that the empty name is none of an absolute one; `relativize()`
  by the empty name leaves nothing of any relative name (`name.py:793`). `NameDict` recounts its greatest depth, where its comment says
  "the maximum depth of the keys that have ever been added"; `update.present()` keeps
  the TTL of an rdataset.

## 9. What is not modelled

* *Between two tests of one statement.* `stop()` asks `loop.is_running()` and then calls
  `call_soon_threadsafe()` (`stable_runtime.py:256-257`): the RuntimeError of a loop
  that is closed in between is left out of `StopPost`.
* *A cancellation at the `gather()` of `tcp_forward()`'s `finally` clause*
  (`proxy_server.py:129`) is in ProxyServer and not in TcpRelay, whose `CancelRelay` comes before or
  after it. *`Expect`* is answered by the library's `parse_request()`, of which
  HttpHandler has the verdict.
* *Payload.* Relayed bytes, UDP payload, PAC text, URLs, bytes of the SOCKS fields. A
  parser is its verdict.
* *Display.* Layout of both views, statistics shown, colours, the slow-loop
  detection of `_background_runtime_monitor`, log texts.
* *Bindings.* `lib/ifaddrs.py` (ctypes), audio APIs, aioquic, TLS, cryptography.
* `set_proxy_selection` stores what the next generation reads; the inbound selection
  is constant in InterfaceWatchdog. `clear_runtime_cache` is called by nothing. The
  limit of five probes in `_best_connected`. `run_console()` of `socks5.py`.
* *dnspython:* record types and their codecs (`dns/rdtypes`, `dns/rdata.py`), EDNS
  options, enumerations, address texts, IDNA: pure conversions without state between
  calls. DNS over HTTPS, the trio and curio socket backends, `resolv.conf` and the
  Windows registry, the text form of messages, TSIG over several messages, NSEC3
  and key files, the reader of single RRsets.

## 10. Plan

Done, in this order: StableRuntime with RuntimeLease, ProxyServer,
InterfaceRegistry with InterfaceWatchdog, HealthMonitor, UdpForwarder, each with its
proofs; TcpRelay with DuplexPipe, the handlers and their composition; Keepalive,
both views, diagnostics and Legacy Mode; the name service; proofs of the relay's
refinement, the SOCKS5 replies, the audio and Exit, and of both compositions; proofs
of what was left of these parts, and of those of the name service: what is written to
a message is read back, a zone file is read as its lines say.

Next, most important first:

1. Proofs: that what is written as text is read back, character by character.
2. `set_proxy_selection` while the watchdog runs, as a variable of
   InterfaceWatchdog.
3. ClientConnection in ProxyServer's place of a handler: the refinement of one
   client's task.
