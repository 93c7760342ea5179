# GGS Remote in TLA+

A verification development for the remote-access subsystem of Git Graph Studio
(`extensions-src/ggs-remote`): TLA+ modules of the Hub that relays browsers to
PCs and of the PC's daemon, TLC runs on small instances, and TLAPS proofs for
every size. Paths below are relative to `src/`.

1. [The system](#1-the-system)
2. [What is modelled](#2-what-is-modelled)
3. [The runs and their bounds](#3-the-runs-and-their-bounds)
4. [What the code does not keep](#4-what-the-code-does-not-keep)
5. [What is proved](#5-what-is-proved)
6. [What is not modelled](#6-what-is-not-modelled)
7. [The plan](#7-the-plan)

## 1. The system

Git Graph Studio is a Tauri desktop application. Its Rust crates
(`src-tauri/crates`) are engines over data: git, text, search, a shell, a
stand-in for Node. Its front end (`src/`) is a user interface. The part whose
difficulty is in the *control* is GGS Remote: a browser on a phone drives the
desktop's windows through a relay.

```
 browser page ──ws/http──▶ Hub ──one tunnel per PC──▶ daemon ──control──▶ instances
 transport.ts              hub/src                    daemon/src           and their relays
```

A browser may also reach the daemon directly over the LAN (`ws/socket.rs`); a
session through the Hub (`hub/session.rs`) runs the same establishment and the
same connection state.

| Component | State it keeps | Operations | Correct when |
|---|---|---|---|
| Hub tunnel registry (`hub/src/tunnel.rs`, `state.rs`) | uuid → tunnel; each tunnel's daily allowance, kill permit, heartbeat count | handshake, register, displace, pump, heartbeat, kill, unregister | never more PCs than `max_tunnels`; an entry belongs to a live owner; a PC leaves only by its own tunnel's exit; vanished, replaced and blocked PCs all leave; a day's bytes are bounded |
| Hub blocklist (`blocklist.rs`) | cached set and the stamp it was read under | `refresh` from a tick and from every handshake | an edit takes effect without a restart |
| Hub session multiplexer (`ws_bridge.rs`, `http_proxy.rs`) | slots of each tunnel; reader, writer, request tasks | reserve, open, forward, close, drop | the ceiling holds; no exit path leaves a slot behind; a PC's close reaches its browser; the cache holds what the PC sent |
| PC link and session tasks (`daemon/src/hub/link.rs`, `session.rs`) | session → pump; task per session | open, route, close, unbind, link end | no binding without a browser; every task ends |
| Resumable connections (`ws/conn.rs`, `resume.rs`, `socket.rs`) | sequence, ring, credit, hold queue, live binding and its generation | push, grant, ack, resume, go offline, end | nothing skipped in silence, nothing reordered, held frames leave; a stale socket harms nobody |
| Page transport (`src/remote/transport.ts`) | sid, lastSeq, credit consumed, reconnect | hello, receive, credit, ping, reconnect, navigate | pairs its lastSeq with the session it belongs to |
| Joint login (`hub/src/login.rs`, `gate.rs`, `state.rs`) | link sessions under a credential epoch, rate windows | login, push of a credential, check | no session of an old password survives, no session of the new one is lost |
| Hub asset cache (`hub/src/cache.rs`), PC asset cache (`daemon/src/cache.rs`) | bodies by key, sizes | store, look up, evict | bounded; what is served is what was stored |
| PC hub client (`daemon/src/hub/mod.rs`) | settings generation, status, backoff | connect, park, restart | every settings change is acted upon; no retry after `replaced` |
| Registry, relays, router (`registry.rs`, `router.rs`, `relay_link.rs`) | instances, relay tokens, idle marks, bindings | attach, detach, relay up and down, instance gone | an attached connection has a relay; idle relays go; no binding to a dead instance |
| Lifecycle (`lifecycle.rs`, `spawn.rs`) | pending spawns, heartbeat, idle mark | spawn, close, idle exit | a spawn is answered once; nobody's window is closed under a session |
| PC authentication (`auth.rs`, `session.rs`, `ratelimit.rs`) | password verifier, epoch, login sessions | set, verify, revoke, kick | a change of password ends what the old one opened |
| PC HTTP surface, sandbox, TLS, config, tray; Hub config, audit, codecs | files and request handlers | request/response | sequential |
| Application's terminals (`src-tauri/src/pty.rs`) | sessions by id, shells, a thread per session | create, kill, close, gather, announce | a shell that runs with nobody to close it is at one of three known ends; no page's terminal is killed by another's create |
| Rest of the application (`src-tauri`, `src/`) | windows, watchers, indexes | — | outside this development |

**How they interact.** The Hub's tasks share maps under mutexes
(`Hub.tunnels`, `Tunnel.conns`) and talk through unbounded queues
(`Tunnel.tx`, `conn_rx`). Hub and daemon exchange frames on one socket per PC;
each end learns of the other's death through a failed send, a closed stream or
missed heartbeats. The daemon keeps a connection's state when its socket goes,
for the resume window; a page reconnects with `HELLO{resume: {sid, lastSeq}}`.

**Where atomicity comes from.** The Hub runs on a multi-threaded runtime
(`hub/src/main.rs`, `new_multi_thread`), so every lock section is an action of
its own, and two of them may have anything between them. The daemon runs on
one thread (`daemon/src/main.rs`, `new_current_thread`; the tray's own thread
does not touch connections), so a task's stretch between two awaits is one
action. The models take both literally: a check-then-act across two locks of
the Hub can be split, one across two locks of the daemon cannot.

**What is hard.** Handshakes racing for one place; a displaced tunnel
unwinding after its successor registered; a slot that must be given back on
some fifteen exit paths spread over two processes; half-open sockets noticed
minutes late; a replay ring whose horizon is off by one or not; messages on
two sockets of one page served in another order than sent. `PROJECT.json`
lists each hazard at its line, with the property that covers it.

## 2. What is modelled

### HubTunnels — `hub/src/tunnel.rs`, `hub/src/state.rs`

One member of `Conn` is a connection and its task `run`. `pc` follows it:
`idle`, `verified` (signature checked), `refreshed` (the blocklist's refresh is
over), `checked` (not on the list), `built` (`Hub::new_tunnel`), `admitted`
(registered), `pump`, `leaving`. Every critical section is an action:
`BuildTunnel` reads the registry under one lock and `Register` writes it under
another, so a second task's steps may fall between them, as they may in the
code. `Displace` is the newcomer telling the tunnel it pushed out.
`TickRefresh`, `Enforce` and `Kill` split `enforce_blocklist` where the code
lets its locks go; a kill permit is stored, so it may arrive before the tunnel
reaches its pump. `Hear`, `RouteFrame`, `StreamEnd`, `Beat`, `HearKill` are the
arms of the pump's `select!`.

`SpendOnDay(c, d, n)` charges to the day `d` its spender read, which need not be
today: `spend` reads the clock before it takes the budget's lock
(`state.rs:165`, `state.rs:181`), and the pump, the bridges and the proxied
bodies spend on several threads. At `NextDay` some spenders have read the old
day (`late`); each of them may still charge to it, which refills the budget as
any change of day does. `relayed`, `strays` and `linkTotal` are history
variables: what a tunnel carried on today's account, its spends of today on an
earlier day's, and what a link carried.

A refresh of the blocklist is a choice here. `RefreshBlocklist(list)` leaves
what was cached, the file's list, or one of `held`: the lists that refreshers
had read when an edit overtook them, and may yet store. That is what `Blocklist`
shows of the refresh's own steps (`StampVouchesForSet`, `SetFollowsFile`), and
an old list may stay for good, as there.

Tunnel ids are never reused in the code. The model reuses a member of `Conn`
only when no task, no registry entry and no pending kill holds the old one
(`Unreferenced`).

### Blocklist — `hub/src/blocklist.rs`

`Blocklist::refresh` at its own grain: `Stat` (or `StatFails`), `Read` (or
`ReadFails`, which keeps the last good set), `StoreSet`, `StoreStamp`. Any
number of refreshers, any edits in between; the runs have two, the tick and a
handshake. `raced` is a history variable: the last edit found a refresher
between its read and its store. `Init` is `Blocklist::open` before its first
refresh. Each edit has a stamp of its own: two edits of equal
length within the file system's clock tick are outside the model.

### HubSessions — both ends of one tunnel

A session is a browser WebSocket (`Ws`) or a proxied request (`Http`).
`conns` is the Hub's slot table, `hubTask`, `writer` and `mail` the tasks and
the queue behind a slot; `toPc` and `fromPc` are the tunnel's two queues;
`bound`, `pump` and `pcTask` the PC's half; `browser` and `up` the user's.

* The Hub: `Upgrade` sees room, `WsReserve` claims it later, under the lock;
  `WsOpen` or `WsOpenFails`; `LeaveReader` is the reader's one exit, which
  aborts the writer where it stands; `WsWrite…` are the writer's;
  `HttpReserve … HttpEnd` the request's, with `FreeSlot` as the `Drop` of
  `SessionSlot` and `ProxyBody`. `Route` is the pump, `CloseAll` what a
  displaced or ended tunnel does to its browsers.
* The PC: `Inbound` is the link loop's frame handler, `LinkEnds` its end,
  which leaves the session tasks to themselves; `Hello … PcIdle` and
  `HttpAnswer … HttpDone` are the session tasks' steps and exits.

Removing a slot and queueing its `CONN_CLOSE` are one action (`FreeSlot`);
nothing reads the table in between that could tell. A frame's content is its
kind; an asset is a number of chunks, `got` and `stored` count those buffered
and those put in the shared cache. The registry's part in a tunnel's life is
reduced to its outcome here: at any moment it may be displaced or end.

### ResumableConn — `daemon/src/ws`, `server.rs`, `transport.ts`

`conn` is `Conn`'s inner state, `known` the router's table, `task` a socket
task (LAN or tunnel), `page` the browser's transport; `down` and `upl` are the
two directions of each socket. `EmitOn` numbers frames, pushes them through
the ring (`RingPush`) and sends them to whatever is live; `RingAck` and the
replay of a resume both take the ring's frames `Past` a number; `PushWorkload`
and `FlushHeld` are credit and hold queue. `HelloFresh`, `Resume`,
`ResumeFails`, `HelloRefused` are the outcomes of a HELLO. The exits are
`SocketDropped` (offline, for the resume window) and `Ended` followed by
`EndConn`: the close is written to the socket, which awaits, so the connection
may be resumed elsewhere before the task asks whether it still owns it.
`Sweep` is the housekeeping. A page that drops its socket may be gone for the
daemon at once or much later; its HELLO may still be on the way. A page that
navigates away is followed by another one, which knows no session.

Left out: fragments and compression (a frame is a unit of credit, of queue and
of ring), CLOSE as a numbered frame, DETACH (RelayRouter has it), SPAWN and
the picker's other requests, the answer `NoInstance` to an ATTACH. The first
poll of the task that serves an ATTACH is merged with the frame. The page's
asynchronous inflate chain is taken as immediate. A restart of the daemon does
to a page what a sweep of all its connections does.

### ReliableDownlink — the promise to a page

The abstract specification of the above, with no socket, ring, credit or queue
in it: frames are numbered (`Produce`), a page hears the next one of its
session (`Hear`), or is told that a session begins (`Begin`), or leaves.
`foreign` marks a session the page began with another one's number, of which
less is promised (section 4). `ResumableConn!ImplementsDownlink` is the
refinement, with `sent` mapped to each connection's `seq` and `sid` to the
page's. Reconnects, replays, evictions, failed resumes and sweeps are then
`Produce`, `Hear`, `Begin` or stutters: TLC checks it on a small instance, and
`Refines` proves it (section 5).

### JointLogin — `login.rs`, `gate.rs`, link sessions; the daemon's `auth.rs`

One password entry is checked on both ends. On the PC: `auth` (hash and
epoch), `pcSessions`, the `login` handler's `job`, `permit` and `link` of the
link loop. On the Hub: the registered `tunnel`, each tunnel's `cred`, the
link's sessions `links`, the `submit` handler's `login`. `wire` has one queue
per tunnel, and several tunnels may be `open` while an old one drains.

`Store` and `CredentialsChanged` are a change of password, from the server's
thread or, beside it, from the tray's. `PushCredential` is the loop's answer to
the permit, `HubHearsCredential` the Hub's to the frame. An attempt goes
`Submit`, `HubVerified` (off the lock), `PcLogin`, `PcVerified` (off the
thread), `HubHearsAnswer`, then `Issue` or `Refused`; it may be given up at any
point. `Restart` and `HubRestart` are the two processes dying: the PC reads
`auth.json` and `sessions.json` back, the Hub has nothing. Which session was
least recently seen is left open, so `Issue` may evict any when the cap is
reached. Left out: rate windows, bans and the offline probe, which turn an
attempt away before any of this.

### RelayRouter — `router.rs`, `registry.rs`, `relay_link.rs`, `control.rs`, `remote_host.rs`

`entry` is the registry, by instance; `serving` the control connections the
daemon still reads, `ctl` the messages on their way to each; `known`, `bound`
and `job` the browsers, their bindings and the tasks that serve an ATTACH. The
application's half is `control`, `gate` (the session count it believes, which a
reconnect does not clear, and, as history, whether this connection has told it
one) and `webview`; `link` is the relay link of each token.

`Attach` is `attach` up to its await (up to 20 s, `RELAY_WAIT`), `AttachOk` or
`AttachFails` what follows it: in between the connection may be detached,
attached elsewhere or ended. `Register` replaces an entry, `ControlEnds` removes
it only under its own serial, and with it (`instance_gone`) the bindings; the
counts are then taken anew and the remaining instances told. `RelayConnects` and `RelayUp` are the two halves
of the upgrade. `LingerPasses` is the idle drop, whose `DropRelay` travels while
the relay still counts as connected. `Refresh` is `refresh_session_counts`,
with the idle mark it sets. Tokens and serials are fresh in the code; the model
takes one again once nothing holds it.

### HubClient — `daemon/src/hub/mod.rs`, the ends of `link.rs`

The loop that follows the settings, the device key and the password. `wakes` is
the restart `Notify` with its one permit: `NotifyOne` wakes a waiter or leaves
a permit, and whether the tunnel's select has come round to its waiter is left
open. `generation` and `under` tell a change from a spurious wake. `GoRound` is
the loop from its top to its next await; `BackoffOver` the timer, which passes
an untaken wake on. `KeyInstalled` and `KeyChanged` are apart: the pool's
thread installs the key, the handler that waited for it notifies. Or never does
(`ImportAbandoned`): a client that leaves drops the handler, and `unannounced`
remembers that nobody told the tunnel. An attempt is `connecting`, for as long
as the peer likes (`Connected`, `ConnectFails`), and then in its handshake, the
frames of which have a timeout.

### Terminals — `src-tauri/src/pty.rs`

The application's shells. `PtyCreate` is the gate, `Spawn` starts the shell or
fails, `PipesFail` is the error after it that leaves a running shell behind,
`Insert` the gate again, under the lock that inserts. A gate's wait may fail,
which reads as exited (`misread`). `Kill` hands a session to `close_session`:
`CloseKills` ends its grace, and `CloseReturns` says how it returned, having
seen the exit, after a failed wait, or at the bound of its poll. A session's
thread gathers output, asks the map whether it may speak, lets the lock go and
emits; its stream may end at any time, whatever the shell does (`StreamEnds`),
and `Reap` drops the entry without a look at the shell. What lies between two
sections of the map's mutex is not atomic.

### MC modules

`MCHubTunnels`, `MCHubSessions`, `MCResumableConn`, `MCJointLogin` and
`MCRelayRouter` give TLC symmetry, views, constraints and small sets. `MCLive`
and `MCTunnelsLive` put several components in one run each, grouped by what TLC
can check together and not by kinship: a behaviour chooses one component
(`part`) and is a behaviour of it, under its own fairness; the others stand
still in a state where nothing of theirs is enabled that fairness would ask
for. They compose for checking, not for interaction.

## 3. The runs and their bounds

| Run | Instance | Distinct states | What it shows |
|---|---|---|---|
| `hub_tunnels` | 2 PCs, 2 connections, 1 place, 1 PC that may be listed, 2 days, allowance 1, frames up to 2, 1 late spender of each tunnel | 1.2 M | capacity, ownership of entries, succession, one tunnel's budget, and that only its own exit takes a PC off the air |
| `hub_tunnels_link_budget` | 1 PC, 1 connection, allowance 2 | violation | § 4 |
| `tunnels_live` | HubTunnels: 1 PC, 2 connections, 2 heartbeats. Terminals: 2 creates on 1 id | 127 k | vanished, replaced and blocked PCs leave; a shell is accounted for, a collision on an id kills nobody |
| `hub_sessions_mixed` | 1 WebSocket, 1 request, 1 slot, 2 chunks, 2 frames up | 5.1 M | ceiling, no ghost slot, no orphan binding, the PC's ends are heard, what is cached was sent |
| `live` | Blocklist: 2 refreshers, 1 uuid, 2 edits. HubSessions: 1 WebSocket. JointLogin: 2 tunnels, 2 epochs. RelayRouter: 1 browser, 1 instance, 1 attach, 2 tokens, 1 serial. HubClient: 2 configurations, 4 changes. ResumableConn: 1 connection, ring 1, hold 1, 2 workload frames | 73 k | the stamp vouches for the set, an edit that crossed no refresh takes effect; a slot does not outlive its browser or its tunnel, the PC's tasks end; a change of password reaches the Hub; a bound browser gets its relay, an idle relay goes; no change of the settings is lost; held frames leave |
| `blocklist_race` | 2 refreshers, 2 uuids, 2 edits | violation | § 4 |
| `resumable_conn` | ring 2, hold 2, 2 sockets per connection; either 1 connection, 1 task, 4 workload frames, or 2 of each and 3 frames that establish and attach | 1.3 M | the gap is covered, order is kept, ReliableDownlink is implemented; stale sockets, failed resumes, kicks and sweeps: nothing stranded, no stranger takes a binding down |
| `resumable_conn_foreign` | 2 connections, 2 tasks, control frames | violation | § 4 |
| `joint_login` | 2 attempts, 2 passwords, cap 1, 2 tunnels, 2 epochs | 2.0 M | only the current password is admitted once the Hub has it, the gate never steps back; restarts of both sides, reconnects |
| `joint_login_pc_half` | 1 attempt, 2 passwords | violation | § 4 |
| `relay_router` | 2 browsers, 2 instances, 1 attach at a time, 1 token, 2 serials, 2 messages in transit | 1.3 M | no binding to an instance that is gone; no session is missing from the application's count |
| `relay_attached` | 1 browser, 1 instance, 2 attaches | violation | § 4 |

**Why the bounds are enough.** Two connections of one PC are needed for
displacement, and two PCs for the ceiling; a third of either only waits. One
place makes every registration contend for it. One heartbeat is enough for
safety (which heartbeat is the last does not matter to the registry); two are
used where counting matters. An allowance of 1 over 2 days has a spend that
fits, one that does not, and a refill; one late spender is a refill too many.
`EditsBeforeMidnight` of MCHubTunnels keeps the edits of the blocklist, which
no budget depends on, to the first day and lets them take effect by its end.
Two refreshers are a race, which a third only repeats; one uuid makes two
lists, the old and the new.
One slot for two sessions makes every
reservation a race; two chunks tell a whole asset from a part. A ring of 2 and
a hold queue of 2 against 4 frames reach eviction, an eviction of acknowledged
and of unacknowledged frames, overflow, and a flush that the credit cuts short.
`OneOrQuiet` of MCResumableConn keeps those frames to one connection, and two
connections to the frames that tell where a socket stands. Two sockets per
connection are a stale one and its successor. Two passwords and
two epochs have a change, and a change back; two tunnels an old one that still
drains beside its successor; a cap of 1 makes each second session an eviction.
Two serials are a control connection and its replacement, or those of two
instances, so that the end of one counts the sessions of the other anew; two
tokens (in `live`) are a relay and its successor. Two creates on one id are a
session and a loser that has already spawned, or one and its replacement; a
third one is covered by the theorems of section 5. `MaxPush`, `MaxSeq`, `MaxGen`, `MaxUp`,
`MaxEdits`, `MaxDay`, `MaxLate`, `MaxFrame`, `MaxTunnels` and `MaxEpoch` of JointLogin,
`MaxGeneration` and `MaxQueue` exist only to bound the state space. All but the
last stop inputs and new attempts, never a task that is under way; `MaxQueue` holds an action
back that would put a third message in transit to one instance.

Symmetry is used, in runs without liveness, in sets that Init and Next treat
alike; runs with liveness or with the refinement use none. The VIEWs of `hub_tunnels`
and `joint_login` leave out one history-like variable each (`linkTotal`,
`pcSessions`), which no action's effect on the rest depends on and no property
of those runs but the type is about.

**Deadlock.** It is checked in the runs of HubTunnels alone, where somebody can
always knock, and in `blocklist_race`, where a refresher can always refresh.
Everywhere else the system may stop: sessions end, inputs are used up.

**Fairness.** Weak fairness of each task's own step is the runtime's polling
of what is ready. Timers are weakly fair because the condition they wait for
stays (a silent peer stays silent): heartbeats, `SESSION_IDLE`,
`HELLO_TIMEOUT`, `IDLE_TIMEOUT`, `RELAY_WAIT`, `RELAY_LINGER`, the client's
backoff. Strong fairness is used where the action is retried for ever and may
fail in between: an enforcement pass that reads the blocklist while no old list
is in flight, and some refresher's `Read` (`Readable`, a premise of
`UnracedEditTakesEffect`); it says that a file which is there is not unreadable
at every single attempt. Nothing makes the Hub client's connection come about or
fail: the code opens its WebSocket without a timeout (`link.rs:137-140`), so
`ConfigIsTried` has the end of each wait as its premise. Nor need the request
that imports a key survive its wait: `KeyChanged` or `ImportAbandoned` follows,
whichever, and the two properties except what was never announced. The other end of a TCP connection is fair only in
noticing that its peer is gone (`hub = "gone" /\ LinkEnds`, `Doomed /\
RelayEnds`), which heartbeats and the operating system's end of a local socket
guarantee. A page that is connected hears what was sent to it, until its socket
goes. The application handles its messages, and a webview it opened connects:
`BoundGetsRelay` gives it a token's time for that, and asks nothing once the
token has expired. Nothing the user, the operator or the network may or may not
do is fair: leaving, kicks, edits, drops, logins, the relay's frames, a
registration.

Progress of a single proxied request is not a property here: each of its waits
has a timer, so in the model it ends by construction. The one timer that may
not fire, that of a body nobody polls, is listed as a hazard.

## 4. What the code does not keep

Five runs check what a comment or document says and find that the code does not
do it. Each is a finding in `PROJECT.json` with the quoted line.

* **The link's daily allowance** (`LinkBudget`, `hub/src/state.rs:356`). The
  allowance crosses a reconnect only if the old tunnel is still registered. A
  tunnel that is stopped for having spent it unregisters itself, so the
  reconnect starts with a full one. What does hold is `TunnelBudget`, of each
  tunnel: one allowance a day, and one more for each spend of that day that was
  charged to an earlier one. It is proved.
* **An edit of the blocklist** (`EditTakesEffect`, `hub/src/blocklist.rs:77`).
  The file is re-read "periodically (and at every handshake), so editing the
  file takes effect without a restart" (`blocklist.rs:2-3`; `lib.rs:114-115`
  promises half a minute). Two refreshers that cross may store the old set under
  the new stamp, after which every refresh finds the file unchanged: the edit
  never takes effect. What does hold is that one which crossed no refresh takes
  effect, however refreshers cross each other (`UnracedEditTakesEffect`).
* **A resume with another session's lastSeq** (`ResumeLosesNothing`,
  `transport.ts:480`). The page takes a new sid and keeps the old lastSeq; if
  the socket drops before a numbered frame arrives, the next resume skips the
  new session's first frames. The refinement holds because ReliableDownlink
  promises less of exactly that pairing (`foreign`), and the full promise of
  any other.
* **A login across a change of password** (`PcProvesPassword`,
  `daemon/src/http/api.rs:128`). The daemon verifies a copied hash on another
  thread and stamps the session with the epoch it reads afterwards: a change in
  between leaves a session of the new epoch for the old password. The Hub's
  half keeps the epoch it verified under, and holds (`CurrentPasswordOnly`).
* **An ATTACHED that is not bound** (`AttachedIsBound`,
  `daemon/src/router.rs:54`). The end of one attach's wait clears the
  connection's binding without looking whose it is; a second attach of the same
  connection, still waiting, is then answered ATTACHED unbound.

Four more places differ from what a comment says of them. The models have the
steps, and the properties of the passing runs carry the exception in so many
words; no run of its own is kept for these:

* a spender that midnight overtakes sets the budget's day back, and the next
  spend refills it once more (`state.rs:165`), against the "per-tunnel daily
  byte budget" of `config.rs:40`: the `strays` of `TunnelBudget`;
* the application keeps the count of sessions it was told over a reconnect of
  its control connection, and the daemon, whose new entry counts from none,
  tells only changes (`remote_host.rs:345`, `router.rs:282-287`): the close
  button may go on asking for browsers that have gone, against
  `router.rs:274-275`, where a count that dropped to zero must be told. The
  second half of `CountTold`: the belief may be too high until the next change,
  no session is ever missing from it;
* a client that leaves while its request imports a key drops the handler before
  it calls `key_changed` (`admin.rs:487-494`), and the tunnel of the old key
  stays, against `hub/mod.rs:186-188`, where it "must drop" at once: the
  `unannounced` of `StaleTunnelEnds`;
* a peer that accepts the Hub client's connection and then says nothing parks
  the loop, which looks at no change of the settings meanwhile (`link.rs:138`,
  `mod.rs:232`), against `mod.rs:215`, where a settings change wakes it: the
  premise of `ConfigIsTried`.

Four last questions are about what no comment promises, and the models answer
each with no:

* the bridge's reader, seeing its session unregistered, aborts the writer that
  still has a kick's close code to write (`ws_bridge.rs:168`);
* a HELLO of an abandoned socket, served after its successor's, has its resume
  refused and ends the connection the successor serves (`socket.rs:119`), where
  the exits would ask `owns_live` first;
* a relay that comes up after its last session left is marked idle only by the
  next change of a session count (`router.rs:266`); `MarkedRelayGoes` is about
  those that have the mark;
* between the thread's question and its `pty-exit`, a session may be created
  under the id (`pty.rs:276`), whose page then hears its predecessor's end.

## 5. What is proved

All proofs are for any finite sets and any limits that satisfy the named
ASSUMEs of the modules (a finite set of PCs or sessions, `None` is not one of
them, limits are naturals, at least one heartbeat may be missed). TLC evaluates
those assumptions in every run that uses the module.

**HubTunnels_proofs.**

1. `TypeCorrect`: types alone are not inductive, because a registration indexes
   by the task's uuid and a heartbeat counts up to a limit. `TaskInv` adds that
   a task past its handshake has a uuid, and that only a task on its way out has
   reached the last heartbeat.
2. `RegistryIsLive`, `ServingTunnelsAreKnown`: proved together as
   `Succession`. Between the moment a newcomer overwrites the entry and the
   moment it tells the old tunnel, the old one is known only to the newcomer's
   local variable `displaced`; the strengthening is that this variable is set
   only in a task that is still before its T_READY, so it cannot exit with the
   message unsent.
3. `OfflineOnlyByOwnExit`: an action property, from `Succession`: an entry
   becomes empty only in `Unregister`, and there it is the leaving task's own.
4. `Capacity`: the registry grows only in `Register`, which compares under the
   same lock; a replacement does not grow it.
5. `TunnelBudgetKept`: at most one allowance a day, and one more for each stray
   spend, however many there are. `BudgetInv` says that what a tunnel carried today and
   what it has left add up to at most that, that a budget of an earlier
   day has carried nothing today, and that a tunnel not yet built has carried
   nothing, because it may inherit any remainder.

**Blocklist_proofs.** For any number of refreshers, which cross each other as
they like: `TypeCorrect`;
`UnracedStampVouches`, that the cached stamp vouches for the cached set unless
the last edit fell between a read and its store; and `SetOnlyFollowsFile`, that
the set is then replaced only by what the file lists. The strengthening carries
the same promise for what each refresher holds between its read and its stores,
and that no stamp is from the future.

**HubSessions_proofs.** `StepKinds` reduces the thirty-odd actions to those
that move a Hub task, those of the pump and the rest. `NoGhosts`
(`NoGhostSlot`) is inductive once the tasks have their type; `Ceilings` follows
from `GrowsByReserve`: the table grows only by a reservation, under its lock.
`NoOrphans` and `PcEndsHeard` are about what is in the queues. `CloseInv` says
that a session past its end on the Hub has a close behind every open of it in
`toPc` (`ClosesFollow`), that a close is the last thing its task sends
(`ClosesAreLast`), that the PC knows of no session whose task has sent nothing
(`SentFirst`), and that a session unbound under a running task of the PC is one
the Hub has ended (`UnboundByHub`).
`Types` and `CachedAssetsWereSent` count the chunks of an answer: what the Hub has
buffered, what waits in the session's mail and what is in the tunnel add up to
at most what the PC has sent (`ChunksConserved`), and an answer ends regularly
only once it has sent them all.

**ResumableConn_proofs.** Three inductive invariants, each on top of the one before.

1. `BInv`, about bindings: each connection of the table is offline with its
   stamp, or its live binding is that of a busy task of the same generation
   (`Carried`), and no task owns a generation from the future. Only four kinds
   of steps move a binding (`Establish`, `Resume`, and the two exits); all
   others are `Quiet`. It gives `NoneStranded` and `OnlyOwnersUnbind`.
2. `GInv` adds what connections and queues hold. `Window`: the ring is the
   gapless end of what was sent, and what is missing in front of it was
   acknowledged or is at the horizon. `Line`: workload frames sent, then those
   held, stand in the relay's order, below the relay's own count. It gives
   `TypeCorrect`, `RingCovers` and `WorkloadKept`, for rings, queues and credits
   of any size.
3. `LInv` adds where the page stands, and gives `Refines`: ResumableConn
   implements ReliableDownlink, for any number of connections and sockets, where
   the run has one of each. What is on its way to the page's socket are frames
   its connection sent, in order, beginning after the last one the page heard,
   and all of them as long as this socket carries the connection
   (`SocketStands`: the HELLO is on its way, or the ack of a resume, or that of
   a new session, or the ack was heard). That a replay begins exactly there
   needs that nobody acknowledged a frame the page has not heard
   (`AckedUpTo`, over the ring's mark, what is in the sockets of that session,
   stale ones included, and the HELLOs), because an acknowledged frame leaves
   the ring. A live binding names a task that serves it (`BoundByOwner`), and
   nothing is said on a socket before it is established (`QuietStart`). The
   steps of the daemon are reduced to one lemma, `DaemonCarries`: whatever a step
   sends on a connection continues its numbers and goes to the task that carries
   it and to no other.

**JointLogin_proofs.** `Known(c)` says that the PC had the verifier `c`: of the
current epoch it is the current one. `IInv` carries it along the way a verifier
takes, through the wire, the tunnels, the handlers and the issued sessions; an
attempt that passed its check typed the password of the verifier it holds
(`Checked`), and so did the owner of a session issued under an epoch
(`Issued`). It gives `TypeCorrect` and `OnlyTheCurrentPassword`.
`GateOnlyAdvances` needs in addition that each tunnel brings its verifiers in
the order of their epochs (`WireSorted`), and that what is on the wire of the
registered tunnel is not behind what the gate has seen (`GateAhead`); tunnels
are numbered as they were opened (`Numbered`).

**RelayRouter_proofs.** `TypeCorrect` and `BoundIsRegistered`. An attach and a
link name an instance (`JobsNamed`, `LinksNamed`); an entry goes only in
`ControlEnds`, which unbinds what is attached to it in the same step, and a
binding is made only under an entry that is there.

`CountIsTold` needs that every entry and every connection of an application is
served under its own serial, that the queue of a serial nobody serves is empty,
and that no connection has told anything to an application that has none
(`Served`). The inductive form is `AllTold`: what an entry counts is the last
count in its queue, or, with none on its way, what this connection told last, or
none if it has told nothing (`Says`). The belief itself outlives the
connection, so in the last case it may be any older count; that is where
`CountTold` promises only that no session is missing from it
(`AllToldSuffices`). `Queue` writes to the queue of each entry's own serial
(`QueueOf`), so a step tells each instance what it counts for it (`Told`). A
run needs two instances here: `ControlEnds` counts the remaining ones anew,
which one instance cannot tell from its absence.

`RelayPromised` is the safety half of `BoundGetsRelay`: while a bound connection
has no relay and its instance is connected and not late, the entry's token is
the last order on its way to the application, or the webview's page is of that
token, or the entry has consumed it and the page's link is being upgraded
(`BoundNotForgotten`). `RelayInv` adds that an entry has a relay or a token,
never both; that an idle mark means neither a token nor a connection, so
that the drop it leads to follows no order it could cancel; that a token is on its
way once (`QueuedOnce`), with nothing linked by it before it arrives
(`QueuedUnlinked`). What fairness adds is that the messages are read and the
page connects. TLC found no violation of the invariant with the run's bounds, nor
with one browser, one instance and two tokens, before it was proved.

**HubClient_proofs.** `NoChangeIsLost` is the safety half of `StaleTunnelEnds`
and `ConfigIsTried`: a tunnel of another configuration than the current one is
of an older generation, or the change has not been announced yet (`importing`)
or never will be (`unannounced`); a tunnel of an
older generation, and a client parked with something to do, has a wake that was
not taken. What fairness adds is only that the wake is taken.

**Terminals_proofs.** `TerminalsTyped`, `ShellsAccountedFor` and
`CollisionHarmless`, for any number of creates and ids: a shell that runs is in
the map under its own id, on its way in, on its way to its end, or was let go at
one of three ends (`LetGo`: a create that failed after the spawn, a close that
returned without having seen the exit, a stream that was over before the
shell). What carries it is that an entry stands under its own id
(`UnderOwnId`), that only a create which went through has a thread
(`TellersFollow`), and that a session is in no map once its thread is over, nor
before its create has inserted it, and no close has begun on it until then
(`EndsFollow`).

**Only model-checked.** Every invariant and action property of the passing runs
is stated by a theorem. Liveness and ENABLED are out of TLAPS' reach and stay
with TLC (`UnracedEditTakesEffect`, `VanishedIsDropped`, `ReplacedUnwinds`,
`BlockedGoesOffAir`, `SlotFreed`, `TasksEnd`, `ChangeReachesHub`, `HeldDrains`,
`BoundGetsRelay`, `MarkedRelayGoes`, `StaleTunnelEnds`, `ConfigIsTried`); of
four of them a theorem states the safety half (`UnracedStampVouches` and
`SetOnlyFollowsFile`, `RelayPromised`, and `NoChangeIsLost` of two). The induction over data that a
fold or a recursive definition would ask for does not occur: the models use none.

## 6. What is not modelled

`PROJECT.json` lists every component with its status. By lines, four fifths of
the implementation are engines and user interface: parsers, diff, search, the
shell, the Node stand-in, the readers of CAN traces, rendering. Their difficulty
is in their data, each call is a function of its input, and a model of them
would be their text again; this is why the share of the implementation's lines
that the models stand for stays small, while nearly all of the remote
subsystem's shared state is in them. Within that subsystem:

* **Asset caches** (`hub/src/cache.rs`, `daemon/src/cache.rs`): calls under one
  lock, one at a time. What can be wrong between them is which bodies get in,
  and that is `CachedWasSent`. An eviction that races a fetch from disk
  may remember a body again; the next eviction takes it.
* **Lifecycle** (`lifecycle.rs`, `spawn.rs`): a spawn or a restart is answered
  by any registration that comes, a second close takes over the first one's
  waiter, and both give up after their timeouts. Which process registers first
  is the operating system's.
* **Rate windows, bans, expiry** of logins: a choice to turn an attempt away.
  The order in which the link's sessions were last seen is left open.
* **Session numbers** are allocated once; the 32-bit wrap of `alloc_session`
  takes 2^32 sessions of one process.
* **Ends of a proxied body**: a body whose tunnel ends finishes for its browser
  like a complete one (`hub/src/http_proxy.rs:498`); what may go wrong with it,
  a part in the shared cache, is `CachedWasSent`.
* **Configuration, TLS, sandbox, tray, audit, codecs**: sequential or pure I/O.
* **The rest of the application's shell** (watcher, index leases, extension
  processes): debounce windows and a process per request.

## 7. The plan

Done, in order: HubTunnels, Blocklist, HubSessions, ResumableConn with
ReliableDownlink, JointLogin, RelayRouter, HubClient, Terminals, and the proofs
of section 5.

Left, in the order of what they would add:

1. HubTunnels composed with HubSessions (the registry decides which tunnel a
   new session gets), in place of the displaced-or-ended abstraction;
2. **AssetCache**: bounded size, the single flight of `daemon/src/cache.rs`,
   validators;
3. **Lifecycle**: spawn and registration against timeouts, idle exit against
   attach.
