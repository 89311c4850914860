# LAN42: verification development

LAN42 is a terminal chat and games lobby for a school campus. Every machine runs a *node*
(`campus_lan/server.py`), people open *HQ* and *game* terminals on it, nodes gossip over the LAN
(`mesh.py`), one machine may be the *verified host* (42 sign-in, announcements, file sharing, campus snapshot),
and games run in rooms on a node. This directory holds TLA+ modules translated from that code, the TLC
configurations that check them on small instances, and TLAPS proofs of the properties that matter most, for every
value of the constants. Paths below are relative to the repository; `server.py` means `campus_lan/server.py`.

1. [The system](#1-the-system) – parts, state, hard behaviour, what makes each correct
2. [The modules](#2-the-modules) – which models what, and how to read it next to the code
3. [What the runs check](#3-what-the-runs-check) – runs, bounds, fairness, findings
4. [What is proved](#4-what-is-proved) – theorems and their arguments
5. [What is not modelled](#5-what-is-not-modelled-and-what-comes-next) – and what comes next

## 1. The system

| part | state it keeps | operations | meets the others through | hard behaviour | correct when |
|---|---|---|---|---|---|
| Lobby (`server.py`, `forknite_room.py`) | `clients`, `rooms` (members, host, engine, bots, practice), one asyncio task per connection | `handle`, `command` (/game, /join, /leave, /start, /bot, /practice, upload), `leave`, `tick`, `hex_turn` | rooms own engines and web processes; broadcasts; mesh; sign-in | tasks interleave at every await, `leave()` is awaited before a seat is taken, a room dies while a task still refers to it, the web process fails | one seat per connection; members are registered; every open room has a host among its members; nobody enters a running round; ended connections are unregistered |
| Local node (`__main__.py`, `updater.py`, `serve()`) | a lock file, a reload marker, `owners`, `shutdown` | start in the background, own, reload, clean up | HQ windows that start it, HQ windows that restart | windows open and restart at the same moment; the cleanup takes longer than the wait for it; a spawner dies | no node without an owner or of an old generation stays; no window hangs on the way |
| Direct messages (`server.py`) | `last_dm`, `dm_task` of a client | /dm, /uwu, group batches | a second task next to the connection's own; mesh routing | stamps moved while a batch sleeps; sign-out and hang-up in the middle | one text per cooldown; every recipient accounted for |
| Hex Wars (`hexwars.py`, `hexbot.py`) | owner and units of cells, faults, turn | `step`, `forfeit` | `hex_turn()` runs the bots in a thread | simultaneous orders, rounding, disqualification in the turn of a battle | no owned cell without units; one winner per battle; the match ends |
| Who Said That? (`games.py`) | phase, deadline, answers, entries, votes, scores | `answer`, `vote`, `tick` | room members, lobby `tick()` | deadline against the last answer; players leave and stay counted | nobody is cut off; the round ends |
| Mesh (`mesh.py`) | `peers`, `events` | `contact`, `merge`, `poll`, `loop`, `publish`, `goodbye` | every node's lobby; other nodes | merges by the connection handler during a round of the loop; lost, late and repeated snapshots; clocks that differ | tables bounded; gone nodes forgotten; an event shown once |
| Sign-in broker (`auth.py` `Broker`) | pending flows, sessions, rates, exchange times | `begin`, `exchange`, `active`, `logout` | lobby `hello`, /signout, `tick()`; HTTPS routes; 42 API | limits checked long before what they limit is stored; replayed callbacks; expiry while the host is asked | a grant is used once; memory and provider budget bounded; connections end with their session |
| Sign-in client and relay (`auth_client.py`, `auth.py` `CallbackRelay`) | waiters of the relay, the session file of the account | `sign_in`, register, forward, sign out | broker, browser, other windows of the machine | late, repeated or foreign callbacks; a sign-out after a newer sign-in | a code reaches its own attempt; a session that a sign-out could have seen stays |
| The host that moves (`auth_daily.py`, `auth_locator.py`, `auth_server.py`) | settings, trust, published address, generation | dailylogin, set-owner, serve, stop, follow | the owner's shared files; systemd; clients | death between two files; writers without the lock | one generation serves in the end; clients follow proved moves only |
| Remote admission (`remote_access.py`) | pending and active guests | ask, decide, revoke, shut down | lobby `hello`, a control socket | a decision racing the 60 s time-out; a count read before the wait | no guest without a decision; both limits together; the expelled stay out |
| Announcements (`announcements.py`, `announcement_client.py`) | queue, decisions, feed, epoch; cursor and inbox of a window | submit, decide, poll, claim | verified clients, host console | cursors across restarts of the host; several windows of an account | published once and on approval only; heard once |
| Campus snapshot (`clusters.py`, `cluster_viewer.py`, `numbered_occupants.py`) | cache, lock, views, numbers | refresh, lookup, act on a number | threads of all windows and the host; the 42 API | a lock held for minutes; seats that change between a number and its use | the API is asked once in 30 s; an action reaches the occupant that was confirmed |
| KoelDrop (`file_sharing/`) | SQLite rows, blobs, members; a local mirror with its backups | join, invite, numbered addition, sync, receive, keep both | HTTP API, desktop clients | a write that fails half way, a lost answer, an editor at work during an exchange | rows and blobs agree; a request is served once while its name is not given away; local edits survive |
| FORKNITE web process (`minigames/forknite/`) | members, seats, keys, rounds | control requests, joins, guests | the lobby's `room_state()` | member lists out of order, timers, process exit | a key fits its member's seat; a tournament keeps its team |
| HQ window (`client.py`, `popup_permissions.py`) | inbox, flags, questions, policies | receive, consume, ask, answer, sign in | reader and sign-in threads; other windows through files | a full inbox, a thread that dies, a policy changed while a question waits | decisions on a yes only; "already waiting" ends |
| Alarms and timers (`time_tools.py`) | one file of entries under a lock | add, change, poll, ring | all windows of an account | two windows poll the same second; more due than a poll rings | a turn rings once and in its time |
| Tracking (`tracking.py`) | choices in one file; what each window saw | edit, reload, compare | campus snapshots, lobby states | stale copies written back; a change hidden by the file's time | news is news; windows come to agree |
| Quiet hours and sounds (`exam_quiet.py`, `audio_quiet.py`, `koel_sound.py`) | windows of quiet, on the host and in a file; automatic calls | read the calendar, set, tell, call | answers of the host, windows of an account | old answers after new ones; a question answered when things have changed | no sound in announced quiet or after it was turned off |
| The rest (tetris, bot sandbox, avatars, web search, completion, panels, website, scripts) | boards, images, counters | user commands | files, web services | presentation, file and network I/O | unit tests |

How the parts meet: a connection says hello to the lobby; if it comes from elsewhere it first authenticates with
the broker and is then approved by the host. The lobby is a single event loop, so all the concurrency inside a node
is between tasks suspended at awaits; threads run pure computations (bots, compilation) or requests whose results
the loop reads later. Between nodes, the mesh exchanges snapshots over TCP with time-outs of two seconds. The
windows of an account share nothing but files in their home (policies, alarms, tracking, session, quiet hours),
some under a lock and some not, and that is where most of the hazards of the client live.

`PROJECT.json` lists forty hazards of this code at their lines, and the properties that would catch each.

## 2. The modules

| module | models | read it next to |
|---|---|---|
| `LobbyRooms` | connections, rooms, seats, hosts; instantiates `RoomDirectory` | `server.py` 139–196, 298–339, 449–592, 632–857, `forknite_room.py` |
| `RoomDirectory` | abstract specification: what players see of rooms | implemented by `LobbyRooms` |
| `LocalNode` | the node windows start, own, reload and end | `__main__.py`, `updater.py`, `server.py` 689–697, 787–790, 859–905, `client.py` 1542–1585, 1773–1827 |
| `HexWars` | the rules of a match | `hexwars.py`, `hex_turn()` |
| `BluffRound` | one round of Who Said That? | `games.py` 77–125 and its calls |
| `DirectMessages` | messages, pokes and batches of one client | `server.py` 45–97, 256–273, 797–807 |
| `MeshEvents`, `MeshPresence`, `MeshConstants` | the two halves of the mesh | `mesh.py` |
| `AuthBroker` | broker, and connections on a session; instantiates `SingleUse` | `auth.py` 185–270, `server.py` |
| `SingleUse` | abstract specification: a grant is handed out, asked about and redeemed once | implemented by `AuthBroker` |
| `SignIn` | attempts, relay, browser, session file | `auth_client.py`, `auth.py` (`CallbackRelay`) |
| `HostMove` | dailylogin, set-owner, services and clients that follow | `auth_daily.py`, `auth_locator.py`, `auth_server.py` |
| `RemoteGate` | admission of remote guests | `remote_access.py` |
| `Announcements`, `HostWatch` | the desk; the windows that poll it (extends the desk) | `announcements.py`, `announcement_client.py`, `announcement_ui.py` |
| `CampusView` | snapshot, lock, views, numbered occupants | `clusters.py`, `cluster_viewer.py`, `numbered_occupants.py`, `client.py` |
| `KoelNames`, `KoelStore`, `KoelMirror` | names of additions; the host; a member's folder | `file_sharing/` |
| `KoelRegister` | abstract specification: rows with numbered names, each entered once | implemented by `KoelStore` and `KoelMirror` |
| `ForkniteServer` | seats, keys, rounds of the web process | `minigames/forknite/server.js`, `auth.js` |
| `HQWindow` | loop, inbox, threads and questions of a window | `client.py`, `popup_permissions.py` |
| `AlarmClock` | alarms and timers | `time_tools.py` |
| `Tracking` | choices and notices | `tracking.py`, `client.py` |
| `QuietHours` | quiet hours and the sounds that keep them | `exam_quiet.py`, `audio_quiet.py`, `quiet_ui.py`, `koel_sound.py`, `local_console.py`, `client.py` |
| `MCLobbyRooms`, `MCLobbyScenes`, `MCHost`, `MCMesh`, `MCKoel`, `MCErrands` | instances for TLC | |
| `LobbyRoomsProofs`, `AuthBrokerProofs` | theorems | each extends the module it names |
| `HexWarsProofs`, `HostProofs`, `KoelProofs`, `ErrandsProofs`, `MeshProofs`, `ScenesProofs` | theorems | each extends the MC module of its components, and is about the instances in it |

The comment at the head of a module says what it abstracts and names its bounds. Operators whose comment begins with
"Mutant:" are faulty variants of the definition that follows. They are used by no specification: `PROJECT.json`
pairs each property with a variant under which it fails, so each property is known to be able to fail.

*Scenes.* Components that share no state are checked together: an MC module has the variables of several
specifications and a variable `scene`, set once by the initial states; a step is one of the scene's component, and
everything else is unchanged. A property of another component's scene holds there in its initial state, so the
conjunction of its scenes is what a run shows. The one liveness property of each such module (`Settles`, `OldGoes`,
`NothingHangs`) says of each scene what must come about in it again and again; what users, crashes and the
environment do is bounded, so that is also what holds in the end.

### LobbyRooms and RoomDirectory

A task runs undisturbed from one await to the next, so an action is the code between two awaits; `frame[p]` is
where the task of connection `p` is suspended and what it does on return:

| `frame[p].at` | the await |
|---|---|
| `idle` | reading the next line in `handle()` |
| `creating` | `ForkniteRoom.create()` in /game |
| `closing` | `ForkniteRoom.close()` in `leave()`, before `del self.rooms[rid]` |
| `notify`, `status` | the broadcast in `leave()`, and the status request of `room_state()` that follows it for a web room |
| `left` | `leave()` is done; `then` says whether /leave, /game, /join or the finally clause goes on |
| `show` | `room_state()` after a seat was taken |
| `warn` | the advice to two players in /start |
| `upload` | compiling a bot in `upload_bot()` |
| `gone`, `ghost` | the task ended; as a ghost it did so without `del self.clients[pid]` |

`live` is the set of keys of `Lobby.rooms`; `rooms[r]` is the object, which outlives its key while a suspended task
refers to it. Exceptions are part of the actions: `ValueError` becomes a reply (the task is idle again), anything
else escapes `command()` and runs the finally clause (`Escape`). Left out: chat, seat invitations and their
cooldowns, /host settings.

`RoomDirectory` is what players are promised: a seat per player, a chair per open room, a chair passes only when
its holder leaves, a room goes with its last player. The refinement mapping reads a seat from the member sets and
a chair from `host`. FORKNITE is outside it: a web room whose last member is gone is still listed while the process
is closed (server.py:188), so it may be joined with an absent host and then disappear with a player in it.

### LocalNode

`win[w].at` is where a window is on its way through `main()` and `connect()`: `probing` and `waiting` in
`start_background()`, `found` and `greeting` in `Owner()`, `owner` until the lobby connection stands, `running` in
`Client.run`, `between` two lobbies, `restarting` after `owner.close()`. `node` is the process that holds the lock;
`child[w]` is what became of the server a window started. The order of tests is kept where it matters: a window
whose child lost the race for the lock gives up *before* it looks for the winner (`Confirm`), `run()` reads the
reload marker anew at every connection (`Runs`), and `restart()` waits for the lock only after the owner has left.
Time limits enter as guards: the window that started a node greets it within the thirty seconds (`Alone`), and three
seconds are enough for a node that has had an owner to see a reload, but not for every cleanup (`Lasting`). The
model assumes the Python of `setup.sh`, where leaving `async with server` does not wait for open connections.

### The games and messages

`HexWars` takes any graph for the board, so the 61 cells enter only by their neighbours. `Step` is the whole of
`step()`: faults, disqualification, all orders of one snapshot, battles with the code's integer strengths and
rounding, growth, end. `Replies` lets every bot answer anything `hex_turn()` can pass on. `BluffRound` keeps
authors instead of texts, because the points depend only on whose entry a vote names; `Tick` is part of `Answer`
and `Vote`, and a deadline is noticed only when `tick()` runs. `DirectMessages` has the two tasks of one client.
In `ForkniteServer` a list of members is sent as it was when `room_state()` ran and may arrive after later ones; a
ticket and the session it opens are one key; any arrangement may come out of a shuffle.

### The verified host

`AuthBroker` splits `exchange()` at its only await. Flows and sessions are unguessable random strings, never
repeated, and are named by the flow. `SingleUse` is what it promises about them: a grant is handed out once,
goes to the provider once and alone, and becomes a session only from there; grants and sessions may lapse in any step,
because the code drops what has expired whenever it looks. A connection is *asking* between its authentication and the host's approval.
`RemoteGate` has `admit()` up to its await and from there to the registration; a decision sets a future, so an
approved request stays pending until its task goes on, and either outcome is taken when the minute ends in between.
`Announcements` prunes first in every operation, as the code does, and a restart empties the desk under a new epoch;
`HostWatch` adds the windows: `step()` sends the cursor it has, then looks at the epoch of the answer. `CampusView`
counts ages instead of times: of the snapshot, of the last request, of each view and question. A lock that is free
is taken before the next tick. `HostMove` writes settings and trust one after the other, with a death in between,
and has set-owner as the unlocked read-modify-write it is; a service stops for a newer generation, and restarts for
a new package or settings it cannot read (`Renew`). `SignIn` has one attempt per call of `sign_in()`, whose
answers may be lost, whose window may close, and whose browser calls back late, twice or never. A sign-out reads the
session file and compares in one step and unlinks the file in another (`SignOut`, `Unlink`), with other windows in
between; a change of the host clears it whatever it holds (`Relocate`).

### KoelDrop

A transaction of the store holds its lock, so it is an action; `put()` writes and syncs a blob before its rows
commit, so it is two, with a failure or the death of the process between them. `KoelMirror` is a folder with one
courier and an editor who may act between any two steps of it: the comparison, the backup, the rename, the
installation. What the host does for it is what `KoelStore` promises; both use `KoelNames`, in which a name somebody
chose may be the one the host would assign to another file. `KoelRegister` is that promise: rows are added one at a
time and stay, a name is given once, what is sent under a given name continues its lineage, numbers grow along a
lineage, and a request enters it once. The rows of the store and the additions of the folder's flock both implement it
(`KeepsRegister`): what the folder is told by its host, and what the store tells, keep one contract.

### The windows of an account

`HQWindow` is the loop of one window: the inbox is emptied message by message, then the questions take a turn, then
one key is handled; the reader thread and sign-in threads report through the same bounded inbox. `AlarmClock`,
`Tracking` and `QuietHours` are about several windows that share a file: with a lock around read, change and write
(alarms), through a cached copy and the file's time (tracking), or by comparing the number of an answer (quiet).
`Tracking` keeps, next to what a window sees (`sight`), the last two things its user saw of each person (`told`),
which a comparison writes and nothing resets: /track and /untrack change what the window remembers, as they pop it in
the code, and the user's screen keeps what was said.

### The mesh

`MeshEvents` dates what a node knows by its monotonic clock and what was published by the publisher's wall clock,
`Skew` apart; a snapshot is merged event by event (`Take`). `MeshPresence` has a node's round in three parts, as the
loop awaits the polls and then each offline announcement; meanwhile `Greet` may replace an object that the loop
still holds (`same` tells whether it did), and the loop deletes by key.

## 3. What the runs check

All instances are exhausted. `CHECK_DEADLOCK FALSE` appears where the bounds of the instance (time, ids, messages,
events) or the system itself (a match that is over, a window that was closed) really stop.

| run | instance | shows |
|---|---|---|
| `lobby_rooms` | 3 connections, 2 rooms, Who Said That?, Hex Wars, FORKNITE; symmetric | `OneRoomEach`, `MembersAreServed`, `HostLeads`, `HexSeatsHeld` under every interleaving of the handlers and every failure of the web process |
| `lobby_scenes` | *rooms*: 3 connections of 2 people, without FORKNITE, fair; *battle*: three different bots around a centre, 3 turns, 3 units a cell, every order, pass, fault and departure; *web*: 3 seats, 3 members, a stranger; *people*: 2 windows, a tracked person; *node*: 2 windows, a reload, a crash | `KeepsDirectory` (refinement), `NoHollowCells`, `OneWinner`, `KeysFit`, `SameTeam`, `NewsIsNews`, and `Settles` |
| `host` | *broker*: 4 flows against limits of 1 and 2, 2 connections; *gate*: 3 guests, room for 2 requests and 1 guest; *desk*: a student, an admin, 2 windows with inboxes of 1, a restart; *campus*: HQ and a cluster window, 2 people | `KeepsGrants` (refinement), `Bounded`, `SessionsWithinBudget`, `GateBounded`, `Verdicts`, `HeardOnce`, `CrawlsSpaced`, `RightOccupant`, `OldGoes` |
| `mesh` | *events*: 2 nodes, one clock ahead, 3 events, caches of 2; *meeting*: 3 nodes, room for one peer; *crash*: 3 nodes that have met, one has just crashed, room for everybody | `ShownOnce` while the caches have room, `EchoesDie` also when they overflow, `GoneForgotten` |
| `koel` | *host*: 2 members, 2 files, a rate of one, one death of the process; *member*: 2 files of which one has a name the host would assign, a lost answer, a rejoin; in both, people choose names the host gives as well | `BlobsMatchRows`, `ServedOnce`, `WithinLimits`, `NothingLost`, `EditsShared`, `KeepsRegister` (refinement) |
| `errands` | *flow*: 3 windows, a relay with room for 2; *move*: 2 seats, a death; *round*: 3 players; *texts*: batches of up to 3; *clock*: 2 windows, 2 entries; *window*: an inbox of 1, 2 sign-ins; *quiet*: 2 windows, 2 answers | `OnlyItsCode`, `NewerKept`, `Followed`, `NobodyCutOff`, `TextsSpaced`, `SummaryComplete`, `RungInTime`, `Consent`, `Hushed`, `NothingHangs` |
| `bluff_round_closed`, `lobby_ghost`, `mesh_fresh`, `announce_restart`, `koel_resume`, `koel_repeat` | expected violations | findings 1–6 |

What the liveness properties say, scene by scene:

| property | scene | what comes about |
|---|---|---|
| `Settles` | rooms | a connection that ended is unregistered, so that names and places come free |
| | battle | a match ends, whatever its bots do |
| | web | a round that was stopped ends |
| | people | windows have the choices of the file, and told where the people they track sit |
| | node | the node has an owner and is of the current generation, or there is none; windows run or are closed; a window that ran when a reload was signalled has restarted |
| `OldGoes` | broker | no connection outlives its session, also if it expired while the host was asked |
| | gate | who was revoked, or is there when the host shuts down, is disconnected, also if the approval was under way |
| | campus | the cluster window shows where people sit although answers fail; HQ gives up an unanswered lookup |
| `NothingHangs` | flow | every attempt to sign in ends, and its entry in the relay |
| | move | only a service of the current generation goes on |
| | round | a round is decided |
| | texts | a batch is over |
| | clock | no entry that is due is left waiting |
| | window | "already waiting" ends |
| | quiet | windows say what is so, and know that the calls are off |

Why the bounds are enough for what they ask:

- *Lobby.* A race needs one task suspended inside /join or /game and one or two that change what it read, hence
  three connections; two rooms let one be left while the other is entered, and closed by one task while another
  sits in it. `HexSeats = 3` with the practice bot makes the last seat contested. Tetris has no await of its own: it
  is an engine that starts and ends like the others. Symmetry is sound: ids are compared, never ordered, and the
  symmetric run checks invariants only.
- *Local node.* Two windows race for one lock, share the node and leave it in either order; three visits open both
  and let one travel, restart or come back; one reload has a before and an after for each of them.
- *Web process, tracking.* Two lists on the way can overtake each other; three members around three seats make
  each arrival an eviction, a stand-in or a free seat. Two events are one edit in each window, or an edit and a move.
- *Hex Wars.* A star with three arms is the smallest board with a three-sided battle and with battles in which
  the owner also sends units away. Each bot leads in one attribute, so every term of a strength matters. Three
  turns are needed for the third fault, which is then the last turn.
- *Host.* MaxPending 1 and MaxSessions 2 are both reached and both overrun in between; four flows allow two
  sessions, a pending grant and a replay; the horizon is past every expiry twice. At the gate one guest more than
  the room for requests is refused, and two approvals pass the same count. At the desk an announcement can be
  published before and after a restart, and an inbox of one is full at the second. On campus two people exchange
  seats between a number, the question about its occupant and the yes.
- *Mesh.* An event needs two nodes to come back to one that showed it; Life 3 with Skew 1 has acceptance end
  before and after memory does; three events overflow a cache of two. For presence the third node is needed because
  two others must be able to remind each other of it. The crash scene starts after the crash (`JustCrashed`), a state
  of the full specification: every pair polls once, all ages are 0, all loops rest, and the third crashes.
- *KoelDrop.* One member more than places, one file more than the rate of a window; a member's file whose own name
  equals an assigned one is the only way two paths of a mirror can meet. `koel_repeat` needs three additions: the
  request, the one that is given its name, and the request again.
- *Errands.* Two windows per shared file, one inbox place per two sign-ins, one waiter less than windows; cooldown 2
  and spacing 3 keep the order of 2 and 2.05 seconds; a batch of three has a first, a middle and a last message.

### Fairness, and why the code justifies it

The specifications of the modules state their own fairness. Where scenes are joined, one condition of the MC module
(`Leading`, `Following`, the first of `MCHost`) is a disjunction with one process of each scene: in a given scene it
is the condition of that process alone. Where several processes of one scene share a condition (attempts to sign in,
the node with its windows), that assumes less than a condition for each.

- `LobbyRooms`: WF of `Resume(p)`, one for each task. Each await in `handle()` is bounded: drains by two
  seconds, control requests by three, the web process is killed after five. Reading a line is not fair:
  clients may stay silent for ever.
- `LocalNode`: WF of what programs do by themselves: polling, connecting with time-outs, the watcher (0.2 s), the
  thirty seconds, the cleanup. Users, crashes, kills and signals are not fair.
- `ForkniteServer`: WF of the end of a native run, which is killed on a stop. `Tracking`: WF of a window's look at the
  file, and of its polls; answers that are lost are not assumed to stop, their number is bounded.
- `HexWars`: WF of `Turn` (in `Leading` of `MCLobbyScenes`): `tick()` calls `hex_turn()` again whenever none is running; a bot that does not
  answer is a fault. `BluffRound`: WF of time and of `tick()`, every 0.2 seconds; nothing is assumed of players.
  `DirectMessages`: WF of time and of the batch task; routing ends by socket time-outs.
- `AuthBroker`: WF of time, of the sweep in `tick()`, and of the approval, which ends by its 60 seconds.
  `RemoteGate`: WF of time, of a task that can go on, and of the end of a shutdown. `CampusView`: WF of time, of a
  thread (API requests have time-outs), and of a window's loop; typing is not fair. `Announcements` and
  `HostWatch` need none: their properties are about safety.
- `MeshPresence`: WF of time, of every node's loop, of its polls (two seconds each) and of a goodbye; nothing is
  assumed of greetings.
- `KoelMirror`: WF of a pass: the courier thread makes one again and again while it is joined.
- `SignIn`: WF of an attempt's steps and of the relay, whose waiters and connections have deadlines. `HostMove`: WF of
  a service's start and stop (systemd, and its own watch of the files); dailylogin may never run again.
- `AlarmClock`: WF of time and of a write that holds the lock; SF of a poll and of its write: a window looks once
  a second, and a lock that other windows keep taking is free again and again. `HQWindow`: WF of the loop, at least
  every 80 ms, and of threads with time limits. `QuietHours`: WF of a window's turn.

### Findings

1. `bluff_round_closed`: /join of a Who Said That? room checks that no round runs, then awaits `leave()`, then looks
   only at Hex Wars again; a /start in between is entered although the lobby says "Round running. Join after the
   reveal." (server.py:328).
2. `lobby_ghost`: a status request to the FORKNITE process that fails inside `leave()` in the finally clause of
   `handle()` skips `del self.clients[pid]`: the closed connection keeps its name and one of the 32 places.
   Without FORKNITE connections are unregistered (`Settles`).
3. `mesh_fresh`: the mesh loop awaits the announcement that a stale peer is offline and then deletes its key,
   although that peer may have greeted meanwhile; a fresh peer disappears, with its players, until the next contact.
4. `announce_restart`: a window asks the restarted host with the cursor of the old epoch and then moves its cursor to
   the last entry it was given, past those that were filtered (announcement_client.py:96).
5. `koel_resume`: after a rejoin an edited file that was uploaded before is sent as a new request, and added a
   second time (file_sharing/client.py:56).
6. `koel_repeat`: `put()` looks for the earlier request under the source that the name leads to at the time. If the host
   gives that name to another file between two sendings of one request, the name leads elsewhere, the second sending is
   not recognized and its file is added again (file_sharing/store.py:212), although "A repeated identical upload
   request returns its prior receipt rather than allocating another file" (docs/file-sharing-design.md:151). That
   there is no other way is `ServedOnce`.

Met while modelling, and kept as notes, as exceptions that the properties name, or as properties stated in a module
and not listed:

- *Lobby.* The limit of ten rooms is read before two awaits, so parallel /game commands exceed it (server.py:302);
  a web room is joinable while it is being closed (188); the two-player advice is awaited and the players are not
  counted again (515); /uwu does not look at a running batch (259). FORKNITE member lists that arrive out of order
  leave the web process with an old list until the next change (171).
- *Local node.* Two windows opened (or reloaded) at the same moment each start a server; the window whose child
  loses the lock ends with "Server could not start" although a node is up, because it looks at its child first
  (`__main__.py`:67). An owner who comes while the node is about to close is told `owner_ready` and loses it right
  after, because `shutdown` is never cleared (server.py:692, 788); `__main__.py`:72 says it stays alive. A reload is
  missed by a window that is between two lobbies (`missed`; client.py:1543). After three seconds `restart()` goes on
  although a node in its cleanup (two seconds of goodbyes, five for a web process) still holds the lock.
- *Mesh.* An overflowing event cache forgets an event that still travels, so that it is shown again (mesh.py:107).
- *HQ window.* A notification that is queued drops decisions that wait in its category, and a full queue drops them,
  too (`DecisionsAsked` of `HQWindow` does not hold; popup_permissions.py:138, 155 against permission_setup.py:30);
  the question about the volume that was dropped this way is never asked again (local_console.py:128). A sign-in
  thread that dies on an `HTTPException` leaves "already waiting" for ever (client.py:1370; `dead`).
- *Alarms.* `/alarm on 9999-...` makes the file unreadable for every window (`FileReadable` of `AlarmClock`;
  time_tools.py:161 against 219).
- *Host.* set-owner and renew-credentials read, change and write the settings without the lock that dailylogin takes
  (auth_server.py:308). The event loop of the host waits for the lock of the campus snapshot (server.py:109).
- *Sign-in.* `clear_session()` reads, compares and unlinks without a lock, so that a session saved by another window in
  between goes with the old one (`since` in `NewerKept`; auth_client.py:121–126), although its comment says "An old
  game window must not delete a newly authenticated session" (118). `change_host()` and the locator clear whatever
  session is there (auth_client.py:87, auth_daily.py:47).
- *Campus.* A number typed before the first snapshot, whose lookup fails, stops the refreshes of the cluster window
  (`Stalled`; cluster_viewer.py:144, 173, 182). HQ loads its snapshot once, so its numbers are those of the first one
  although the message asks to "Refresh and enter the number again" (client.py:1222, numbered_occupants.py:68).
- *Tracking.* `save()` writes a stale copy over another window's edit, and the time noted after the write may hide
  one (`missed` in `KeptUp`; tracking.py:67–75). /untrack of somebody whom a rule still covers makes the window forget
  where it saw them, so that the next comparison announces the same seat again (tracking.py:85; docs/campus-guide.md:251
  says changes are reported "once"); `NewsIsNews` names it as its exception, and no other.

## 4. What is proved

The theorems hold for every value of the constants that satisfies the module's named assumption: for any number
of connections, rooms, cells, players, flows, guests, windows, nodes and events, and any limits. Every safety
property of a passing run is stated by a theorem.

Components that are checked in scenes are proved about as the instances that the MC module makes of them (`Battle!Spec`, `Gate!Spec`,
`Mirror!Spec`, `Alarm!Spec` ...), because the properties of the runs are those of the MC modules. An instance has
the constants of its module, and the theorems assume of them what the module's assumption says and nothing of their
values in the `.cfg`; only the constants that an `INSTANCE ... WITH` replaces by an expression are what it says (the
initial choices `Kept` of `Track`; clocks that end one or two hours before the broker's).

| module | about | theorems | inductive invariant |
|---|---|---|---|
| `LobbyRoomsProofs` | `LobbyRooms` | `TypeCorrect`, `OneSeat`, `SeatedAreServed`, `RoomsAreLed`, `NoLateArmies`, `SeatsHeld`, `DirectoryKept` | the properties, and `MoversAreSeatless`, `TasksAreRegistered`, `HostsAreKnown`, `ByeOnlyLeaves` |
| `HexWarsProofs` | `HexWars` | `HexTypeCorrect`, `NoHollowCellsEver`, `DisqualifiedForGood`, `OverWhenDecided`, `ConquestsAreMarches`, `OneWinnerEach` | the four state properties together |
| `AuthBrokerProofs` | `AuthBroker`, `SingleUse` | `BrokerTypeCorrect`, `GrantsUsedOnce`, `BrokerBounded`, `NothingReplayed` | `TypeOK`, `Apart`, `Finite`, `Bounded` |
| | | `SessionsPaidFor` | these, and `Lived`, `Paid`, `Budget` |
| | | `GrantsKept` (refinement), `GrantsInOnePlace` | the first, and `Once` of `SingleUse` |
| `HostProofs` | `RemoteGate` | `GateTypeCorrect`, `GuestsBounded`, `OnlyApproved` | `TypeOK`, `Counted`, `GateBounded` |
| | `Announcements` | `VerdictsStand` | `Form`, `Undrawn`, `Verdicts` |
| | `HostWatch` | `NewsHeardOnce` | these, and `FeedForm`, `OneEpoch`, `Claimed`, `Passed`, `Single` |
| | `CampusView` | `CrawlsApart`, `OccupantIsRight` | `CrawlInv` for the first |
| `KoelProofs` | `KoelStore` | `StoreTypeCorrect`, `RowsHaveBlobs`, `LimitsHold`, `NamesGivenOnce` | the properties, and `OwnBlob`, `Rated`, `MembersBounded`, `NewName` |
| | | `RequestsServedOnce` | `Traced`, and `Keyed` of the register |
| | | `HostKeepsRegister` (refinement), `KeysKept` | `StoreInv` of the first, and `NewFits` |
| | `KoelMirror` | `NothingIsLost` | `Filled` and the property |
| | | `MemberSeesRegister` (refinement), `RegisterKept` for both sides | these, and `Named` |
| `ErrandsProofs` | `SignIn` | `CodesStayApart`, `SeenSessionsKept` | `OwnCallback`, `OwnCode`, `RoomKept`, `SavedDone`, `SeenOrSince` |
| | `HostMove` | `HostFollowed` | `LoginAlone`, `SettingsLater`, `NoOlder`, `AppliedRuns`, `InService`, `ProvedFirst` |
| | `BluffRound` | `NoPhaseCutShort` | times and players are what they should be |
| | `DirectMessages` | `EveryoneCounted`, `TextsApart` | `Stamped`, `Counting` |
| | `AlarmClock` | `TimersExact` | `Sound` of each entry, `Places`, `Unmade`, `Locks` |
| | `HQWindow` | `Consented` | `Questions` and the property |
| | `QuietHours` | `HoursKept` | `OwnNumber`, `FileCovers` and the property |
| `MeshProofs` | `MeshEvents` | `EventsShownOnce`, `SeenIdsRetained`, `OldEventsDie` | `Dated`, and `AllSettled` while the caches have room |
| | `MeshPresence` | `PeerTablesBounded` | finite tables and finite snapshots under way, within the bound |
| `ScenesProofs` | `ForkniteServer` | `KeysOpenOwnSeats`, `TeamStays` | `WebForm` and both properties |
| | `Tracking` | `ToldOnce` | `TrackRight`: what was said last is what is seen, or that the window let go |
| | `LocalNode` | `LeftNodeCloses` | `NodeForm`, `TypeOK`, `Unmet`, `LastOwnerCloses` |

The arguments, in short:

- *Lobby.* `OneRoomEach` alone is not inductive: a task that takes a seat after `leave()` must not have one.
  `MoversAreSeatless` says that of every suspended task, and why: `leave()` removed it from the only room it was in,
  and nothing else seats another task's connection. `MembersAreServed` needs that a task past the handshake is
  registered, and that the finally clause only leaves (`ByeOnlyLeaves`). `HostLeads` needs the chair to be
  passed in the same step that empties it, and the closing window to be the only exception. `SeatsHeld` (for
  `HexSeats > 0`) rests on the second look of /join at the room, in the same turn in which the seat is taken.
- *Lobby and directory.* `DirectoryKept` assumes that no FORKNITE room can be made, for the reason given in section 2.
  The proof shows for each action who has a seat and which chair changed before and after: an action moves at most
  one connection, and `leave()` passes the chair or drops the room in the step in which the seat is given up.
- *Hex Wars.* The order takes at most all units but one (`GarrisonStays`), a winner's margin is positive and its rounded
  quotient is therefore at least one (`CeilDivPositive`), growth never takes (`GrownSound`). `OneWinnerEach` is about
  sums over any number of players: of two winners each would be stronger than the sum of its opponents, which
  has the other among them. The sum of the model is the recursive one of the community modules; `SumExists` shows
  that a finite set has it (there is no least set that has none), and `SumCovers` that it is no less than any member.
- *Broker.* A grant is in one of three disjoint sets (`Apart`). `begin()` looks at pending and at sessions
  apart from each other, and `exchange()` adds without looking; their sum is nevertheless bounded, because a new
  session was a grant before, only one grant is at the provider at a time, and grants are added only below both limits.
  For `SessionsPaidFor` it is not enough to count the sessions that live: `Paid` says for *every* instant of the last
  hour that the sessions begun since are at most the exchanges made since, plus one while none is under way. That one
  was exchanged before the instant and came back after it; there is one only, because one exchange is made at a time.
  `GrantsKept` maps every action to one of `SingleUse`, of which `GrantsInOnePlace` is proved by itself.
- *Gate.* Active guests are not counted when one is added, but an approval only moves a socket from one dictionary
  to the other: the sum grows only in `Ask`, which looks at both.
- *Announcements.* Numbers that were not drawn yet are neither requested nor published, so a new one is not
  published twice; pruning forgets and expires requests and changes no verdict. For the windows, everything a window
  has seen of the present feed is at or below its cursor (`Passed`), an announcement belongs to one epoch, and a line
  or a popup was claimed in it; what the poll answers is above the cursor, and is therefore new.
- *Campus.* The lock of a process is held by at most one asker, which took it when the snapshot was too old; nothing
  but its own answer renews the snapshot before it lets go. `OccupantIsRight` is one step of
  `Yes`: number, person and seat of the question are one row of the roster that is on the screen then.
- *KoelDrop.* Names can be taken apart (`<<stem, login, number>>`), so two assigned names are equal only if stem, login
  and number are; some number is free, because rows are finite in number (`Extremes`, `NumberFree`).
  The row under way is part of every invariant, because the process may die before it commits. A crash
  leaves at most the one object whose row was under way. `RateKept` counts rows in *every* minute, not only the last.
- *KoelDrop requests.* A row is filed under the name it was sent to, or under the source of a file that has that name
  (`Traced`). Two rows of one request therefore have one source, which `Keyed` forbids, unless the name was given to a
  file between them. The theorem holds whatever names people choose.
- *KoelDrop register.* Between the choice of a name and the commit of its row the store holds its lock, so that the row
  still fits the rows when it joins them (`NewFits`). That the number is above the whole lineage is arithmetic about
  the largest of a finite set (`NumberFree`). For the folder it must be known that all names are names (`Named`), and
  that others add contents nobody has sent. `KeysKept`, the primary keys of the tables, follows from the register alone:
  within one lineage a request is always recognized.
- *KoelDrop folder.* The invariant is `NothingLost` itself, and that no file, addition or operation under way is
  without content; a step that takes a file from the folder puts it among the backups, and one that puts a file where
  another may be (a link) leaves that one alone.
- *Sign-in.* The entry of an attempt holds nothing or a callback of that attempt (`OwnCallback`), so what is read from
  it is its own; the file names an attempt that has saved. While a sign-out is between its look and its unlink, the
  file is empty, or has its own session, or one saved since (`SeenOrSince`).
- *Moving host.* Settings are never older than what was applied, also when dailylogin writes back what it read before
  a set-owner wrote (`SettingsLater`); what a dailylogin waits for is of its seat and no later than the settings
  (`NoOlder`). The lock makes that one dailylogin; the unlocked set-owner is why both facts are about inequalities.
- *Messages.* The stamp is that of the last text or later, because /dm and /uwu move it also when nothing is sent;
  a batch wakes a cooldown after the last text even so (`Stamped`, with `Cooldown <= Spacing`).
- *Alarms.* What a window with the lock holds is the file as it is (`Locks`); the turns of an entry that are to come
  have not rung (`Unrung`), and what a timer has left is what the clock has still to go, or what its pause keeps (`Exact`).
- *Window.* What may be asked is typed by its act and its stage; a policy is read in the step that carries it out.
- *Quiet.* An answer has a number of its own, and what is left of the newest one is in the file (`FileCovers`), whatever
  order answers arrive in; a sound is decided in one step with the file it has read.
- *Mesh events.* The invariant relates two clocks: a node learned of an event no earlier, by its monotonic clock,
  than the wall clock of that node allows the event to be fresh. A node that would accept it still therefore
  remembers it. That two readings of a monotonic clock differ is a guard of `Learn`. `OldEventsDie` needs neither
  memory nor room: what is too old by every wall clock is taken up by none.
- *Mesh presence.* `merge()` computes the room that is left for addresses after the sender's entry (`MergeBound`).
- *FORKNITE.* Ranks in a set of seats are different (`RankApart`), so that the arrangement after a shuffle seats each
  member once; keys move with their members, or are dropped with them.
- *Tracking.* `TellsRight`: a comparison says where a person is if the last word was another, and is silent if the
  window saw the person there before; /untrack and lost rules are noted as letting go, and nothing else is.
- *Local node.* A node that is starting has met nobody (`Unmet`), so the first greeting finds it up; whoever leaves
  last, or is gone when his greeting is answered, sets `shutdown`, which nothing clears.

Sets are counted with FiniteSetTheorems; where a set of numbers needs a largest member, or a recursive sum must exist,
the proof takes a smallest counterexample (WellFoundedInduction with the strict-subset ordering), which needs no
operator parameter. The invariants were checked by TLC before they were proved.

Only model-checked: the liveness properties `Settles`, `OldGoes`, `NothingHangs`, `GoneForgotten` and
`EditsShared`, because liveness under fairness and ENABLED are out of the prover's reach; and the six properties
that are violated. No module that is proved about declares a recursive operator.

## 5. What is not modelled, and what comes next

Not modelled, with the reason in `PROJECT.json`: the Tetris board, the WebAssembly sandbox and its SDK (a bot of
`HexWars` may answer anything), avatars, web search and its counters, releases, the website, tools and scripts. Of
parts that are modelled: presentation, completion and panels of the client; parsing, TLS and pages of the HTTPS
routes; the rules that say who is host, operator or member, and their migration; lists, groups and cohorts of
tracking; private groups and history of KoelDrop; the philosophers' moves and the pages of FORKNITE; the
directory of students and the file lock that spaces API requests of several processes; mini-application windows and
/connect between nodes.

What the modules leave out of the code they model, besides what their own comments say:

- `AuthBroker`: the refusal at 512 rate entries, without which the model grants more; a connection that the policy
  refuses goes as one that quits. `RemoteGate`: `admit()` is not reached once the gate is closed, because the
  listeners close first. `KoelStore`: the limit of 32 outstanding invitations, and the host's own row.
- `MeshPresence`: a merge is one step, although it awaits broadcasts of the players it found (mesh.py:80–93);
  `Greet` in the middle of a round of the loop is where finding 3 comes from. `AlarmClock`: a poll samples the time
  when it has the lock, while the code samples it just before (time_tools.py:189, 235, 253).
- `ForkniteServer`: a list of members that fails half-way leaves more keys than the model's, and no fewer. `KoelMirror`:
  the quota of the backups, and answers about conflicts.

What is left of the plan, in this order:

1. The spacing of API requests across processes (`api_pacing.py`) under `CampusView`, and the campus directory.
2. Private KoelDrop groups with their history, each group a register of its own.
3. `Mesh.direct` between nodes, composed with `DirectMessages`.
4. Proofs: an abstract specification of the gate (asked, approved, served, out) and of the desk, and their refinements
   as `SingleUse` has one; `KeepsDirectory` with FORKNITE rooms, for a directory that lets a room close under its
   last player; the presence half of the mesh (who is in a table was heard of by a poll or a greeting).
