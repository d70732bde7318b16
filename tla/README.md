# Verification of the IDS-connected firewall

The program watches packets, raises alerts, and turns alerts and operator
requests into entries of a custom iptables chain (`IDS_FIREWALL`), with an
SQLite database as its record. This directory holds TLA+ models of it, the TLC
configurations that check them, and proofs checked by TLAPS.

## 1. The system

| Component | Source | State it keeps | Operations | Hard about it |
|---|---|---|---|---|
| Decision engine | `decision/engine.py` | whitelist, threshold | `process_alert` | five awaits between the check for an existing block and the iptables call; commits before it enforces |
| Firewall manager | `firewall/manager.py` | the kernel's chain | `add_rule`, `remove_rule`, `remove_rule_by_ip`, `flush_chain`, `init_chain` | commands may fail and are only logged; line numbers go stale; substring match on addresses |
| Reconciliation | `firewall/sync.py`, `lifespan` in `main.py` | - | `reconcile` | runs only at startup; may be cut by a crash |
| Scheduler | `firewall/scheduler.py` | - | `expire_temporary_blocks`, `maintain_database_health` | acts on rows selected before its awaits; one exception rolls back the batch |
| Firewall API | `api/routes_firewall.py` | one session per request | create, update, delete, block, unblock | check-then-insert; iptables before the commit |
| System API | `api/routes_system.py` | reset lock | `reset_system_data`, status | select, act, delete by condition |
| Database | `db/` | `firewall_rules`, `blocked_ips`, `alerts`, `users` | sessions, commit, rollback | one write lock, busy timeout, reused row ids, page limit |
| Detection pipeline | `main.py` | `packet_queue` | `detection_pipeline` | unbounded queue; an exception of the last broadcast ends it |
| WebSocket manager | `api/websocket_manager.py` | connection set | connect, disconnect, broadcast | the set changes while broadcast iterates over it |
| Detectors | `detection/` | windows, cooldowns and SYN rates per address | `analyze` | packets whose stamps are out of order; boundaries of windows; a cooldown that hides the next report |
| Sniffer, packet events | `sniffer/` | counter, 1000-packet buffer | capture, record, reset | a thread of its own |
| Traffic generator | `api/routes_generator.py` | one request's loops | `generate_traffic` | puts bursts into the queue between the sniffer's packets; must cross thresholds it does not own |
| Retention | `firewall/scheduler.py` | count, ids selected | `maintain_database_health` | acts on a count and ids it read before its awaits |
| Authentication | `api/routes_auth.py`, `api/dependencies.py` | `users` | `register`, `login`, `get_current_user` | check-then-insert; the answer is sent before the commit |
| Statistics, reports | `api/routes_stats.py`, `api/routes_report.py` | - | counts, threat level | one SELECT per figure |
| Alert list | `api/routes_alerts.py` | - | queries, `/ws/alerts` | read-only but for the endpoint |
| Dashboard | `static/js/` | sockets, timers, tables | reconnect, correlate | timers race with closes |

All Python runs on one asyncio loop, so handlers interleave exactly at their
awaits: each database call, each iptables subprocess, each broadcast. A SELECT
takes no lock. The first INSERT, UPDATE or DELETE a session sends takes SQLite's
single write lock, which the session keeps, across its other awaits, until it
commits or rolls back. Request handlers commit after they return (`get_db`; with
the pinned FastAPI even after the answer was sent), so they tell iptables first
and the database second; the decision engine and the
expiry job do it the other way round or in between. That is where most of the
hazards in `PROJECT.json` come from.

What makes each part correct: whitelisted addresses are never filtered; a blocked row
always has its rule; the chain has exactly the entries of the active rules, and in
priority order; temporary blocks end; a restart repairs what a crash left; every
packet is evaluated by every detector, recorded, then shown; an alert id in a packet
is one under which an alert about it was stored; a client that is connected is told
everything; a burst is reported however its packets were queued, and only a burst is;
an address once blocked stays so until somebody asks or its time has come; retention
takes the oldest alerts first and no more than it must; an account that was granted is
kept, and the figures of a page are those of alerts that were there.

## 2. The modules

| Module | Models | State |
|---|---|---|
| `FirewallChain` | `firewall/manager.py`: what each iptables command does to the chain, which addresses the listing matches | none, operators on a sequence of entries |
| `WriteLock` | `db/database.py`: SQLite's one write transaction, commit and rollback | `db` (committed), `tx` (lock owner and what it sees) |
| `RuleStore` | `db/models.py`: the two tables behind enforcement | - |
| `Enforcement` | every handler that changes rules, concurrently, with startup, time, crashes | `phase`, `whitelist`, `chain`, `ses` |
| `Quarantine` | abstract: what an operator may rely on about the list of blocked addresses | `status`, `named`, `due` |
| `WebSocketHub` | `api/websocket_manager.py` and the endpoint: the connection set and the broadcasts walking over it | `socket`, `connections`, `sending` |
| `Pipeline` | `detection_pipeline` in `main.py`, with what of `process_alert` raises or announces, the recent packets, and the deletion of alerts by retention and resets | `queue`, `task`, `alerts`, `doomed`, `clearing`, `buffer` |
| `SlidingWindow` | the deques of `detection/`: append at the tail, expire at the head | none, operators on a sequence of entries |
| `Detection` | the detectors: windows, thresholds, severities, cooldowns, the SYN flood's baseline, signatures | `clock`, `windows`, `alerted`, `rates`, `rated`, and the histories `sent`, `alerts` |
| `TrafficSources` | the sniffer and `generate_traffic` putting into one queue | `scene` (what traffic is still to come), `job` (the generator's request) |
| `Records` | alerts and accounts: the pipeline's inserts, retention, `register`, `login`, statistics, the reset's purge, lock timeouts, crashes | `up`, `crashes`, `raised`, `job`, `req` over `WriteLock`'s `db`, `tx` |
| `MCEnforcement`, `MCPipeline`, `MCTrafficSources`, `MCRecords` | values for TLC | - |
| `FirewallChainProofs` | lemmas on the chain operators | - |
| `EnforcementProofs` | type correctness and the whitelist invariant | - |
| `StoreProofs` | the write lock and the engine's check-then-insert; blocked rows and their rules | - |
| `PipelineProofs` | hub and pipeline | - |
| `QuarantineProofs` | the refinement of `Quarantine` | - |
| `ChainProofs` | what the chain holds: after a restart, and between operations | - |
| `RecordsProofs` | alerts and accounts | - |
| `DetectionProofs` | deques, cooldowns and alerts of the detectors; what the generator triggers | - |

`Enforcement` EXTENDS `RuleStore`, which EXTENDS `FirewallChain` and `WriteLock`;
`Records` EXTENDS `WriteLock` too: the same transactions over other tables, alone,
because no decision about rules reads an alert or an account. A step is the
code between two awaits. `ses[s]` is the handler under way in session `s`: `pc`
its place, `held` the rule objects it loaded (which stay what they were when they
were loaded; that is the point), `rule`, `row`, `ip`, `lines` the other locals
read after an await. Sessions are the request slots `Clients`, `"pipeline"`,
`"expiry"` and `"startup"`.

`Pipeline` EXTENDS `WebSocketHub`. The two halves meet in the engine: `Enforcement`
has what an alert does to tables and chain, `Pipeline` which of its exceptions
ends where, what it announces and in which order. `task` is the detection task
(`pc`, the packet `pkt` in hand, how many detectors it `asked`, the `alert` in
hand); `sending[s]` the broadcast task `s` is in, from one send to the next: the
sockets `left`, the `size` the iterator remembers, the `dead` sockets. `doomed` are
the ids the retention job has selected, `clearing` says that a reset has committed
and not yet emptied the recent packets. `shown`, `recorded`, `deleted`, `forgotten`
and the field `seen` of a packet are histories.

`TrafficSources` EXTENDS `Detection`, which EXTENDS `SlidingWindow`. No detector
awaits inside `analyze`, so a packet is one step of all detectors, whoever put it
into the queue; what makes the order of stamps hard happens before, and is the
part of `TrafficSources`.

Correspondence, handler by handler:

- `process_alert`: `AlertFlush` (alert flushed, lock taken), `AlertOnly`
  (whitelisted, below threshold, already blocked, or the broadcast raised),
  `AlertBlocks` (the decision), `AlertInsert` (rule, blocked row, commit or a
  rollback), `AlertEnforce` (iptables).
- `expire_temporary_blocks`: `ExpirySelect`, then per rule `ExpiryUnhook` and
  `ExpiryMark`, then `ExpiryCommit`.
- `create_rule`: `CreateFlush`, `CreateApply`. `update_rule`: `UpdateLoad`,
  `UpdateUnhook`, `UpdateFlush` (the UPDATE writes only columns that changed),
  `UpdateApply`. `delete_rule`: `DeleteLoad`, `DeleteUnhook`, `DeleteFlush`.
  `block_ip`: `BlockCheck`, `BlockInsert`, `BlockApply`, `Announce`.
  `unblock_ip`: `UnblockSelect`, `UnblockLoad`, `UnblockList`, `UnblockLine` per
  line, `UnblockLinesDone`, `Announce`, `UnblockCommit`. The rest end in
  `RequestCommit`.
- `reset_system_data`: `ResetLoad` (with the 409 of the lock), `ResetUnhook` per
  rule, `ResetPurge`.
- `lifespan`: `StartFlush`, `StartLoad`, `StartApply` per rule, `StartServing`.
- `LockTimeout` ends a handler that waited for the write lock; `TimePasses` makes
  an expiry time past; `Crash` ends the process anywhere, keeps or empties the
  chain and re-reads the whitelist.

- `detection_pipeline`: `Take`; per detector `DetectorQuiet`, `DetectorRaises` or
  `DetectorAlerts`, which flushes and begins the broadcast; `AlertNotFlushed`,
  `AlertLost`, `DecisionFails`, `BlockNotAnnounced` (process_alert raised at the
  flush, at the first broadcast, at the commits, at the second broadcast);
  `AlertAnnounced`, `KeepAlert`, `BlockSource`, `AnnounceBlock`, `BlockAnnounced`;
  `Record`; `TrafficSent` or `TrafficRaises`, after which the task has ended.
- `WebSocketManager` and `/ws/alerts`: `Register`, `Refuse`, `PeerLeaves`,
  `Disconnect`; `Begin`, `Send`, `Returns`, `Raises` are `broadcast` cut at its
  awaits. `RequestBroadcasts` and `RequestEnds` are the handlers that broadcast.
- `Arrive` is the sniffer thread (which leaves the put to the loop) and the
  generator. `NextIds` are the ids SQLite gives a new alert, `Unlocked` says that the
  pipeline does not have the write lock.
- What deletes alerts beside the pipeline: `ResetPurges` and `ResetClears` are
  `reset_system_data`, the commit of its deletes and, an await later, the recent
  packets; `ResetSession` is `reset_traffic_session`, which empties only these;
  `SelectDoomed`, `PruneDoomed` and `PruneFails` are `maintain_database_health`.
- `analyze` of the six rate detectors and of the signature detector: `Analyze(p)`,
  for each track (a kind of attack and a source, and a port for brute force) its
  deque, its cooldown and its alert; `Reaching` is crossing the threshold,
  `Deviating` the standard deviation of the SYN flood, `Matched` a signature.
- `generate_traffic`: `Ask`, then `Put` packet by packet, `Answer`; `Plan` is the
  loops of each attack. `Sniffed` is a packet of the sniffer, stamped by the thread.
- `maintain_database_health`: `CountAlerts`, `SelectOldest`, `Prune`, `PruneCommit`,
  `JobTimeout`; `Doomed` are the alerts it selects, resolved ones first. `register`:
  `Register` (the caller is looked up), `CheckName`, `InsertUser`, `AnswerUser`,
  `CommitUser`. `login`: `Login`. `get_stats`: `OpenStats`, `ReadStats` per query,
  `AnswerStats`. `reset_system_data` once more, for the alerts: `Reset`, `Purge`,
  `PurgeCommit`, `Compact`, `Compacted`. The pipeline's alert: `FlushAlert`, then
  `KeepAlert` or `DropAlert`. `Start` is `lifespan` with the default administrator,
  `Crash` the end of the process.

Abstractions, each with its reason:

- Alert rows, texts, timestamps and TTL values are left out: no decision about
  rules reads them. An expiry time is `never`, `later` or `due`.
- `rule_id` of a blocked row is never NULL in the code's inserts, so `BlockedIP`
  has no NULL there; one of the mutants shows what happens if it could be.
- An iptables command is one step that happens or fails (`Failing`); the
  environment is Linux with iptables installed. On other hosts `_run` does
  nothing and the chain stays empty, a behaviour of `Failing = {"add"}`.
- A broadcast is an await that may raise (`BroadcastFails`).
- A Python set is a set; its order is any order. When it grows its table may be laid
  out anew, so a walk then has any part of it ahead. CPython compares sizes only:
  a join and a departure between two sends go unnoticed, as in the model.
- A send to a socket whose peer has left may still succeed or raise.
- Retention and the reset are in `Pipeline` as far as they delete alerts and empty
  the recent packets; of the reset its commit and what follows, of retention the
  select and the delete. `Records` has both step by step, with the lock, timeouts
  and crashes.
- A packet of `Detection` is what detectors read of it. Which text a signature's
  expression matches is the packet's set `sigs` of rule numbers; the generator's
  payloads carry the rules that match them.
- Clock units are small integers. A packet is stamped at most `MaxLate` before the
  newest one so far: the thread hands it over some turns of the loop later.
- The variance of the SYN rates is kept as `n*q - s*s`, so that the comparison with
  the deviation needs no fractions; both sides are squared.
- Alerts of `Records` are numbered in the order of their time stamps; the clock is
  taken not to be set back there. Their ids are given out again as SQLite does.
- Of the statistics, the counts by day, type, address, port, protocol and hour read
  the same rows between the ones that are modelled and decide nothing.
- What a detector returns is any severity of `Verdicts` or nothing; packets are
  numbers with a claimed level, an alert id and the detectors that saw them.
- Row ids are `1..MaxRules`; beyond, the database is full (`max_page_count`).

## 3. The runs

| Run | Question | Bounds | Result |
|---|---|---|---|
| `races` | Is the database consistent whatever interleaves? | 2 requests, engine, expiry job, at most 2 handlers at once, 2 rows per table, every failure allowed, empty chain | holds (524 k states) |
| `serial` | Do operations one at a time, with crashes inside them, respect the whitelist, leave no orphan, heal, and keep what `Quarantine` promises? | 1 handler at once, 2 rows, 3 entries, 2 whitelists | holds (213 k states) |
| `expiry` | Does a temporary block end? | 1 request, engine, job, all at once, commands fail | holds (108 k states) |
| `expiry_stuck` | The same, with update and reset | 2 handlers at once | violated |
| `drift` | Do chain and table agree between operations? | create, block, unblock, one at a time | violated |
| `feed` | Does anything that raises, or deletes alerts, lose a packet, a detector, a client, or mix up alerts? | 2 packets, 2 detectors, 2 clients, 1 other broadcaster, 1 recent packet, retention limit 2, resets, database may fail | holds (6.2 M states) |
| `feed_stops` | Is every packet evaluated in the end? | 1 detector, database never fails | violated |
| `feed_alert_lost` | Is an alert always stored? | the same | violated |
| `traffic` | Do windows and cooldowns report every burst and nothing else? | one source, small thresholds and windows, packets late by 1, every attack of the generator | holds (256 k states) |
| `scan_severity` | Is twice the threshold reported as high? | the same | violated |
| `records` | Do retention, pages, registrations and resets work side by side? | 2 requests, 3 alerts, limit 1, 1 crash, lock timeouts | holds (865 k states) |
| `retention_active` | Does retention spare alerts that are not resolved? | the same | violated |

`races` checks `TypeOK`, `BlockedRowBacked` and `AutoBlockNeverCollides`. The
chain is kept empty there because none of the three reads it; what matters is
that each await is a place to interleave. Two rows per table are enough for a
reused id beside a live row, and two handlers at once for every pairwise race;
the two request slots are interchangeable, hence the symmetry.

`serial` checks `WhitelistNeverEnforced`, `NoOrphanEntries`, the action property
`RestartHeals` and the refinement `BlocksAsPromised`. Commands do not fail there:
a failed deletion trivially leaves its entry. The crash, on the other hand,
strikes at every step, and the restart may find the chain kept or gone and the
whitelist changed. One handler at a time is what two of the four need:

- `NoOrphanEntries` fails with two: the engine commits a block, an unblock is
  served, and the engine then adds the entry of a rule that is no longer active.
- `BlocksAsPromised` fails with two: the expiry job selects the rule of an overdue
  block, a reset deletes it, a new block is given the rule's id, and the job lifts
  the new block. An unblock that loaded its row before does the same to a row whose
  id was given out again.

Within one operation several transactions, rollbacks and crashes remain, and
those are what the refinement is about: each commit of the tables is a step of
`Quarantine` or changes no status. Changes of `is_temporary` are left to
`expiry_stuck`, which shows what they do.

`expiry` checks `OverdueIsLifted`. The rules of this run are made by alerts and
blocks only, may be extended, and unblocked; the run shows that a stale
selection, an UPDATE that finds no row, a lock held by somebody else and a failing
iptables command do not keep an expired block alive for ever.

`feed` checks `TypeOK`, `FlaggedWasStored`, `ResetForgets`, `RecordedWasSeenByAll`,
`ShownIsRecorded`, `TakenAreRecorded` and `RegisteredIsServed`. An alert's id is one
more than the largest in the table, so it is given out again after a rollback and
after the deletion of the last alerts; `FlaggedWasStored` says that what a packet
carries is nevertheless the id of an alert that was committed about this packet,
although that alert may be deleted by then. `ResetForgets` says that a reset, which
deletes the alerts and empties the recent packets an await later, leaves no packet
recorded before it. Two packets are enough for one to push the other out of a buffer
of one and for an id to be used for the wrong packet; two detectors for one behind
another that raised; two clients for one that leaves while the other is being sent to,
and alike, hence the symmetry; one more broadcaster for a set that shrinks under a
walk because another walk cleans it up. A limit of two alerts, of four that there may
be, lets retention select, a reset give its ids out again, and retention delete.

`traffic` checks `TypeOK`, `DropsOnlyExpired`, `CountsOnlyRecent`, `BurstReported`,
`AlertJustified` and `GenuineTriggering`. A deque expires at its head only, against
the time of the packet in hand, so with late packets it holds neither exactly the
last window nor always more: the first two say how far it may be off, the next two
that reports do not suffer from it, the last that each request to the generator
triggers what it is named after. Windows of 2 and 3 units and stamps that go back
one or forward up to a window and more reach every boundary (an entry exactly a
window old, a cooldown exactly over); five to six packets per scene fill a
threshold twice; a history of 5 rates is passed by 10 SYN packets. Thresholds only
the generator reaches are those of the code. Sources do not share state, so one is
enough; `scene` keeps unrelated traffic apart. `GenuineTriggering` excuses a request
that took longer than the window, and a scan whose random ports were too few
different ones; which ports it put is the history `ports` of `job`, so that what
the sniffer adds late does not count for the request.

`records` checks `TypeOK`, `AnswerHolds`, `TokensStayValid`, `StatsBracketed`,
`PrunesOldest`, `KeepsLimit` and `ExcessIsPruned`. Two requests meet in the pairs
that race for something; three alerts exceed a limit of one by two, so that an
alert may come between count, select and delete. `PrunesOldest` is about the order
by time only. The documentation promises more, that active alerts are preserved;
this is `retention_active`. `PrunesOldest` and `KeepsLimit` leave out the rounds a
reset overtook: what the job deletes then is shown by `retention_active`, too.

`CHECK_DEADLOCK FALSE` stands in the runs whose input is bounded and may be used up
with nobody obliged to do anything: `traffic`, `scan_severity`, `records`,
`retention_active` and `drift`. In the other runs somebody can always take a step.

The violated runs each check one statement of the repository's own
documentation against what the code does; `PROJECT.json` quotes the lines:

- `expiry_stuck`: block permanently, make the rule temporary, reset the data: the
  blocked row survives its rule. The next rule gets the same id and a second
  blocked row points at it; from then on the expiry job raises and rolls back at
  each run.
- `drift`: an operator's own rule for an address loses its entry when the address
  is unblocked, and stays active in the table; nothing reconciles until a restart.
- `feed_stops`: a client connects or leaves while a packet is broadcast; the
  iteration over the set raises, outside every `try` of the task. The task ends
  and later packets stay in the queue. `TakenAreRecorded` holds all the same: what
  was taken is recorded before the broadcast.
- `feed_alert_lost`: the same during the broadcast of `new_alert`; the alert, shown
  to some dashboards already, is rolled back and its source not blocked.
- `retention_active`: nothing ever sets `resolved`, so the job finds no resolved
  alert and falls back to the oldest of all: what it deletes are active alerts. That
  leaves the limit to preserve them, and the run shows that it does not: a reset
  gets the lock between the job's select and its delete; the alerts stored next get
  the ids the job holds, and are deleted although the table is not above the limit.
- `scan_severity`: the severity is that of the moment the threshold is crossed, and
  the cooldown hides the moment twice the threshold is.

Seen on the way and left to the reader: `main.py:141` compares severities with
upper-case words while the detectors use lower case, so that no packet is marked
malicious by its alert; `Pipeline` models the comparison as it is. `add_rule`
appends whatever the priority of the rule, so a rule created with a better priority
than an existing one (`db/models.py:54`, "lower number = higher priority,
first-match wins") stands behind it until the next start; `RestartHeals` covers that
start. And a packet that is in hand when a reset deletes the alerts is recorded
after the reset emptied the recent packets: the dashboard then links it
(`static/js/traffic.js:542`) to an alert that is gone, and later to the next one that
is given the id. `FlaggedWasStored` therefore speaks of alerts that were stored.

### Fairness

`FairSpec` adds weak fairness for each handler that has started (the loop resumes
a coroutine whose await is over), for startup, and for the expiry job, which the
scheduler starts at each interval. `ExpiryMark`, which needs the write lock, has
strong fairness: SQLite's busy handler polls for up to 30 seconds and other
holders release the lock again and again, but never hold it for ever. Nothing
forces an alert, a request, a crash or time. `LockTimeouts` is off in the runs
with fairness: a busy handler that loses every poll is excluded by that
assumption.

`Pipeline`'s `Spec` adds weak fairness for the task (`PipelineStep`), for each send
of a broadcast, for the end of a request's broadcast, and for the endpoint of a
peer that left (the server pings). Nothing makes clients come or go, packets
arrive, or anybody reset. `feed_stops` is therefore refuted by a task that has
ended and not by one that is never scheduled.

`Records`' `Spec` adds weak fairness for the pipeline's commit or rollback, for the
retention job (the scheduler calls it again and again), for requests that have
started and for the restart. Weak fairness of `Prune` is enough because the alerts
and requests of a run are bounded, so that in the end nobody else asks for the
lock; under an endless load SQLite's busy handler promises no turn. `JobTimeout`
stays on: a round that timed out is followed by another one.

## 4. The proofs

For all values of the constants that satisfy the named assumptions
(`ServicesAssumption`, `InTextAssumption`, `StoreAssumption`, `NoneAssumption`,
`EnforcementAssumption`; they only give the constants their types and keep
`None` apart from rows):

- `TypeCorrect`: `Spec => []TypeOK`.
- `WhitelistRespected`: `Spec => []WhitelistNeverEnforced`. An address of the
  running process's whitelist is never in the chain once startup has flushed it,
  whatever handlers interleave, whatever earlier whitelists allowed into the
  table. The premise that the flush does not fail is needed: `flush_chain` only
  logs a failure.

Both follow from `Inductive`, `Spec => []IInv`. `WhitelistNeverEnforced` itself
speaks of positions, which deletion shifts; `IInv` says instead that the chain is
a sequence over the set `Allowed` of entries that are not whitelisted, and then a
deletion needs only that what it leaves was there. `FirewallChainProofs` has
that for each operator (`RemovedRuleType` by the least matching position, which
exists because `<` on the naturals is well founded; `RemovedLineType` for any
line number, stale ones included; `AddedRuleType`, where the whitelist guard of
`add_rule` enters). `EnforcementProofs` then has one lemma per handler, one step
per action, each by what the action does to the tables, to its session and to the
chain, and combines them in `NextKeeps`.

- `EngineNeverCollides` (`StoreProofs`): `Spec => []AutoBlockNeverCollides`. The
  invariant `LockInv` adds that the engine owns the write lock from its first
  flush to its commit, and that the expiry job, whose commit asks for no lock,
  owns it when nothing is left to mark. `RequestsWait` is the heart: no request
  touches the transaction while another session has it.
- `BlockedRowsBacked` (`StoreProofs`): `TempKept => (Spec => []BlockedRowBacked)`.
  `LinkInv` adds that a blocked row is permanent exactly when its rule is not
  temporary, since `reset_system_data` deletes rules by the one column and rows by
  the other. `TempKept`, that no update changes `is_temporary`, is what the run
  `expiry_stuck` shows to be necessary.

- `ListBehaves` (`QuarantineProofs`): `MaxBusy <= 1 /\ TempKept =>
  (Spec => BlocksAsPromised)`, the refinement that `serial` checks. Both premises are
  needed (section 3). `ListInv` says that at most one session is not idle
  (`OneAtATime`), so nobody else has the lock (`Turn`); that no address has two
  rows (`Unique`); what a session loaded and is still so (`Knows`: whose row an
  unblock loaded, whose rule a deletion is about, that the job's rules have
  expired); and what the open transaction holds (`TxOK`): the engine's shows the
  committed rows, the job's lacks only rows of expired rules (`Shortened`), and a
  request's is one step of the list away (`Pending`). `FewerListed` and
  `OneMoreListed` say what deleting and inserting rows does to the list; `LinkInv`
  enters where a rule's deletion or expiry takes its blocked row along, for it
  makes that row one of the same address and kind. There is one lemma per kind of
  step (`QuietMove`, `WriteMove`, `RollbackMove`, `CommitMove`) and then one per
  action; only commits move the list.
- `RestartRepairs` (`ChainProofs`): `{"add", "flush"} \cap Failing = {} /\
  MaxRules <= MaxChain => (Spec => RestartHeals)`, for any handlers at once and a
  crash anywhere. `reconcile` only logs a command that fails, and an entry needs
  room in the kernel, hence the premises. `HealInv` is about the moments between
  the flush and the end of startup: the chain is empty, and then lists the rules
  applied so far (`Applied`), each once, in an order (`InOrder`) no rule still
  held can break, because the next one is of least priority number; what startup
  loaded still agrees with its rows in all that iptables reads (`SameRule`), for
  time may pass meanwhile. The order of the chain is a function from positions to
  rows (`Lists`), as two rules may call for equal entries; `FirewallChainProofs`
  counts those.
- `NoOrphans` (`ChainProofs`): `MaxBusy <= 1 /\ TempKept /\ {"del", "list",
  "flush"} \cap Failing = {} /\ ~BroadcastFails => (Spec => []NoOrphanEntries)`,
  whatever crashes and restarts there are and whether or not an entry can be added.
  Each premise is needed or carries an invariant that is: overlapping handlers
  leave orphans (section 3), as does a deletion or flush that fails; a broadcast
  that raises rolls a block back whose entry is there; and `TempKept` gives
  `LinkInv`, that the rule an unblock finds is one for its address. Between
  operations is easy to say and not inductive: in the middle of one, the tables
  and the chain differ by what the handler has still to do. `OrphanInv` says by
  how much: for the only session at work, `Out` are the rows whose entry it has
  removed or not yet added, at each place of its handler; but for these each
  entry is in the chain at most as often as rows call for it (`Within`). `Holds`
  is what it loaded and is still so, `Lifts` what an unblock knows: the line
  numbers it has still to delete are all those of its address, so that its
  deletions by number, highest first, take nothing else (`LinesLeft`).

In `Pipeline`, under `HubAssumption` and `PipelineAssumption`, for any number of
clients, detectors, packets and broadcasting requests:

- `TypeCorrect`, `AlertIdsWereStored`, `ResetLeavesNothing`, `AllDetectorsAsked`,
  `ShownAfterRecorded`, `NoPacketLost`, `ClientsAreServed`: every property of the run
  `feed` as `Spec => []...`. They follow from `FeedInvariant`. None is inductive
  alone: `FeedInv` numbers the queue (it holds the packets that arrived last, and the
  one in hand is the one before them), says which detectors saw the packet in hand,
  that the alert in hand is about it, that between commit and announcement its alert
  is in the table or was deleted from it, that after a reset no recent packet is one
  of those to forget, and that broadcasts under way show only what is recorded. Alerts
  come and go, but those stored together with those deleted only grow (`Logged`,
  `LoggedGrows`), and `FlaggedWasStored` is kept by that. The hub's part, `HubInv`,
  adds `WalksOK`: no walk has a socket ahead that never connected or counts one as
  dead that is connected. One lemma per action; `SamePacket` and `TaskMoves` are what
  most of them share.

In `Records`, under `RecordsAssumption` (the names of handlers are apart, the bounds
are naturals, the level `Raised` is not above `Critical`), for any number of
requests, names, alerts, crashes and any limit:

- `TypeCorrect`, `AnswersHold`, `TokensValid`, `StatsAreBracketed`, `OldestPruned`,
  `LimitKept`: every safety property of the run `records`. They follow from
  `Invariance`, `Spec => []Inv`, with `Inv` in four parts. `StoreInv` is about the
  tables: an id is one alert's, numbers grow with ids, a name has one account,
  what the pipeline adds is newer than what is there, and no alert is resolved, so
  that `Doomed` are the oldest (`DoomedOldest`). `LockInv` ties the lock's
  owner to the one handler whose place says it writes. `JobInv` is the heart of the
  retention proofs: unless a reset came between, the alerts stored exceed the limit
  by at least what was counted; deleting the ids selected leaves at least the limit
  and takes only alerts older than all it leaves; and so does the open transaction.
  `ReqInv` says for each request what its place implies: an answered registration
  has its row in the transaction and nobody has the name outside it; a page's
  readings lie between the alerts that stayed and all that were there. `OldestFew`,
  that the `n` oldest of a finite set are at most `n`, goes by the least element
  that would be one too many and not by induction.

In `TrafficSources`, under `DetectionAssumption` and `SourcesAssumption` (thresholds and
windows are positive, the clock starts later than any window and lateness reach
back, a scene has the type of one, a packet is late by at most `MaxLate`), for any
sources, thresholds, windows, lateness and traffic:

- `TypeCorrect`, `OnlyExpiredAreDropped`, `OnlyRecentAreCounted`, `BurstsAreReported`,
  `AlertsAreJustified`: what the run `traffic` checks of the detectors.
  They follow from `Invariance`. Its heart is `Kept(w, s, width, now)`, what a deque
  `w` holds of all the entries `s` it was given: a rest of them; those gone were
  older than the window of some entry of the track; its head is not too old for the
  last entry; and an entry is never more than `MaxLate` older than one before it.
  `EvictedRest` says that eviction takes a prefix, though it stops at the first
  fresh entry of a deque that is not sorted, and `SlidKept` that a slide keeps
  `Kept`. From it `BurstIsKept`: entries within one window of the newest packet are
  all still in the deque, so a burst cannot be counted short; and `KeptRecent`,
  the bound on what is counted. `OverIsReported` adds the cooldowns: whoever is in
  one has been reported in it (`CooldownsEarned`), so a packet that finds the
  threshold reached leaves a recent alert either way. `RatesEarned`, that the SYN
  flood's baseline starts only after an alert by count, gives the order of the two
  kinds of alerts in `AlertJustified`.

- `AttacksAreReported`: `Spec => []GenuineTriggering`, the generator and the detectors
  together, for all 23 attacks. It needs more of the constants: a scan does not pick
  port 0, 80 is among the ports of Slowloris, and the thresholds of the three floods
  whose bursts have a fixed size are at most that size (`SourcesAssumption`;
  `FloodDetector` is made with its defaults, which are). `JobInv` says of a request
  under way that what it has still to put, with what its track was given since its
  last loop began, is enough for the threshold (`Enough`, or `Ahead` while an earlier
  loop runs: the SYN flood is preceded by one from random addresses), or, for a
  payload, that the first rule it matches is the attack's (`Shows`). Nothing the
  sniffer puts in between takes from that (`GivenKept`), a packet of the request adds
  to it (`GivenOneMore`), and when all is put `ThresholdReports` gets the alert from
  `BurstReported`: packets of a request are never late themselves, so they lie in the
  window up to its last one.

Every safety property and action property of the runs that hold is thus proved.
Model-checked only are the liveness properties, `OverdueIsLifted` and
`ExcessIsPruned`: their fairness is outside this prover's reach.

## 5. Plan

Done: `Enforcement` with `Quarantine`, `WebSocketHub` and `Pipeline`,
`SlidingWindow`, `Detection` and `TrafficSources`, `Records`, and the proofs of
section 4. What would come next: in `Detection`, lemmas on the arithmetic of the SYN
flood's baseline (`Exceeds`, `Varies`); `Quarantine` with overlapping handlers, once
the jobs check the rows they act on again.

### Not modelled

- Packet decoding and the signature expressions: text in, a field or a match out.
  What the detectors make of the fields is modelled.
- Hashing, signing and expiry of tokens: the libraries' work.
- Listing, filtering and sorting of alerts, rules and packets, and the report:
  they read rows and lay them out. Nothing depends on the layout.
- The dashboard's scripts: another process, whose actions the server sees as
  requests and as joins and departures, which the models have at any time.
- The WAL checkpoint: one PRAGMA, SQLite's own work. The creation of the schema and
  the pragmas of a connection, but for the busy timeout and the page limit.
- Reading the environment, logging, and `check_environment.py`.
