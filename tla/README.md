# PeeringDB in TLA+

A verification project for the PeeringDB server (`src/peeringdb_server` and the
settings under `mainsite`). It models the parts of the server in which several
processes, a clock or an outside service act on the same rows, checks them with
TLC on small instances, and proves the central facts with TLAPS for every value of
the constants. Source paths below are relative to `src/peeringdb_server/`, and
`commands/` stands for `management/commands/`.

1. [The system](#1-the-system)
2. [The modules and how they correspond to the code](#2-the-modules)
3. [What the runs check](#3-the-runs)
4. [What is proved](#4-the-proofs)
5. [Where the code and its documentation disagree](#5-disagreements)
6. [What is not modelled, and the plan](#6-not-modelled-and-the-plan)

## 1. The system

PeeringDB is a Django application over one MySQL database, with an optional read
replica. Web workers serve the pages and the REST API; management commands run by
cron do the long work. They share nothing but tables and caches. Almost no code
takes row locks: a view or a command loads model instances, works with them, and
saves whole rows. The recurring hard question is therefore what a save writes back
that somebody else has changed meanwhile.

### Components

| component | state | operations | hard behaviour | correct when |
|---|---|---|---|---|
| **IX-F import run** (`ixf.py`, `models.py`) | connections (`NetworkIXLan`), proposals (`IXFMemberData`) | parse a feed, delete, add, modify, save proposals, clean up | order of entries, leftovers of earlier runs, protocol switches, address clashes | networks that opted out are left alone; the tables converge on the feed; proposals are real |
| **IX-F import jobs** (`commands/pdb_ixf_ixp_member_import.py`) | request columns of `InternetExchange`, status and error columns of `IXLan` | request, edit, load a batch, import, flag | whole-row saves of stale copies, killed workers, a limited queue | a request is neither lost nor forgotten; the LAN has the status of its exchange |
| **RIR status** (`commands/pdb_rir_status.py`) | `rir_status`, `rir_status_updated`, `rir_status_notified` of `Network` | flag, warn, remove, restore, abort, reset | the warning cap, mails after the commit, stale saves, re-added networks | nobody is removed without a warning `KEEP_RIR_STATUS` days before; all reclaimed networks go in the end |
| **DeskPro tickets** (`commands/pdb_deskpro_publish.py`, `deskpro.py`) | `DeskProTicket` rows and the remote tickets | queue, publish, close, drop, requeue | API calls that fail half-way, death between call and save, close requests during a publish | a close request is obeyed; no remote ticket is forgotten |
| **Read replica** (`db_replica.py`, `db_router.py`) | context variables, pin cookie, replica lag | route, write, respond | cookie expiry racing replication | a browser reads its own writes |
| **Organizations** (`models.py` 352–480, 768–942, 1465–1560, 1896–1990, `signals.py`, `views.py`, `admin.py`) | `Organization` and `Network` rows, user groups, `UserOrgAffiliationRequest`, merge logs | request to join, approve, deny, re-check; add, delete and restore networks and organizations; merge and undo | requests wait for RDAP and act on what they read before; undo after later changes | no active child under a deleted parent; admins are not made by accident; undo restores what the merge moved |
| **IRR dumps** (`irr_bulk.py`, `commands/pdb_irr_as_set_fetch.py`) | dump files, serial markers, staging areas | read serials, download, promote, mark | several files per source, kills in between, overlapping runs | a marker never runs ahead of its files; success means current |
| **IRR lookups** (`irr.py`) | two caches, the lists of mirrors | `exists_in`, `sources_for` | servers out of reach, partial answers, caches in series | a value is rejected only for a recent, definitive absence |
| **IRR as-set status** (`commands/pdb_irr_as_set_status.py`) | `irr_as_set_*` columns of `Network` | sweep, look up, record, retract, notify | verdicts about values edited meanwhile, a lookup budget, a cap on mails, mails after the commit | flags are earned, the columns agree, nobody is told twice; verdicts fit the values in the end |
| Verification queue (`models.py` 957–1072, `signals.py` 658–760) | `VerificationQueueItem` | queue, approve, deny | stale item on approval | an item exists exactly while its object is pending |
| Other merges (`commands/pdb_fac_merge*.py`, exchanges) | merge logs | merge, undo | – | – |
| Change notifications (`models.py` 7574–7990, `commands/pdb_data_change_notify.py`) | watched objects, mails | watch, consolidate, send | mails inside a transaction | a change is mailed once |
| Organization policies (`models.py` 1557–1858) | email restrictions, re-authentication, sponsorship | periodic checks | time | – |
| Throttles, negative cache (`rest_throttles.py`, `middleware.py`) | counters in caches | count, refuse | lost increments | limits hold approximately |
| API cache, command line tools, maintenance, views, search, geo | files, tables | – | mostly sequential | – |

### Interactions

* A user's deletion of a pending object reaches `DeskProTicket.close_requested`
  through the signal of the verification queue (`signals.py` 668–705,
  `deskpro.py` 639–660): a bulk `update()` by id, concurrent with the publisher.
* `InternetExchange.save` writes the status of the exchange to its LAN
  (`models.py` 3060); the importer saves both rows from its own copies.
* The import jobs call `Importer.update` once per exchange. `IxfImportJobs` has the
  import as a step with an outcome; `IxfImport` is that step in detail. They meet in
  this outcome only: the tables of one are not those of the other.
* `pdb_rir_status` removes a network with its connections, which the importer may
  still propose; a re-added network gets a fresh `pending` status from a signal
  (`signals.py` 826–833) and keeps every other column.
* The IRR parts form a pipeline. `pdb_irr_as_set_fetch` keeps the dumps (`IrrBulk`); the
  status command builds its index of them and takes what the dumps lack to the
  live pool through `sources_for` (`IrrLookup`); its verdicts are columns of the
  network (`IrrAsSetStatus`). A save of another value leaves them as they are, until a
  later run gives a verdict about the new one. The save path of a network asks
  `exists_in` of the same pool.
* A request to join an organization, and the API's creation of a network, wait for RDAP;
  organizations and networks are deleted, restored and merged meanwhile.
* A stale or replica-served read affects only views: commands read the primary.

The hazards, each at its line, are listed in `PROJECT.json`.

## 2. The modules

Each component has one module; `X_proofs` holds its theorems, `MCX` the values of
constants that a `.cfg` cannot write. `TicketLife` is abstract: `DeskProTickets`
implements it, by the mapping at the end of that module, which TLC checks as a
property and `DeskProTickets_proofs` proves. `IxfImport_proofs` has the theorems of
`IxfImport` and of `IxfImportJobs`, whose definitions carry `Jobs` in their names
for that reason.

The components share few columns, and no two modules write the same one. Where they
meet, a module has the other as its environment: the import is a step with an
outcome in `IxfImportJobs`; `IrrAsSetStatus` takes any answer of the pool that
`IrrLookup` shows possible (definitive for the registries it reached, or none),
and an index that follows the registries at some distance, as the dumps do in
`IrrBulk`. Two things are idealized there: an answer of the pool may in fact be up
to twice the cache TTL old (`ListedIsDefinitive`), and the dumps of one registry
come in several files.

### ReadReplica

The database is abstracted to the number of its last write. A request slot
(`req[r]`) holds the context variables `_use_replica` and `_request_wrote`;
`Begin` is `ReadReplicaRouterMiddleware.__call__` up to `get_response`, `Respond`
the rest of it, with the cookie. `Write` is any write the signals see or that
`mark_request_wrote` announces; `UndetectedWrite` is any other (a bulk update, a
command). `Read` goes through `DatabaseRouter.db_for_read`, `ReadPrimary` is a read
inside `use_primary_db()`. `LoseResponse` is a browser that never gets the answer.
`Replicate` and `Tick` are the environment: writes apply in order and none stays
off the replica longer than `MaxLag`. `acked[c]` is what the browser has been told.

### IxfImportJobs

`ix` and `lan` are rows, `job[j]` a worker with the copies it has loaded: all LAN
rows of the batch when it starts (`StartBatch`), the exchange row when its turn comes
(`Load`). `Commit` writes the copies back as `update` does on each outcome, `Flag`
is the finally block. `edit[u]` is a request of a user, several at once: it loads a row
(`LoadExchange`, `LoadLan`) and saves all of it later, with what the user changes: a
request (`RequestImport`), an approval, deletion or any other edit (`SaveExchange`), the
url of the LAN (`SaveLan`), or nothing (`Refuse`). `Kill` ends a worker. The status `importing`, which the guard of `request_ixf_import` looks for
(`models.py` 3094), is never assigned in the code, so it is not a value of
`reqStatus`. `asked`, `decided` and `raced` are history.

### IxfImport

One LAN. `rows` is the connection table, `props` the proposals, keyed by
(asn, ipaddr4, ipaddr6), `run` the locals of `Importer.update`: the feed, the
entries to do, `ixf_ids`, `pending_save`, `deletions`. The loops of `update` are
the phases: `Start` (sanitize, `_build_ip_to_asn`), `Parse` per entry,
`BeginDeletions`, `DeleteStep` per row (`process_deletions` and
`_apply_reassignment_delete`), `SaveStep` per proposal (`process_saves` with
`apply`, `set_add`, `set_update`, `set_remove`, `set_conflict`), `Cleanup`
(`cleanup_ixf_member_data`) and `Finish` (`cleanup_aged_proposals` and the commit).
A run is one transaction: an exception takes everything back (`Failed`), and users
act only between runs: `TurnOn`, which applies all pending proposals of the network
(`NetworkSerializer.update`), `TurnOff`, `SetSupport`, `UserAdd`, `UserDelete`.
The first run finds any table in `Initial`: rows on this LAN and on others.

The importer looks a connection up by the addresses of a proposal (`Matching`); those of
a protocol that its network does not support are left out, but for deletions. When no address is left,
nothing is found, whatever rows there are (`Addressed`, `models.py` 4592). So a
connection that lost both addresses to others (`add_netixlan`, 3477) is never deleted by the
importer, and an entry with only an address its network does not support counts as an
addition.

A proposal may be the requirement of another (`req`, the column `requirement_of`).
To apply a proposal is to apply its requirements first (`Apply`, `ApplyNext`; a cycle of
them recurses until Python gives up, a crash), and to delete one takes
its requirements along (`Dependents`, the foreign key with `CASCADE`). A save
that names a proposal which is no longer in the table is refused by the foreign key
(`SaveStep`). The deletion loop works on the connections as they were loaded when
it began (`run.before.rows` in `DeleteStep`), the table being unchanged until then.
What is abstracted:

* of the data of a connection only `operational` is kept, the field compared
  whatever the network allows;
* the feed lists members of one VLAN; where Python iterates over a query without an
  order, any order is taken;
* the age and notice count of a deletion proposal are abstracted to a choice: any
  set of the proposals that are eligible otherwise may go in `Finish`;
* preview runs, runs for one network, logs, mails and tickets are left out.

### RirStatus

`row` has the RIR columns of each network, as ages in days that stop at `MaxAge`;
`data` is what the allocation file lacks. `StartRun` takes the snapshot a run
decides about, `CommitRun` writes what it decided (with arbitrary RDAP answers for
the networks to be removed), `AbortRun` is the `CommandError` of too many changes,
`SendWarning` one mail after the commit, `Kill` the death of the command in any
of these states, `Reset` is `--reset`. `Load`, `SaveLoaded` and `SaveAtOnce` are
requests, which save whole rows. `Tick` is a day: runs and requests take less. `warned` is
history: the days since the warning of the present flagging, `None` when there was
none. A run under way is `run.rows`; its writes are `Flagged`, `Updated`,
`Removed`, `Recovered`. Dry runs change nothing and are left out;
`--mute-notifications` and a switched-off RDAP check are not modelled.

### DeskProTickets

`object[t]` is the object in the verification queue, `row[t]` its `DeskProTicket`,
`remote[t]` the tickets made of it on DeskPro. The publisher is one process
(`job`): it loads up to `Batch` rows, and each API call and each save is a step, as
are those of the close pass. `Refuse`, `RefuseDuplicate` are API errors, `Die` is a
kill, a timeout or any exception that is not an `APIError`. `Agent` changes the
status of a remote ticket at any time. `RequeueLoad` and `RequeueSave` are the
two halves of the requeue command, over the rows in `Requeued`, once each. `Dedup`
says whether DeskPro refuses duplicates. `requeued` and `abandoned` (a publisher
died while it was creating the ticket) are history, and name the tickets the
promises except. At the end of the module `StageOf`, `Withdrawn` and `Desk` map this
state to that of `TicketLife`.

### TicketLife

What the queue promises for one ticket: `Ask`, then one `MakeTicket` at most, then
`Settle` once (published or refused), then `CloseTicket` or `DropTicket`, only after
`Withdraw`, and a drop only without a remote ticket. A ticket is `lost`, with nothing promised any
more, once it was requeued or a publisher died in the middle of creating it.

### Organizations

`org`, `net`, `member`, `admin` and `req` are rows and groups, `merges` the merge
logs with their entities. A request of a user has a place `u`, in `Requesters`, for its row (`req[u]`) and, while it is
under way, for what it read before (`job[u]`); `Filer[u]` is the user. It waits for RDAP as
`claim` (an organization without admins, `signals.py` `uoar_creation`), `new` (an ASN
without a network, where `create_from_rdap` makes or finds the organization and the
network, or a deleted network is restored), `recheck` (a change of email)
and `add` (a network through the API); `edit` is a network that was loaded to be saved.
`AffiliateTo` (an ASN, an organization, both, or a name alone, which is left to the staff),
`view_request_ownership`, `Recheck`, `AddNetwork` and `LoadNetwork` start them;
`Claimed`, `CreatesNetwork`, `UndeletesNetwork`, `LookupFails` and `Rechecked` are the
answers of RDAP, which may be anything or an error. `NetworkSaved` writes a new network or the
whole row of an edited or restored one, with the status and the organization that were
read. What a request does without waiting is one step: approval, denial, cancelling,
`SetOrg` (the staff), `DeleteOutdated` (the cron job), changes of roles, the deletion of
networks and organizations (by a superuser also of one with active networks, which go with
it), restoring an organization, `merge_organizations` and `undo`. A user may have
`MAX_USER_AFFILIATION_REQUESTS` pending requests, 5 by default in the code and in the
instance, as far as there are places for them. Email restrictions are an arbitrary refusal.
`late` and the snapshots in `merges` are history.

### IrrBulk

A dump is the serial it shows and an age. `fetch[r]` is a run of the command:
`Start` takes the options and clears the staging area, whoever has files there, `ReadSerial` decides whether a
source is fresh, `Download`, `Received` and `DownloadFails` stage the files one by one,
`Promote` is one `os.replace`, `Mark` writes the serial marker, `Exit` reports. A file
keeps its old dump when the new one fails. `Kill` ends a run anywhere and leaves
what it staged, which a later run clears away; `Publish` and `Tick` are the
registries and the clock. `raced` (sources that two runs refreshed at once) and
`aged` (registries whose serial was out of reach and whose dumps are young enough
to keep) name what the promises except.

### IrrLookup

`present[s]` and `absent[s]` are the ticks since the registry last held, or last lacked, the
object, so that "recent" can be said of an answer. `sources_for` is
`StartSourcesFor`, `ListMirrors` and `QueryObject` per server, `AskRest` and `PinNext`
for the sources still open, `ReturnSources`; `exists_in` is `StartExistsIn`,
`QueryPinned` per server, `ReturnUnknown`. Each query is a step that answers or
fails, and both caches, of one source and of the list of sources, are written where the code writes
them. The whois text is a choice of outcomes.

### IrrAsSetStatus

`row[n]` has the value and the columns of its verdict, `holders` the registries that
hold each name and `index` those whose dump shows it, `run` what the command has
found out: the rows it read, the results, the lookups left. `StartRun` reads, `Sweep` takes one network
(index first, then a lookup while the budget lasts), `CommitRun` is the transaction
with its retractions and the choice of whom to mail, `SendMail` one mail of the
`on_commit` hook, `Kill` the death of the command. `SaveAtOnce`, `Load` and
`SaveLoaded` are requests that save whole rows, at once or from an old copy
(`StaleSavers`); `Change`, `Refresh` and `Tick` are registries, dumps and days.
`mailed` is history.

## 3. The runs

| run | instance | states | shows |
|---|---|---|---|
| `read_replica` | 2 browsers, 2 slots, lag 1 < pin 2, 2 writes, clock to 4 | 160,082 | reads after writes, at and around the expiry of the cookie |
| `ixf_import_jobs` | 2 exchanges (one pending, one waiting), a requested and a routine worker, 2 requests of users at once, limit 1, 3 imports asked for, 2 rows loaded by users, 1 kill | 570,236 | requests stay queued and are decided |
| `ixf_import` | 2 dual-stack networks, one address of each family; nothing to begin with, a connection without addresses, or deleted ones; runs of 2 lists, each any number of times, 1 edit | 1,506,694 | opt-out, convergence, real proposals, idempotence, deleted rows in the way |
| `ixf_import_protocols` | 2 networks with any protocols, an address outside the prefix, a deleted row on another LAN, runs of 2 lists, 1 edit | 1,260,869 | proposals stay real when protocols switch |
| `rir_status` | 2 networks, one of them disturbed; cap 1, 1 change, 2 days; the daily run and a narrowed one | 1,125,092 | warnings precede removals, once, and are recorded |
| `rir_status_live` | 2 networks, cap 1, 1 day, kills | 46,300 | reclaimed networks go, restored ones are cleared |
| `deskpro_tickets` | 2 tickets, batch 1, one requeued, duplicates refused | 161,911 | close requests survive and are served; nothing is orphaned; tickets get published; every ticket has a `TicketLife` |
| `irr_bulk` | 1 registry with 2 files, 2 overlapping runs, 2 publications, kills | 2,002,476 | markers stay behind their files; success means current |
| `irr_lookup` | 2 servers, 2 sources (one on the second server only), 1 caller, TTL 2 | 550,628 | absences told are recent and definitive |
| `irr_as_set_status` | 2 networks, 2 registries, 1 name, 1 lookup and 1 mail per run, kills, one stale saver | 391,456 | columns agree, flags are earned, mails are not repeated, verdicts settle |
| `organizations` | 2 organizations, 1 network, 2 users, 1 place for requests, 1 merge | 1,127,675 | parents and children agree, undo restores, no users of ghosts |
| `irr_lookup_outage` | the instance of `irr_lookup` | – | a violation: see section 5 |

Every property of a passing run has a mutant: a plausible bug in a mapped
definition, under which TLC finds the property violated in the same instance.

**Bounds.** Every interaction these properties are about takes two of something:
two workers on an exchange, two networks at a cap of one, two tickets in a batch of
one, two networks competing for an address. In `ixf_import` a
run of the second list meets what the first has left, such as a proposal that misleads it, and
is then repeated (`SecondRunIdle`): `MaxRuns` does not count the run of a list that the last run ended
with. What still earlier runs would leave, deleted rows above all, is in the tables it
begins with (`Leftovers`). In `read_replica` the clock runs past the expiry of two
consecutive cookies. In `irr_bulk` two files are what a kill can fall between, and the second
publication is the one a wrong marker would hide. In `irr_lookup` the TTL of two ticks
lets an entry of one cache be written from an old entry of the other. In
`irr_as_set_status` the first network can use up the budget and the cap before the second.
In `organizations` an organization can be deleted, restored and merged during one
wait for RDAP or between the load and the save of a network; a second merge, and a
second request at the same time, are in the reach of the theorems only. In `organizations`
the one place is taken by a request on file or by one under way that edits a network. In
`ixf_import_jobs` two requests of users at once are what it takes for the one to save
an older copy than the other. In
`deskpro_tickets` a second remote ticket cannot be made at all (`MaxRemote = 1`);
that the publisher makes no second one is proved for any `MaxRemote`. In `rir_status` ages stop at `MaxAge = Keep`: from there on only
"at least `Keep`" matters, except for `--max-age`, which the narrowed run sets
below it. Counters (`MaxRuns`, `MaxEdits`, `MaxRequests`, `MaxChanges`, `MaxKills`, `MaxWrites`,
`MaxClock`, `MaxRemote`) are bounds of the instance, in the guards.
The IX-F and IRR instances come to rest when their runs, requests, publications or
edits are used up or when there is nothing to change, and check no deadlock
(`CHECK_DEADLOCK FALSE`); in the others nobody ever gets stuck.

**Symmetry** is used where networks, browsers, fetch runs or organizations are
interchangeable and only safety is checked (`Leftovers` gives either network each of
its rows). `ixf_import_protocols` has a distinguished row and uses none.

**Fairness.**

* `IxfImportJobs`: weak fairness of the steps of the requested-import workers: cron
  starts the command again and a started run goes on. Nothing is asked of users or
  kills. `RequestIsDecided` assumes besides that routine runs end
  (`RoutineEnds`): each overlapping one can save an older copy and requeue. So can the
  stale save of a user, of which there are at most `MaxChanges`: the property says what
  happens after the last.
* `RirStatus`: strong fairness of the start of the daily run and of its commit
  (it may be killed, but not always; the registry confirms at times), weak
  fairness of the mail loop, strong fairness of days. The two properties speak of
  executions in which the file and the users settle (`SettledDown`).
  `rir_status_live` has as many changes allowed as there are networks. With fewer,
  both properties fail: a run past `--max-changes` aborts, and so does every later
  run over the same data until somebody raises the limit by hand.
* `DeskProTickets`: weak fairness of the publisher, started by cron. The two
  properties assume that it dies only finitely often (`DiesNoMore`).
  `PublishedInTheEnd` exempts tickets at or behind one that DeskPro refuses as a
  duplicate: `publish_new_tickets` returns there (line 70) without marking the row.
* `IrrAsSetStatus`: weak fairness of the command: cron starts it again, and a run goes on. `VerdictsSettle` speaks of
  executions in which the registries, the users and the dumps settle, no run is
  killed any more and the pool answers (`SettledDown`), and of the networks whose lookups, with those
  before them, fit into one run (`Affordable`).

**What the properties leave out**, because the code does not do it:

* `AllowRespected` lets a run touch a network that opted out when the feed gives its
  address to another network, or when a proposal required the deletion. It is checked
  for dual-stack networks; with others it fails (`_ip_reassigned_in_feed`, section 5).
* It also excepts runs that begin with a *stale* requirement, one that holds member
  data again (`Stale`); `Converges` and `SecondRunIdle` except those, and runs that begin
  with a requirement of a requirement (`Plain`). What this does is in section 5. Both
  take five runs and six edits of two networks with two addresses of each family, more than
  a run can search; TLC has shown the violations along traces guided there.
* `Converges` leaves out connections without an address (`Present`), which the importer does
  not find.
* `Converges` exempts entries that an earlier error proposal of the network shadows
  (`set_conflict`, `models.py` 4827–4842). `DeletedDoNotBlock` exempts entries with an address
  that the network itself has in a deleted connection on another LAN: addresses are claimed
  from deleted connections of other networks only (`models.py` 3508, 3528), so that this one is
  in the way (section 5). Both, and `SecondRunIdle`, speak of dual-stack networks, and are
  checked with all connections on the LAN and all addresses within its prefixes; the
  theorems cover connections on other LANs and addresses off the LAN too.
* The theorem about `SecondRunIdle` assumes that what is active on other LANs has no address of
  this one (`\A R \in Initial : Separate(R)`), as `validate_ipaddr4`, `validate_ipaddr6` (`models.py`
  6047–6053) and `validate_prefix_overlap` (`validators.py` 314) see to when it is saved through
  a form or the API. Without that it fails, as TLC shows: a network's row elsewhere bars its entry
  on the list, loses its other address to an entry of a network without updates, equals
  the barred entry from then on, and is modified by the next run.
* `RequestStaysQueued` exempts a request made while a job is importing the exchange or another
  request of a user holds its row: their save puts the old columns back (`raced`).
* `UndisturbedAreWarned` exempts networks that a request saves from an old copy, and
  re-added ones when the cap is below the number of networks; it is checked and
  proved without kills. Each exemption is needed: with `Kills = TRUE`, or with the
  exempted networks included, TLC finds a network removed unwarned.
* `CloseRequestSurvives` exempts a ticket that was requeued; `NoOrphans` those and
  the tickets on which a publisher died between the API call and the save;
  `TicketLife` has both as `lost`.
* `MarkerNotAhead` and `SuccessIsCurrent` exempt a registry that two runs refreshed at
  once: the marker of the one may then describe the files of the other.
* `MailedOnce` exempts networks saved from an old copy, which restores an old mark.
* `ParentStatus` exempts a network that is saved, as a new one after the RDAP lookup or as an
  edit or restoration of what was loaded, when its organization has been deleted or merged
  away since it was read (`late`), until it is saved from current data, deleted, moved, or
  its organization restored.
* `UndoRestores` speaks of a merge undone before anything else happens, and exempts
  the users both organizations had.
* `NoGhostOwners` speaks of requests for which RDAP had to find the organization. A user
  who waits for a given organization while it is deleted does become its admin.

Each exemption stands for something the code does, and TLC shows it when the
exemption is taken out.

## 4. The proofs

All are checked by TLAPS from nothing; no fact is assumed but the named
assumptions on the constants, which TLC evaluates in the runs.

| theorem | statement | for every |
|---|---|---|
| `ReadReplica_proofs`: `TypeCorrect`, `ReadYourWritesHolds`, `ExpiredPinIsReplicatedHolds` | `Spec => []TypeOK`, `[]ReadYourWrites`, `[]ExpiredPinIsReplicated` | browsers, slots, lag below the life of the cookie |
| `IxfImport_proofs`: `TypeCorrect`, `ProposalsOpenHolds` | `Spec => []TypeOK`, `[]ProposalsOpen` | finite sets of networks and addresses, protocol supports, feeds, tables to begin with |
| `IxfImport_proofs`: `AllowRespectedHolds`, `ConvergesHolds`, `DeletedDoNotBlockHolds` | `Supports = {<<TRUE, TRUE>>} /\ Spec => []AllowRespected`, `[]Converges`, `[]DeletedDoNotBlock` | the same, with both protocols supported |
| `IxfImport_proofs`: `SecondRunIdleHolds` | `(\A R \in Initial : Separate(R)) /\ Supports = {<<TRUE, TRUE>>} /\ Spec => []SecondRunIdle` | the same, and nothing active elsewhere with an address of this LAN |
| `IxfImport_proofs`: `JobsTypeCorrect`, `RequestStaysQueuedHolds` | `JobsSpec => []JobsTypeOK`, `[]RequestStaysQueued` | exchanges, workers, requests of users at once, limit |
| `RirStatus_proofs`: `TypeCorrect` | `Spec => []TypeOK` | all constants |
| `RirStatus_proofs`: `CycleInvHolds`, `UndisturbedAreWarnedHolds` | `~Kills /\ Spec => []CycleInv`, `UndisturbedAreWarned` | networks, cap, change limit, run options, disturbed networks |
| `RirStatus_proofs`: `MailsAreRecordedHolds`, `WarnedOnceHolds` | `Spec => []MailsAreRecorded`, `WarnedOnce` | the same, with and without kills |
| `DeskProTickets_proofs`: `TypeCorrect`, `CloseRequestSurvivesHolds`, `NoOrphansHolds` | `Spec => []TypeOK`, `CloseRequestSurvives`, `[]NoOrphans` | tickets, batch, requeued rows, with or without duplicate detection |
| `DeskProTickets_proofs`: `TicketsLiveHolds` | `Spec => TicketsLive` (the specification of `TicketLife`) | the same |
| `Organizations_proofs`: `TypeCorrect`, `ParentStatusHolds`, `UndoRestoresHolds`, `NoGhostOwnersHolds` | `Spec => []TypeOK`, `[]ParentStatus`, `UndoRestores`, `NoGhostOwners` | organizations, networks, users, merges |
| `IrrBulk_proofs`: `TypeCorrect`, `MarkerNotAheadHolds`, `SuccessIsCurrentHolds` | `Spec => []TypeOK`, `[]MarkerNotAhead`, `[]SuccessIsCurrent` | registries with at least one file each, runs, publications, kills |
| `IrrAsSetStatus_proofs`: `TypeCorrect`, `FlagInvHolds`, `FlagsAreEarnedHolds`, `MailedOnceHolds` | `Spec => []TypeOK`, `[]FlagInv`, `FlagsAreEarned`, `MailedOnce` | networks, registries, values, budget, cap, with or without kills |
| `IrrLookup_proofs`: `TypeCorrect`, `ToldIsRecentHolds`, `ListedIsDefinitiveHolds` | `Spec => []TypeOK`, `[]ToldIsRecent`, `[]ListedIsDefinitive` | servers, mirrors, callers, TTL |

**ReadReplica.** The property is not inductive: it says nothing of a browser
without a request under way. `IInv` adds that a write the replica lacks is at most
`MaxLag` old (`LagBounded`), that a pin outlives the write it stands for by
`PinMaxAge` (`PinCoversAcked`), and that a request routed to the replica owes
nothing newer (`RoutedSafely`). The assumption `MaxLag < PinMaxAge` is used once:
when a cookie has expired, `LagBounded` then excludes that its write is missing.

**IxfImport.** `ProposalsOpen` speaks of the end of a run. What the cleanup leaves is real
by its own test of every proposal without a requirement; the rest is that
a deletion that belongs to another proposal never outlives it, nor belongs to itself. That has to
hold at all times (`ImportInv`, which holds in both instances): in
the table, in the copy a failed run goes back to (`Attached`), and of the objects in
`pending_save`, which are stored long after they were read. `Without` keeps it since what
is left of a table after a cascade is closed the other way round, a save because of the foreign key. Type
correctness needs that the deletion loop finds its rows (`run.phase = "parse" =>
rows = run.before.rows`), and that `Apply` and `TurnOn`, which iterate over a finite
set, end in a table; those inductions rest on the well-foundedness of `<` on the
naturals. The networks and addresses are finite sets (`ImportAssumption`), and the rows
to begin with are rows that share no address, those of the LAN with addresses of the LAN or
none (`InitialAssumption`); no key and no list equals `None`
(`KeyAssumption`, `FeedAssumption`).

`AllowRespected` compares the end of a run with its beginning. Its invariant says it
of every table in between (`Respected` in `AllowInv`), and a lemma shows that it survives whatever
is *permitted* from one table to the next: an active connection of a network that opted
out changes only if the list gives it away or its deletion was required, and only
networks that opted in gain one. What is left is that every write of the importer is
permitted, for each proposal that is applied, on its own or along with another. The list
accounts for those of the list; for those applied along, `AllowInv` keeps three facts: a
requirement belongs to the same network (`SameNetwork`), it holds no member data and was
a requirement before as long as deletions are processed, and from then on it may hold
member data only if the list does. The assignment of addresses to networks that
`_ip_reassigned_in_feed` consults comes from the list (`owner`); that is the step that
fails with one protocol, where it may come from somebody's row.

`Converges` and `DeletedDoNotBlock` speak of what becomes of each entry of the list, so
`ConvergeInv` follows an entry through every write that may undo it; TLC checked it over the
whole of the instance `ixf_import` before it was proved. It has four parts.

* *Addresses* (`AddressInv`), at all times: no two rows hold the same address (the unique
  constraints), rows of the LAN hold addresses of the LAN, and a requirement shares an
  address with what requires it and has none that a row of another LAN holds. The last is what
  makes sure that a requirement that is applied stays on this LAN.
* *Elsewhere* (`Away`): rows of other LANs only lose addresses or activity during a run. So
  what blocks an entry in the middle of a run blocked it when the run began, which is when
  `Free` looks.
* *The queue* (`Fresh`): an object in `pending_save` carries the identity and the data of an
  entry and otherwise what the table had when the run began. Its identity is in nobody else's object,
  as no address is on the list twice.
* *Progress* (`Converging`), for runs that are not excepted: the connections of networks that allow
  updates are on the list or still to be visited by the deletion loop; the proposals of these
  networks are those of the beginning, but for entries of the list; and each entry is still in the
  queue or settled, that is connected, or not connectable and recorded (or shadowed).

The step that takes the work is a save. Applying an object with its requirements leaves
the connection or is refused for an address that is off the LAN or held elsewhere
(`ApplyMember`, from `ApplyOneMember` for the object and `ApplyGone` for the deletions applied with
it), and sustains the connections of all other identities: `add_netixlan` resets and
takes rows only by an address of the entry, and no other identity of the list has one of these
(`IdsDisjoint`). Without `Plain` this fails, as a stale or chained requirement
is applied for an identity that is not the one of the object. With one protocol it fails since
identities overlap (`Same`), which is why both theorems assume two.

`SecondRunIdle` relates two runs, so `QuietInv` says what the first leaves behind and that
the second finds nothing to do in it; TLC checked it over small instances, with deleted
and with active rows elsewhere, before it was proved.

* *Between the runs* (`Quiet`), as long as `last` remembers the list: an active connection
  of the LAN is on the list, or its network takes no updates and the list gives its
  addresses to nobody else; an entry of a network that takes updates is connected with the
  same data, or off the LAN, or barred by a deleted row of the same network on another LAN
  and by no other row there (`Done`); and a requirement has no requirement itself (`Backed`).
* *The first run* works towards that (`QuietingIn`), which starts from `Converging`. An
  entry that is neither connected nor shadowed was refused; `Barred` is the account of the refusal, and
  needs `Separate`: only what is active elsewhere could bar an entry and later lose the address.
* *The second run*: the rows are those it began with, and so are the proposals of networks that take
  updates, but for its entries (`Untouched`). Nothing active is due for deletion, but of
  networks without updates, whose proposals write no row. A save of
  an entry that is connected changes nothing; one of an entry that is barred is refused before
  `add_netixlan` resets a row; the requirements applied with it are gone already.

The addresses that `_ip_reassigned_in_feed` consults have to be those of the list (the
conjunct about `run.owner`), and an entry without any address of the LAN is skipped by the
parser, so that nothing read is of that kind.

**IxfImportJobs.** A worker may save any copy it holds, so the invariant speaks of
copies, those of requests of users too: no row and no copy carries a request newer than the
last one asked, and, unless the last request was made while somebody else held the row,
none carries an older one (`Tracked`). A save then writes back the request that is there.

**RirStatus.** `CycleInv` speaks of the table and of the rows a run has read: a flagged
network with a marker was warned at least `age` days ago or is in the outbox with
age 0, and a good network that never came back has no marker. A run removes
at `age >= Keep`, hence only after a warning that old. The mails of a commit must
be out before the next run reads (`run # Idle => outbox = {}`): the mail loop belongs
to the command. Kills break exactly this, which is why the theorem assumes none.
The mails need less: `MailInv` says that a network without a marker has not been
warned in this flagging, in the table and in the rows of a run, and that holds
whatever is killed.

**DeskProTickets.** For the close request: the publisher's saves name their columns,
so only the requeue command can write `close_requested`; the invariant says where
copies are held. For the orphans, `OwnershipInv`: of a sound ticket at most one
remote ticket exists, its id is in the row or with a publisher that is still
creating it, and what the publisher holds is what the row had (`LoadedIsCurrent`).

**The life of a ticket.** `LifeInv` adds to the ownership of remote tickets what each
stage means in terms of the row and of the publisher's copy (`LivesInv`). Every action of
`DeskProTickets` is then one action of `TicketLife` or a stutter: a lemma per action.

**Organizations.** `ParentStatus` is inductive together with `TypeOK`. What makes it so
is that every way to an active network passes a check of its organization: of the row
itself in the same step, or of what was read before, and then `late` records
that the row has changed since (`NetworkSaved`). Deleting an organization takes its networks along or
finds none active, and a merge moves them away. For the undo, `QuietInv` relates the
log of a merge to the snapshot taken when it began, as long as nothing has happened since.

**IrrBulk.** The marker is compared with files that several runs replace one by one, so
the invariant follows each run (`RunInv`). Nothing is staged of a source before its
turn (`Clean`); whatever is staged, by any run, was downloaded after the start, which
cleared the staging area (`SinceStart`); while a source is refreshed, its staged and its
promoted files are at least as new as the serial read (`RefreshInv`), which is what `Mark` needs;
and the sources done and not reported are no older than at the start (`DoneInv`), which is
success. That every registry has a file is assumed (`BulkAssumption`), as in the table of
the code (`irr_bulk.py`).

**IrrAsSetStatus.** The columns of a verdict are written together by everybody, so
that copies are as consistent as rows (`FlagInv` says both). The missing link is a run
that flags a network without a value: `Grounded` excludes it. A flag is earned since
each verdict among `NOTIFY_STATUSES` comes from a token that the lookup did not find in its
registry (`ValueOutcome`, `BadOutcome`). For the mails (`MailInv`), the mark of a network
that no stale copy overwrites is at most as old as its last mail, a run has read it as it is, and a
network in the outbox has a mark of age 0.

**IrrLookup.** Each cache entry bounds the age of what it says: an entry of `exists_in` with
`age` left was true within the age it has had, an entry of the list of sources
may rest on one of those, and is at most `TTL - 1` older. `CallInv` says the same of what a
caller has collected so far. The bound `2 * TTL - 1` in the property is their sum.

**Only model-checked.** Liveness (`RequestIsDecided`, `ReclaimedAreRemoved`,
`RestoredAreCleared`, `PublishedInTheEnd`, `ClosedInTheEnd`, `VerdictsSettle`), which is
beyond the prover; and what the properties of `IxfImport` say of networks with one
protocol, beyond `ProposalsOpen`.

## 5. Disagreements

`irr_lookup_outage` ends in a counterexample to what the repository says:

* `OkCoversThePool`: "`ok` is True only when every registry the pool covers answered
  definitively" (`irr.py` 239–241). A server whose list of mirrors cannot be read is
  skipped (269–271); a registry that only this server carries is in neither set
  compared at the end, and the answer counts as complete without it. A value
  pinned there is then classified as moved or gone.

The following were met while modelling. They are behaviours of the models, for which
no run is kept:

* "ixlan status should always be identical to ix status (#1077)" (`models.py` 3060): the
  importer saves the LAN row it loaded with its batch (`ixf.py` 608, 647, 2362);
  deleted or approved meanwhile, the exchange and its LAN differ afterwards.
* The docstring of `process_deletions` (`ixf.py` 778) wants both addresses gone before a
  removal; the code compares the triple, so a connection of which the feed still
  has an address is removed (and usually created again in the same run).
* A reassigned address should be freed "immediately" (`ixf.py` 753); the proposal that
  `instantiate` finds may name other addresses, its connection is not found
  (`models.py` 4765), and the exception ends the import.
* `_ip_reassigned_in_feed`: "Return True if the IX-F feed contains an entry with a
  *different* ASN that claims either of this netixlan's IPs" (`ixf.py` 735–736). For a network
  without one of the protocols, `parse_vlans` (1159–1173) also puts the other address of
  the first active connection with the same supported address under the listed ASN. If the entry
  has no address of the supported protocol, this looks up connections with none, of any network;
  the connection found counts as reassigned and is deleted at once, whether its network
  allows updates or not, although the feed says nothing of it.
* "we need to check if this ipaddress exists on a soft-deleted netixlan elsewhere, and
  reset if so" (`models.py` 3499–3501): the query excludes the network itself (`.exclude(asn=asn)`, 3508), so
  that its own deleted connection on another LAN keeps the address, and the add is refused.
* "pdb_rir_status won't delete a network until this is set, so removal is always
  preceded by at least one notification attempt" (`models.py` 5182–5186): a re-added
  network keeps its old marker (`commands/pdb_rir_status.py` 357); flagged past the cap it is removed unwarned.
* `process_close_requests` relies on saves that never overwrite `close_requested`
  (`commands/pdb_deskpro_publish.py` 126–130); the requeue command saves the whole row
  (`commands/pdb_deskpro_requeue.py` 55).
* "A child cannot be `ok` or `pending` if the parent is `deleted`" (`models.py` 357–359): the
  API checks the organization it read before the RDAP lookup, and every edit of a network the one
  it loaded; a merge or deletion in between leaves a network active in a deleted
  organization.

Further limits, without a text that denies them:

* *RIR status.* A command killed between its commit and its mails never sends them;
  a stale save restores a cleared marker.
* *Import run.* Two proposals can become the requirement of each other (`set_requirement`
  after `instantiate`, `models.py` 4652–4679): applying either has no end, and no
  cleanup removes them. When a connection that another proposal wants deleted is listed
  again, `instantiate` turns the deletion into an addition and keeps `requirement_of`
  (3875–3946). Once it is gone from the list no cleanup removes it, and it is added whenever
  the proposal it belongs to is applied; to add it claims its addresses from active
  connections on the LAN, also of a network that opted out and is listed with them. A requirement of
  a requirement deletes its connection when the chain is applied, although it is listed. A
  connection that has lost both its addresses stays active, as the importer does not find it;
  `pdb_delete_addressless_netixlan`, run by hand, removes it.
* *Import jobs.* A request made while its exchange is imported, or while somebody edits the
  exchange, is overwritten.
* *Tickets.* A death between the two halves of a publish leaves a remote ticket nobody
  knows; a refused duplicate blocks the queue; the status of a ticket is read and
  then set by two calls.
* *Organizations.* A user who waits for RDAP can become the admin of an organization
  deleted or merged meanwhile, and ownership can be requested of a deleted one. A
  re-check replaces a request that was canceled meanwhile. `create_from_rdap` takes an
  organization by its name, deleted or not. The approval page accepts canceled and denied
  requests. Undoing a merge takes from the old organization's users those that both had, and the
  undo of an older merge moves its entities from wherever they are now. The cron job
  for childless organizations saves the whole row it read.
* *IRR dumps.* Two overlapping runs can leave a marker ahead of its files. A dump that is
  current by its serial keeps its old mtime, so the status command may refuse it as too
  old although a fetch has just confirmed it.
* *IRR status.* The lookup budget is spent again on the same networks at the front when their
  names keep missing, so the ones behind may never be looked up. The cap on mails with
  short reminders starves later networks in the same way. Mails lost with
  a killed command are sent only with the next reminder.

## 6. Not modelled, and the plan

Order: what acts concurrently on shared rows and is hard to undo comes first. Each
module comes with its runs, mutants and the theorem named.

1. *(done)* `ReadReplica`, `IxfImportJobs`, `IxfImport`, `RirStatus`, `DeskProTickets`.
2. *(done)* `IrrBulk`, `IrrLookup`, `IrrAsSetStatus`; `Organizations` with affiliation,
   the status of organizations and networks, and merges; `TicketLife` and its refinement.
3. `VerificationQueue`: an item exists exactly while its object is pending; approval against
   edits and deletion. It then takes the place of the objects in `DeskProTickets`.
   Theorem: the item invariant.
4. `IxfRollback`: logs and `rollback` over the rows of `IxfImport`.
5. The deeper levels of the object status: connections, LANs, prefixes, campuses.
6. `DataChangeNotify`, `SponsorshipNotify`: mails and transactions.
7. Small ones: throttle counters, API cache, queue of command line tools.
8. Theorems: *(done)* those of section 4. Left: those of the modules above.

What the modelled components leave out is said with each module and in `PROJECT.json`:
dry runs and reports, which write nothing; preview and single-network imports;
`pdb_irr_as_set_cleanup` and `pdb_irr_as_set_notify`, run by hand; tickets without a
queue item; sponsorships and other kinds of entities in a merge; merges of
facilities and exchanges, which are sequential.

Left out for good: presentation in views, serializers, search, export, geocoding, OAuth
and permissions (queries and formatting, no protocol between actors), one-off
maintenance scripts, generated data and migrations.
