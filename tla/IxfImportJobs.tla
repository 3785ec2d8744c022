--------------------------- MODULE IxfImportJobs ---------------------------
(***************************************************************************)
(* The jobs that run the IX-F importer (pdb_ixf_ixp_member_import) against *)
(* the requests and edits of the exchange's users.  A job loads the ixlan  *)
(* rows of its whole batch when it starts, and an exchange row when the    *)
(* turn of that exchange comes; a request of a user loads one row.  Every  *)
(* save writes a whole row back, as it was loaded but for what is changed. *)
(* What an import does to the connections of the exchange is IxfImport's   *)
(* subject: here it succeeds, fails or raises.                             *)
(***************************************************************************)
EXTENDS Naturals, FiniteSets, Functions

CONSTANTS
    Exchanges,
    Pending,      \* the exchanges still in the verification queue at first
    Waiting,      \* the exchanges whose import is requested at first
    Linked,       \* the exchanges that have a member list at first
    RequestJobs,  \* workers running the command with --process-requested
    RoutineJobs,  \* workers running it without
    Editors,      \* the requests of users that may be in progress at once
    Limit,        \* the number given to --process-requested, 0 for no limit
    MaxRequests,  \* bound on the number of requests
    MaxChanges,   \* bound on the number of rows that users load
    MaxKills      \* bound on the number of killed workers

ASSUME JobsAssumption ==
    /\ Pending \subseteq Exchanges
    /\ Waiting \subseteq Exchanges
    /\ Linked \subseteq Exchanges
    /\ RequestJobs \cap RoutineJobs = {}
    /\ {Limit, MaxRequests, MaxChanges, MaxKills} \subseteq Nat
    /\ MaxRequests > 0

VARIABLES
    ix,       \* the exchange rows
    lan,      \* the ixlan rows, one per exchange
    job,      \* the state of each worker
    edit,     \* the row that each request of a user has loaded
    asked,    \* the last request the users of each exchange made
    decided,  \* the last request that an import which began after it decided
    raced,    \* was another copy of the row held when it was last requested?
    requests, changes, kills  \* how many there have been

jobsVars == <<ix, lan, job, edit, asked, decided, raced, requests, changes, kills>>

Jobs == RequestJobs \cup RoutineJobs

Statuses == {"ok", "pending", "deleted"}

Exchange ==
    [status : Statuses,
     request : 0..MaxRequests,  \* ixf_import_request, 0 for NULL
     reqStatus : {"queued", "finished", "error"}]

Lan ==
    [status : Statuses,
     url : {"null", "empty", "set"},  \* ixf_ixp_member_list_url
     enabled : BOOLEAN]               \* ixf_ixp_import_enabled

NoBatch == [phase |-> "idle"]

(* The ixlan rows of the rest of a batch, as they were when it started.    *)
Loaded == UNION {[S -> Lan] : S \in SUBSET Exchanges}

(* Between two exchanges of a batch, and while a job works on one of them. *)
Between == [phase : {"next"}, todo : Loaded]

Importing ==
    [phase : {"fetch", "commit", "flag"}, todo : Loaded,
     cur : Exchanges, ix : Exchange, lan : Lan,  \* the copies it saves
     outcome : {"none", "ok", "failed", "raised"}]

(* What a request of a user holds: an exchange row, or an ixlan row, whose *)
(* other columns are the user's to enter.                                  *)
NoEdit == [of |-> "nothing"]

ExchangeEdit == [of : {"exchange"}, cur : Exchanges, row : Exchange]

LanEdit == [of : {"ixlan"}, cur : Exchanges, status : Statuses]

JobsTypeOK ==
    /\ ix \in [Exchanges -> Exchange]
    /\ lan \in [Exchanges -> Lan]
    /\ job \in [Jobs -> {NoBatch} \cup Between \cup Importing]
    /\ edit \in [Editors -> {NoEdit} \cup ExchangeEdit \cup LanEdit]
    /\ asked \in [Exchanges -> 0..MaxRequests]
    /\ decided \in [Exchanges -> 0..MaxRequests]
    /\ raced \in [Exchanges -> BOOLEAN]
    /\ requests \in 0..MaxRequests
    /\ changes \in 0..MaxChanges
    /\ kills \in 0..MaxKills

Earliest(x) == IF x \in Waiting THEN 1 ELSE 0

JobsInit ==
    /\ ix = [x \in Exchanges |->
               [status |-> IF x \in Pending THEN "pending" ELSE "ok",
                request |-> Earliest(x), reqStatus |-> "queued"]]
    /\ lan = [x \in Exchanges |->
                [status |-> ix[x].status,
                 url |-> IF x \in Linked THEN "set" ELSE "null",
                 enabled |-> x \in Linked]]
    /\ job = [j \in Jobs |-> NoBatch]
    /\ edit = [u \in Editors |-> NoEdit]
    /\ asked = [x \in Exchanges |-> Earliest(x)]
    /\ decided = [x \in Exchanges |-> 0]
    /\ raced = [x \in Exchanges |-> FALSE]
    /\ requests = 1
    /\ changes = 0
    /\ kills = 0

On(j, x) == job[j].phase \in {"fetch", "commit", "flag"} /\ job[j].cur = x

Holds(u, x) == edit[u].of = "exchange" /\ edit[u].cur = x

-----------------------------------------------------------------------------
(* InternetExchange.save: the whole row, and the ixlan follows its status. *)
Synced(l, x, status) == [l EXCEPT ![x].status = status]

\* A request of a user loads the row of an exchange, or of its ixlan.
LoadExchange(u, x) ==
    /\ edit[u] = NoEdit
    /\ changes < MaxChanges
    /\ ix[x].status # "deleted"
    /\ edit' = [edit EXCEPT ![u] = [of |-> "exchange", cur |-> x, row |-> ix[x]]]
    /\ changes' = changes + 1
    /\ UNCHANGED <<ix, lan, job, asked, decided, raced, requests, kills>>

LoadLan(u, x) ==
    /\ edit[u] = NoEdit
    /\ changes < MaxChanges
    /\ lan[x].status # "deleted"
    /\ edit' = [edit EXCEPT ![u] = [of |-> "ixlan", cur |-> x, status |-> lan[x].status]]
    /\ changes' = changes + 1
    /\ UNCHANGED <<ix, lan, job, asked, decided, raced, requests, kills>>

\* request_ixf_import.  Nothing sets "importing", so its guard never refuses.
RequestImport(u) ==
    LET x == edit[u].cur
        now == requests + 1
    IN
    /\ edit[u].of = "exchange"
    /\ requests < MaxRequests
    /\ requests' = now
    /\ ix' = [ix EXCEPT ![x] = [edit[u].row EXCEPT !.request = now, !.reqStatus = "queued"]]
    /\ lan' = Synced(lan, x, edit[u].row.status)
    /\ asked' = [asked EXCEPT ![x] = now]
    /\ raced' = [raced EXCEPT ![x] = \/ \E j \in Jobs : On(j, x)
                                     \/ \E v \in Editors \ {u} : Holds(v, x)]
    /\ edit' = [edit EXCEPT ![u] = NoEdit]
    /\ UNCHANGED <<job, decided, changes, kills>>

(* The exchange row is saved by an edit that leaves its status alone, by   *)
(* the approval of the verification queue, or by a deletion.               *)
SaveExchange(u, status) ==
    LET x == edit[u].cur IN
    /\ edit[u].of = "exchange"
    /\ \/ status \in {edit[u].row.status, "deleted"}
       \/ edit[u].row.status = "pending" /\ status = "ok"
    /\ ix' = [ix EXCEPT ![x] = [edit[u].row EXCEPT !.status = status]]
    /\ lan' = Synced(lan, x, status)
    /\ edit' = [edit EXCEPT ![u] = NoEdit]
    /\ UNCHANGED <<job, asked, decided, raced, requests, changes, kills>>

\* A user edits the ixlan: its url and whether the import is enabled.
SaveLan(u, url, enabled) ==
    /\ edit[u].of = "ixlan"
    /\ url = "null" => ~enabled
    /\ lan' = [lan EXCEPT ![edit[u].cur] =
                 [status |-> edit[u].status, url |-> url, enabled |-> enabled]]
    /\ edit' = [edit EXCEPT ![u] = NoEdit]
    /\ UNCHANGED <<ix, job, asked, decided, raced, requests, changes, kills>>

\* The request of a user is refused or fails: nothing is saved.
Refuse(u) ==
    /\ edit[u] # NoEdit
    /\ edit' = [edit EXCEPT ![u] = NoEdit]
    /\ UNCHANGED <<ix, lan, job, asked, decided, raced, requests, changes, kills>>

-----------------------------------------------------------------------------
\* ixf_import_request_queue, and what a limit leaves of it.
Requested ==
    {x \in Exchanges : /\ ix[x].request > 0
                       /\ ix[x].reqStatus = "queued"
                       /\ lan[x].url = "set"}

Queue ==
    {x \in Requested :
        Limit > 0 => Cardinality({y \in Requested : ix[y].request < ix[x].request}) < Limit}

(* The query of the command: in a routine run, exchanges with an empty     *)
(* (not NULL) member list url stay in and fail when they are fetched.      *)
Batch(j) ==
    {x \in Exchanges :
        /\ lan[x].status = "ok"
        /\ lan[x].url # "null"
        /\ IF j \in RequestJobs THEN x \in Queue ELSE lan[x].enabled}

\* handle: the command ends at once when nothing was requested.
StartBatch(j) ==
    /\ job[j] = NoBatch
    /\ Batch(j) # {}
    /\ job' = [job EXCEPT ![j] = [phase |-> "next", todo |-> [x \in Batch(j) |-> lan[x]]]]
    /\ UNCHANGED <<edit, ix, lan, asked, decided, raced, requests, changes, kills>>

\* Mutant of Load: the request is flagged before the import, not after it.
LoadAndFlag(j, x) ==
    /\ job[j].phase = "next"
    /\ x \in DOMAIN job[j].todo
    /\ ix' = IF j \in RequestJobs THEN [ix EXCEPT ![x].reqStatus = "finished"] ELSE ix
    /\ job' = [job EXCEPT ![j] =
                 [phase |-> "fetch", todo |-> Restrict(@.todo, DOMAIN @.todo \ {x}),
                  cur |-> x, ix |-> ix[x], lan |-> @.todo[x], outcome |-> "none"]]
    /\ UNCHANGED <<edit, lan, asked, decided, raced, requests, changes, kills>>

\* The turn of ixlan x: ixlan.ix is loaded, once and for all its saves.
Load(j, x) ==
    /\ job[j].phase = "next"
    /\ x \in DOMAIN job[j].todo
    /\ job' = [job EXCEPT ![j] =
                 [phase |-> "fetch", todo |-> Restrict(@.todo, DOMAIN @.todo \ {x}),
                  cur |-> x, ix |-> ix[x], lan |-> @.todo[x], outcome |-> "none"]]
    /\ UNCHANGED <<edit, ix, lan, asked, decided, raced, requests, changes, kills>>

(***************************************************************************)
(* Importer.update up to the point where its result is known.  A deleted   *)
(* exchange has no prefixes left and cannot succeed, but an error in its   *)
(* feed is looked at first, and is reported.                               *)
(***************************************************************************)
Fetch(j, outcome) ==
    /\ job[j].phase = "fetch"
    /\ outcome = "ok" =>
          /\ job[j].lan.url = "set"
          /\ lan[job[j].cur].status # "deleted"
    /\ job' = [job EXCEPT ![j].phase = "commit", ![j].outcome = outcome]
    /\ UNCHANGED <<edit, ix, lan, asked, decided, raced, requests, changes, kills>>

(***************************************************************************)
(* The transaction of update commits.  On success the exchange row is      *)
(* saved (update_ix), and the ixlan row is when an error is to be cleared, *)
(* when invalid addresses are to be reported (both before update_ix), or   *)
(* when a protocol conflict is over (after it).  A failure that is to be   *)
(* reported saves the ixlan row unless the same error was reported lately. *)
(* An exception rolls everything back.                                     *)
(***************************************************************************)
Commit(j) ==
    LET x == job[j].cur
        saved == [lan EXCEPT ![x] = job[j].lan]
    IN
    /\ job[j].phase = "commit"
    /\ \/ /\ job[j].outcome = "ok"
          /\ ix' = [ix EXCEPT ![x] = job[j].ix]
          /\ \/ lan' = Synced(lan, x, job[j].ix.status)
             \/ lan' = Synced(saved, x, job[j].ix.status)
             \/ lan' = saved
       \/ /\ job[j].outcome = "failed"
          /\ lan' \in {lan, saved}
          /\ UNCHANGED ix
       \/ /\ job[j].outcome = "raised"
          /\ UNCHANGED <<ix, lan>>
    /\ job' = [job EXCEPT ![j].phase = "flag"]
    /\ UNCHANGED <<edit, asked, decided, raced, requests, changes, kills>>

\* Mutant of Rest: the copies of the exchange that is done are kept.
RestKeepingCopies(j) ==
    IF DOMAIN job[j].todo = {} THEN NoBatch ELSE [job[j] EXCEPT !.phase = "next"]

Rest(j) ==
    IF DOMAIN job[j].todo = {} THEN NoBatch
    ELSE [phase |-> "next", todo |-> job[j].todo]

\* Mutant of Flag: an exception is not caught, and ends the whole command.
FlagUnlessRaised(j) ==
    LET x == job[j].cur IN
    /\ job[j].phase = "flag"
    /\ IF j \in RequestJobs /\ job[j].outcome # "raised"
         THEN /\ ix' = [ix EXCEPT ![x] =
                          [job[j].ix EXCEPT !.reqStatus =
                             IF job[j].outcome = "ok" THEN "finished" ELSE "error"]]
              /\ lan' = Synced(lan, x, job[j].ix.status)
              /\ decided' = [decided EXCEPT ![x] = job[j].ix.request]
         ELSE UNCHANGED <<ix, lan, decided>>
    /\ job' = [job EXCEPT ![j] = IF job[j].outcome = "raised" THEN NoBatch ELSE Rest(j)]
    /\ UNCHANGED <<edit, asked, raced, requests, changes, kills>>

(* The finally block: with --process-requested the copy of the exchange    *)
(* row, flagged, is saved in a transaction of its own.                     *)
Flag(j) ==
    LET x == job[j].cur IN
    /\ job[j].phase = "flag"
    /\ IF j \in RequestJobs
         THEN /\ ix' = [ix EXCEPT ![x] =
                          [job[j].ix EXCEPT !.reqStatus =
                             IF job[j].outcome = "ok" THEN "finished" ELSE "error"]]
              /\ lan' = Synced(lan, x, job[j].ix.status)
              /\ decided' = [decided EXCEPT ![x] = job[j].ix.request]
         ELSE UNCHANGED <<ix, lan, decided>>
    /\ job' = [job EXCEPT ![j] = Rest(j)]
    /\ UNCHANGED <<edit, asked, raced, requests, changes, kills>>

\* The worker is killed: an open transaction is lost, and the batch with it.
Kill(j) ==
    /\ job[j] # NoBatch
    /\ kills < MaxKills
    /\ kills' = kills + 1
    /\ job' = [job EXCEPT ![j] = NoBatch]
    /\ UNCHANGED <<edit, ix, lan, asked, decided, raced, requests, changes>>

JobStep(j) ==
    \/ StartBatch(j)
    \/ \E x \in Exchanges : Load(j, x)
    \/ \E outcome \in {"ok", "failed", "raised"} : Fetch(j, outcome)
    \/ Commit(j)
    \/ Flag(j)

JobsNext ==
    \/ \E u \in Editors :
         \/ \E x \in Exchanges : LoadExchange(u, x) \/ LoadLan(u, x)
         \/ RequestImport(u)
         \/ \E status \in Statuses : SaveExchange(u, status)
         \/ \E url \in {"null", "empty", "set"}, enabled \in BOOLEAN :
               SaveLan(u, url, enabled)
         \/ Refuse(u)
    \/ \E j \in Jobs : JobStep(j) \/ Kill(j)

JobsSpec == JobsInit /\ [][JobsNext]_jobsVars

(* Cron starts the requested runs again and again, and a run that has      *)
(* begun goes on; nobody must ask, edit, or kill.                          *)
JobsFairness == \A j \in RequestJobs : WF_jobsVars(JobStep(j))

FairJobsSpec == JobsSpec /\ JobsFairness

-----------------------------------------------------------------------------
(***************************************************************************)
(* A request is not lost: it stays queued, under the time it was made,     *)
(* until an import that began after it decides it, whatever users, other   *)
(* jobs, failures and killed workers do in the meantime.  Excepted is one  *)
(* that was made while a job was importing the exchange or another request *)
(* of a user held its row: their save puts the old columns back.           *)
(***************************************************************************)
Undecided(x) == decided[x] < asked[x]

RequestStaysQueued ==
    \A x \in Exchanges :
       Undecided(x) /\ ~raced[x] => /\ ix[x].reqStatus = "queued"
                                    /\ ix[x].request = asked[x]

(* What makes it inductive: no row, and no copy of a row that a job or a   *)
(* user's request holds, is newer than the last request, nor older than    *)
(* one that was not raced.                                                 *)
Tracked(x) ==
    /\ asked[x] <= requests
    /\ decided[x] <= asked[x]
    /\ ix[x].request <= asked[x]
    /\ \A j \in Jobs : On(j, x) => job[j].ix.request <= asked[x]
    /\ \A u \in Editors : Holds(u, x) => edit[u].row.request <= asked[x]
    /\ ~raced[x] =>
          /\ ix[x].request = asked[x]
          /\ Undecided(x) => ix[x].reqStatus = "queued"
          /\ \A j \in Jobs :
                On(j, x) => /\ job[j].ix.request = asked[x]
                            /\ Undecided(x) => job[j].ix.reqStatus = "queued"
          /\ \A u \in Editors :
                Holds(u, x) => /\ edit[u].row.request = asked[x]
                               /\ Undecided(x) => edit[u].row.reqStatus = "queued"

JobsInv == JobsTypeOK /\ \A x \in Exchanges : Tracked(x)

(***************************************************************************)
(* A request is served, even with a limit and with others asking all the   *)
(* time: it is decided, unless an exchange that no job imports (its ixlan  *)
(* is not "ok") holds a place in the queue or the url has been taken away. *)
(* Routine runs must end: one that overlaps a requested run saves a stale  *)
(* row, which queues what was done again, ahead of the others.  So does    *)
(* the stale save of a user: there are at most MaxChanges of them, and the *)
(* property says what happens once they are over.                          *)
(***************************************************************************)
RoutineEnds == <>[](\A j \in RoutineJobs : job[j] = NoBatch)

Obstructed(x) ==
    \/ lan[x].url # "set"
    \/ \E y \in Requested : lan[y].status # "ok"

RequestIsDecided ==
    RoutineEnds => \A x \in Exchanges :
       (Undecided(x) /\ ~raced[x]) ~> (~Undecided(x) \/ raced[x] \/ Obstructed(x))
=============================================================================
