--------------------------- MODULE DeskProTickets ---------------------------
(***************************************************************************)
(* Support tickets of the verification queue: queued with the pending      *)
(* object, published on DeskPro by pdb_deskpro_publish, closed there when  *)
(* the object is deleted, requeued by pdb_deskpro_requeue.  Every call to  *)
(* DeskPro is a step of its own; agents work on the tickets meanwhile.     *)
(* One publisher runs at a time.                                           *)
(***************************************************************************)
EXTENDS Integers, FiniteSets

CONSTANTS
    Tickets,    \* numbers, in the order of their creation
    Batch,      \* how many tickets a pass loads (10 in the code)
    MaxRemote,  \* bound on the DeskPro tickets made of one row
    Requeued,   \* the rows pdb_deskpro_requeue is called for
    Dedup,      \* does DeskPro refuse a ticket it already has?
    None

ASSUME DeskProAssumption ==
    /\ Tickets \subseteq Nat
    /\ Batch \in Nat \ {0} /\ MaxRemote \in Nat \ {0}
    /\ Requeued \subseteq Tickets /\ Dedup \in BOOLEAN

VARIABLES
    object,    \* the object each ticket is about
    row,       \* the DeskProTicket table
    remote,    \* the tickets on DeskPro, by row and id
    job,       \* the publisher: what it does, and the rows it has loaded
    held,      \* a row as the requeue command has loaded it
    requeued,  \* rows requeued already: each is requeued at most once
    abandoned  \* rows of which a publisher died creating the ticket (history)

vars == <<object, row, remote, job, held, requeued, abandoned>>

Ids == 1..MaxRemote

Row == [published : BOOLEAN, id : Ids \cup {0}, close_requested : BOOLEAN,
        closed : BOOLEAN, failed : BOOLEAN]

Status == {"awaiting_agent", "awaiting_user", "resolved"}

DESKPRO_AUTO_CLOSE_STATUSES == {"awaiting_agent"}

ASSUME NoneAssumption == None \notin Row \cup Status

Phases == {"idle", "create", "message", "created", "failed",
           "load_close", "close", "resolve", "mark"}

Rows == [Tickets -> Row \cup {None}]

NoRows == [t \in Tickets |-> None]

Idle == [phase |-> "idle", rows |-> NoRows]

TypeOK ==
    /\ object \in [Tickets -> {"none", "pending", "approved", "deleted"}]
    /\ row \in Rows
    /\ remote \in [Tickets -> [Ids -> Status \cup {None}]]
    /\ job \in [phase : Phases, rows : Rows]
    /\ held \in Rows
    /\ requeued \in SUBSET Tickets
    /\ abandoned \in SUBSET Tickets

Init ==
    /\ object = [t \in Tickets |-> "none"]
    /\ row = NoRows
    /\ remote = [t \in Tickets |-> [i \in Ids |-> None]]
    /\ job = Idle
    /\ held = NoRows
    /\ requeued = {}
    /\ abandoned = {}

---------------------------------------------------------------------------
(* The objects in the verification queue. *)

\* Mutant of Queue: the new row is not initialized.
QueueBlank(t) ==
    /\ object[t] = "none"
    /\ \A u \in Tickets : u < t => object[u] # "none"
    /\ object' = [object EXCEPT ![t] = "pending"]
    /\ row' = [row EXCEPT ![t] = [published |-> FALSE, id |-> None,
                                  close_requested |-> FALSE, closed |-> FALSE,
                                  failed |-> FALSE]]
    /\ UNCHANGED <<remote, job, held, requeued, abandoned>>

\* verification_queue_update and verification_queue_notify, on a new object.
Queue(t) ==
    /\ object[t] = "none"
    /\ \A u \in Tickets : u < t => object[u] # "none"
    /\ object' = [object EXCEPT ![t] = "pending"]
    /\ row' = [row EXCEPT ![t] = [published |-> FALSE, id |-> 0,
                                  close_requested |-> FALSE, closed |-> FALSE,
                                  failed |-> FALSE]]
    /\ UNCHANGED <<remote, job, held, requeued, abandoned>>

\* Its queue item goes, its ticket stays.
Approve(t) ==
    /\ object[t] = "pending"
    /\ object' = [object EXCEPT ![t] = "approved"]
    /\ UNCHANGED <<row, remote, job, held, requeued, abandoned>>

\* Deleted by its owner or denied: close_deskpro_ticket_for_vq_item.
Delete(t) ==
    /\ object[t] = "pending"
    /\ object' = [object EXCEPT ![t] = "deleted"]
    /\ row' = IF row[t] = None THEN row
              ELSE [row EXCEPT ![t].close_requested = TRUE]
    /\ UNCHANGED <<remote, job, held, requeued, abandoned>>

---------------------------------------------------------------------------
(* publish_new_tickets *)

Loaded == {t \in Tickets : job.rows[t] # None}

\* The ticket the publisher is working on.
Current(t) == t \in Loaded /\ \A u \in Loaded : t <= u

FirstOf(S, k) == {t \in S : Cardinality({u \in S : u <= t}) <= k}

Loading(S, phase, phaseIfNone) ==
    LET batch == FirstOf(S, Batch)
    IN [phase |-> IF batch = {} THEN phaseIfNone ELSE phase,
        rows |-> [t \in Tickets |-> IF t \in batch THEN row[t] ELSE None]]

\* The next ticket in the same phase, or what follows the last one.
DoneWith(t, phase, phaseAfter) ==
    [phase |-> IF Loaded = {t} THEN phaseAfter ELSE phase,
     rows |-> [job.rows EXCEPT ![t] = None]]

Unpublished ==
    {t \in Tickets : row[t] # None /\ ~row[t].published /\ ~row[t].close_requested}

StartPublisher ==
    /\ job = Idle
    /\ job' = Loading(Unpublished, "create", "load_close")
    /\ UNCHANGED <<object, row, remote, held, requeued, abandoned>>

OnDeskPro(t) == {i \in Ids : remote[t][i] # None}

\* create_ticket, up to the ticket itself: a new one gets the next id.
CreateRemote(t) ==
    /\ job.phase = "create" /\ Current(t)
    /\ job.rows[t].id = 0
    /\ Dedup => OnDeskPro(t) = {}
    /\ \E i \in Ids :
        /\ OnDeskPro(t) = {k \in Ids : k < i}
        /\ remote' = [remote EXCEPT ![t][i] = "awaiting_agent"]
        /\ job' = [job EXCEPT !.phase = "message", !.rows[t].id = i]
    /\ UNCHANGED <<object, row, held, requeued, abandoned>>

\* reopen_ticket
Reopen(t) ==
    /\ job.phase = "create" /\ Current(t)
    /\ job.rows[t].id # 0
    /\ remote' = IF remote[t][job.rows[t].id] = "resolved"
                 THEN [remote EXCEPT ![t][job.rows[t].id] = "awaiting_agent"]
                 ELSE remote
    /\ job' = [job EXCEPT !.phase = "message"]
    /\ UNCHANGED <<object, row, held, requeued, abandoned>>

\* Mutant of RefuseDuplicate: the command ends instead of closing tickets.
RefuseDuplicateEnding(t) ==
    /\ job.phase = "create" /\ Current(t)
    /\ job.rows[t].id = 0
    /\ Dedup /\ OnDeskPro(t) # {}
    /\ job' = Idle
    /\ UNCHANGED <<object, row, remote, held, requeued, abandoned>>

\* APIError with code duplicate_ticket: publish_new_tickets returns.
RefuseDuplicate(t) ==
    /\ job.phase = "create" /\ Current(t)
    /\ job.rows[t].id = 0
    /\ Dedup /\ OnDeskPro(t) # {}
    /\ job' = [phase |-> "load_close", rows |-> NoRows]
    /\ UNCHANGED <<object, row, remote, held, requeued, abandoned>>

\* Any other APIError, from any of the calls of create_ticket.
Refuse(t) ==
    /\ job.phase \in {"create", "message"} /\ Current(t)
    /\ job' = [job EXCEPT !.phase = "failed"]
    /\ UNCHANGED <<object, row, remote, held, requeued, abandoned>>

PostMessage(t) ==
    /\ job.phase = "message" /\ Current(t)
    /\ job' = [job EXCEPT !.phase = "created"]
    /\ UNCHANGED <<object, row, remote, held, requeued, abandoned>>

\* Mutant of SavePublished: the bare ticket.save().
SavePublishedWholeRow(t) ==
    /\ job.phase = "created" /\ Current(t)
    /\ row' = [row EXCEPT ![t] = [job.rows[t] EXCEPT !.published = TRUE]]
    /\ job' = DoneWith(t, "create", "load_close")
    /\ UNCHANGED <<object, remote, held, requeued, abandoned>>

SavePublished(t) ==
    /\ job.phase = "created" /\ Current(t)
    /\ row' = [row EXCEPT ![t].published = TRUE, ![t].id = job.rows[t].id]
    /\ job' = DoneWith(t, "create", "load_close")
    /\ UNCHANGED <<object, remote, held, requeued, abandoned>>

\* Mutant of SaveFailed: a ticket that failed halfway keeps no id.
SaveFailedWithoutId(t) ==
    /\ job.phase = "failed" /\ Current(t)
    /\ row' = [row EXCEPT ![t].published = TRUE, ![t].failed = TRUE]
    /\ job' = DoneWith(t, "create", "load_close")
    /\ UNCHANGED <<object, remote, held, requeued, abandoned>>

\* Mutant of SaveFailed: a failed ticket stays in the queue.
SaveFailedUnpublished(t) ==
    /\ job.phase = "failed" /\ Current(t)
    /\ row' = [row EXCEPT ![t].id = job.rows[t].id, ![t].failed = TRUE]
    /\ job' = DoneWith(t, "create", "load_close")
    /\ UNCHANGED <<object, remote, held, requeued, abandoned>>

SaveFailed(t) ==
    /\ job.phase = "failed" /\ Current(t)
    /\ row' = [row EXCEPT ![t].published = TRUE, ![t].id = job.rows[t].id,
                          ![t].failed = TRUE]
    /\ job' = DoneWith(t, "create", "load_close")
    /\ UNCHANGED <<object, remote, held, requeued, abandoned>>

---------------------------------------------------------------------------
(* process_close_requests *)

\* Mutant of ToClose: whatever is published is loaded.
ToCloseAny ==
    {t \in Tickets : row[t] # None /\ row[t].published /\ ~row[t].closed}

ToClose ==
    {t \in Tickets : row[t] # None /\ row[t].close_requested /\ ~row[t].closed}

LoadCloseRequests ==
    /\ job.phase = "load_close"
    /\ job' = Loading(ToClose, "close", "idle")
    /\ UNCHANGED <<object, row, remote, held, requeued, abandoned>>

\* Mutant of Drop: every flagged row is dropped.
DropAll(t) ==
    /\ job.phase = "close" /\ Current(t)
    /\ row' = [row EXCEPT ![t] = None]
    /\ job' = DoneWith(t, "close", "idle")
    /\ UNCHANGED <<object, remote, held, requeued, abandoned>>

\* Never published: only the row is deleted.
Drop(t) ==
    /\ job.phase = "close" /\ Current(t)
    /\ job.rows[t].id = 0
    /\ row' = [row EXCEPT ![t] = None]
    /\ job' = DoneWith(t, "close", "idle")
    /\ UNCHANGED <<object, remote, held, requeued, abandoned>>

\* close_ticket: the status decides, or the call is refused.
GetStatus(t) ==
    /\ job.phase = "close" /\ Current(t)
    /\ job.rows[t].id # 0
    /\ \/ /\ remote[t][job.rows[t].id] \in DESKPRO_AUTO_CLOSE_STATUSES
          /\ job' = [job EXCEPT !.phase = "resolve"]
       \/ job' = [job EXCEPT !.phase = "mark"]
    /\ UNCHANGED <<object, row, remote, held, requeued, abandoned>>

Resolve(t) ==
    /\ job.phase = "resolve" /\ Current(t)
    /\ \/ remote' = [remote EXCEPT ![t][job.rows[t].id] = "resolved"]
       \/ remote' = remote  \* APIError
    /\ job' = [job EXCEPT !.phase = "mark"]
    /\ UNCHANGED <<object, row, held, requeued, abandoned>>

MarkClosed(t) ==
    /\ job.phase = "mark" /\ Current(t)
    /\ row' = [row EXCEPT ![t].closed = TRUE]
    /\ job' = DoneWith(t, "close", "idle")
    /\ UNCHANGED <<object, remote, held, requeued, abandoned>>

\* Is the publisher between the creation of a ticket and the save of its id?
Creating(t) == job.phase \in {"message", "created", "failed"} /\ Current(t)

\* A timeout is no APIError: it ends the command, as a kill does, whether or
\* not DeskPro has carried out the call.
Die ==
    /\ job # Idle
    /\ job' = Idle
    /\ abandoned' = abandoned \cup {t \in Tickets : Creating(t)}
    /\ UNCHANGED <<object, row, remote, held, requeued>>

---------------------------------------------------------------------------
(* pdb_deskpro_requeue, and the agents. *)

RequeueLoad(t) ==
    /\ t \in Requeued \ requeued
    /\ row[t] # None
    /\ held' = [held EXCEPT ![t] = row[t]]
    /\ requeued' = requeued \cup {t}
    /\ UNCHANGED <<object, row, remote, job, abandoned>>

\* The bare ticket.save() writes every column, and inserts a row that is gone.
RequeueSave(t) ==
    /\ held[t] # None
    /\ row' = [row EXCEPT ![t] = [held[t] EXCEPT !.published = FALSE, !.failed = FALSE]]
    /\ held' = [held EXCEPT ![t] = None]
    /\ UNCHANGED <<object, remote, job, requeued, abandoned>>

Agent(t) ==
    /\ \E i \in OnDeskPro(t), s \in Status : remote' = [remote EXCEPT ![t][i] = s]
    /\ UNCHANGED <<object, row, job, held, requeued, abandoned>>

Publish(t) ==
    \/ CreateRemote(t) \/ Reopen(t) \/ RefuseDuplicate(t) \/ Refuse(t)
    \/ PostMessage(t) \/ SavePublished(t) \/ SaveFailed(t)

Close(t) == Drop(t) \/ GetStatus(t) \/ Resolve(t) \/ MarkClosed(t)

Publisher ==
    \/ StartPublisher
    \/ LoadCloseRequests
    \/ \E t \in Tickets : Publish(t) \/ Close(t)

Next ==
    \/ Publisher
    \/ Die
    \/ \E t \in Tickets : \/ Queue(t) \/ Approve(t) \/ Delete(t)
                          \/ RequeueLoad(t) \/ RequeueSave(t) \/ Agent(t)

Spec == Init /\ [][Next]_vars

---------------------------------------------------------------------------
(* Properties. *)

\* The publisher loads a batch, talks to DeskPro for minutes and then saves:
\* a close request set meanwhile survives, wherever the publisher is and dies.
\* The requeue command does overwrite one, with the row it has loaded.
CloseRequestSurvives ==
    [][\A t \in Tickets \ requeued :
         row[t] # None /\ row[t].close_requested /\ row'[t] # None
            => row'[t].close_requested]_vars

Sound == Tickets \ (requeued \cup abandoned)

\* Every ticket on DeskPro is known by its row, or to the publisher that has
\* just created it; so a row dropped as never published leaves none behind.
\* Only a publisher that dies in between, or a requeue, breaks this, and only
\* for the ticket concerned.
NoOrphans ==
    \A t \in Sound : \A i \in OnDeskPro(t) :
        \/ row[t] # None /\ row[t].id = i
        \/ Creating(t) /\ job.rows[t].id = i

\* Cron starts the publisher again and again; it makes its calls and saves.
FairSpec == Spec /\ WF_vars(Publisher)

\* The last pass of a run also ends in Idle: that is no death.
DiesNoMore == <>[][Die => Publisher]_vars

\* DeskPro has the ticket, its row does not know: it is refused for ever as a
\* duplicate, and every pass returns at it.
Blocking(t) == Dedup /\ row[t] # None /\ row[t].id = 0 /\ OnDeskPro(t) # {}

Waiting(t) == row[t] # None /\ ~row[t].published /\ ~row[t].close_requested

\* The queue keeps moving: once the publisher is no longer killed, every
\* ticket is published, marked failed, or flagged to be closed, unless it is
\* at or behind one that DeskPro refuses as a duplicate.
PublishedInTheEnd ==
    DiesNoMore =>
        \A t \in Tickets :
            Waiting(t) ~> ~Waiting(t) \/ \E u \in Tickets : u <= t /\ Blocking(u)

\* And the ticket of every deleted object is dropped or processed, whatever is
\* refused; a requeue may have overwritten the request.
ClosedInTheEnd ==
    DiesNoMore =>
        \A t \in Tickets :
            object[t] = "deleted" /\ row[t] # None
                ~> row[t] = None \/ row[t].closed \/ t \in requeued

---------------------------------------------------------------------------
(* The rows, the publisher and DeskPro as lives of tickets. *)

StageOf(t) ==
    IF t \notin Sound THEN "lost"
    ELSE IF row[t] = None THEN IF object[t] = "none" THEN "none" ELSE "dropped"
    ELSE IF row[t].closed THEN "closed"
    ELSE IF row[t].published THEN "settled" ELSE "waiting"

Stage == [t \in Tickets |-> StageOf(t)]

Withdrawn == {t \in Tickets : object[t] = "deleted"}

Desk == [t \in Tickets |-> IF t \in Sound THEN OnDeskPro(t) ELSE {}]

Life == INSTANCE TicketLife
            WITH stage <- Stage, withdrawn <- Withdrawn, desk <- Desk

\* Whatever is refused and whoever dies, the publisher gives every ticket the
\* life TicketLife promises: none is made twice, settled twice, closed without
\* its object having been deleted, or dropped while DeskPro has it.
TicketsLive == Life!Spec

---------------------------------------------------------------------------
(* Why NoOrphans holds: what the publisher has loaded of a sound ticket is  *)
(* still what the table says.                                              *)

\* A loaded row has the id it was loaded with; only the ticket just created has
\* an id the row does not have yet.
LoadedIsCurrent ==
    \A t \in Loaded \cap Sound :
        /\ job.rows[t].id \in OnDeskPro(t) \cup {0}
        /\ \/ job.rows[t].id = row[t].id
           \/ row[t].id = 0 /\ Creating(t)

\* The ids of the table are tickets of DeskPro, and rows belong to objects.
IdsAreReal ==
    \A t \in Sound :
        row[t] # None => object[t] # "none" /\ row[t].id \in OnDeskPro(t) \cup {0}

ResolvesPublished ==
    job.phase \in {"resolve", "mark"} => \A t \in Loaded : Current(t) => job.rows[t].id # 0

NothingLoadedYet == job.phase = "load_close" => job.rows = NoRows

\* What is inductive, and implies NoOrphans.
OwnershipInv ==
    /\ NoOrphans
    /\ LoadedIsCurrent
    /\ IdsAreReal
    /\ ResolvesPublished
    /\ NothingLoadedYet
    /\ \A t \in Tickets \ requeued : held[t] = None

=============================================================================
