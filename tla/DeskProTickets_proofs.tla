----------------------- MODULE DeskProTickets_proofs -----------------------
(***************************************************************************)
(* Proofs about DeskProTickets: type correctness; a close request is only  *)
(* ever overwritten by a requeue of its row; a ticket of DeskPro is only   *)
(* orphaned by a requeue or by a publisher that dies creating it; and the  *)
(* whole implements TicketLife, for any number of tickets, any batch and   *)
(* whether or not DeskPro refuses duplicates.                              *)
(***************************************************************************)
EXTENDS DeskProTickets, TLAPS

---------------------------------------------------------------------------
(* The publisher's ticket. *)

LEMMA CurrentIsUnique ==
    ASSUME NEW t, NEW u, Current(t), Current(u)
    PROVE  t = u
BY DeskProAssumption DEF Current, Loaded

LEMMA LoadingJob ==
    ASSUME TypeOK, NEW S \in SUBSET Tickets, NEW phase \in Phases, NEW other \in Phases
    PROVE  /\ Loading(S, phase, other) \in [phase : Phases, rows : Rows]
           /\ Loading(S, phase, other).phase \in {phase, other}
           /\ \A t \in Tickets : Loading(S, phase, other).rows[t] # None
                 => t \in S /\ Loading(S, phase, other).rows[t] = row[t]
BY DEF Loading, FirstOf, TypeOK, Rows

LEMMA DoneWithJob ==
    ASSUME TypeOK, NEW t \in Tickets, NEW phase \in Phases, NEW after \in Phases,
           job' = DoneWith(t, phase, after)
    PROVE  /\ job' \in [phase : Phases, rows : Rows]
           /\ job'.phase \in {phase, after}
           /\ job'.rows = [job.rows EXCEPT ![t] = None]
BY DEF DoneWith, TypeOK, Rows

LEMMA PhaseNames ==
    /\ "idle" \in Phases /\ "create" \in Phases /\ "message" \in Phases
    /\ "created" \in Phases /\ "failed" \in Phases /\ "load_close" \in Phases
    /\ "close" \in Phases /\ "resolve" \in Phases /\ "mark" \in Phases
BY DEF Phases

\* What the publisher has loaded is still in the table: nobody else deletes.
LoadedExists == \A t \in Tickets : job.rows[t] # None => row[t] # None

TypeInv == TypeOK /\ LoadedExists

---------------------------------------------------------------------------
(* Type correctness. *)

LEMMA InitTypeInv == Init => TypeInv
BY DEF Init, TypeInv, TypeOK, LoadedExists, NoRows, Rows, Idle, Phases

LEMMA RowUpdates ==
    ASSUME NEW r \in Row, NEW i \in Ids \cup {0}
    PROVE  /\ [r EXCEPT !.id = i] \in Row
           /\ [r EXCEPT !.published = TRUE, !.id = i] \in Row
           /\ [r EXCEPT !.published = TRUE, !.id = i, !.failed = TRUE] \in Row
           /\ [r EXCEPT !.closed = TRUE] \in Row
           /\ [r EXCEPT !.close_requested = TRUE] \in Row
           /\ [r EXCEPT !.published = FALSE, !.failed = FALSE] \in Row
           /\ r # None
BY NoneAssumption DEF Row

LEMMA PublishTypeInv ==
    ASSUME TypeInv, NEW t \in Tickets, Publish(t)
    PROVE  TypeInv'
<1> USE DEF TypeInv
<1>1. job.rows[t] # None => job.rows[t] \in Row /\ row[t] \in Row
  BY DEF TypeOK, Rows, LoadedExists
<1>2. Current(t) => job.rows[t] \in Row /\ row[t] \in Row /\ job.rows[t].id \in Ids \cup {0}
  BY <1>1 DEF Current, Loaded, Row
<1>3. CASE CreateRemote(t)
  <2>1. PICK i \in Ids :
           /\ remote' = [remote EXCEPT ![t][i] = "awaiting_agent"]
           /\ job' = [job EXCEPT !.phase = "message", !.rows[t].id = i]
    BY <1>3 DEF CreateRemote
  <2>2. remote' \in [Tickets -> [Ids -> Status \cup {None}]]
    BY <2>1 DEF TypeOK, Status
  <2>3. [job.rows[t] EXCEPT !.id = i] \in Row
    BY <1>2, <1>3, RowUpdates DEF CreateRemote
  <2>4. job'.rows = [job.rows EXCEPT ![t] = [job.rows[t] EXCEPT !.id = i]]
        /\ job' \in [phase : Phases, rows : Rows]
    BY <2>1, <2>3, PhaseNames DEF TypeOK, Rows
  <2>5. LoadedExists'
    BY <1>1, <1>2, <1>3, <2>4, NoneAssumption DEF CreateRemote, LoadedExists, TypeOK, Rows
  <2> QED
    BY <1>3, <2>2, <2>4, <2>5 DEF CreateRemote, TypeOK
<1>4. CASE Reopen(t)
  BY <1>4, PhaseNames DEF Reopen, TypeOK, Status, LoadedExists
<1>5. CASE RefuseDuplicate(t)
  BY <1>5, PhaseNames DEF RefuseDuplicate, TypeOK, NoRows, Rows, LoadedExists
<1>6. CASE Refuse(t)
  BY <1>6, PhaseNames DEF Refuse, TypeOK, LoadedExists
<1>7. CASE PostMessage(t)
  BY <1>7, PhaseNames DEF PostMessage, TypeOK, LoadedExists
<1>8. CASE SavePublished(t) \/ SaveFailed(t)
  <2>1. PICK r \in Row : row' = [row EXCEPT ![t] = r]
    BY <1>2, <1>8, RowUpdates DEF SavePublished, SaveFailed, TypeOK, Rows
  <2>2. row' \in Rows /\ \A u \in Tickets : row[u] # None => row'[u] # None
    BY <2>1, NoneAssumption DEF TypeOK, Rows
  <2>3. job' \in [phase : Phases, rows : Rows] /\ job'.rows = [job.rows EXCEPT ![t] = None]
    BY <1>8, DoneWithJob, PhaseNames DEF SavePublished, SaveFailed
  <2> QED
    BY <1>8, <2>2, <2>3 DEF SavePublished, SaveFailed, TypeOK, Rows, LoadedExists
<1> QED
  BY <1>3, <1>4, <1>5, <1>6, <1>7, <1>8 DEF Publish

LEMMA CloseTypeInv ==
    ASSUME TypeInv, NEW t \in Tickets, Close(t)
    PROVE  TypeInv'
<1> USE DEF TypeInv
<1>1. Current(t) => job.rows[t] \in Row /\ row[t] \in Row
  BY DEF Current, Loaded, TypeOK, Rows, LoadedExists
<1>2. CASE Drop(t)
  <2>1. row' \in Rows
    BY <1>2 DEF Drop, TypeOK, Rows
  <2>2. job' \in [phase : Phases, rows : Rows] /\ job'.rows = [job.rows EXCEPT ![t] = None]
    BY <1>2, DoneWithJob, PhaseNames DEF Drop
  <2> QED
    BY <1>2, <2>1, <2>2 DEF Drop, TypeOK, Rows, LoadedExists
<1>3. CASE GetStatus(t)
  BY <1>3, PhaseNames DEF GetStatus, TypeOK, LoadedExists
<1>4. CASE Resolve(t)
  <2>1. remote[t] \in [Ids -> Status \cup {None}]
    BY DEF TypeOK
  <2>2. [remote[t] EXCEPT ![job.rows[t].id] = "resolved"] \in [Ids -> Status \cup {None}]
    BY <2>1 DEF Status
  <2>3. remote' \in [Tickets -> [Ids -> Status \cup {None}]]
    BY <1>4, <2>2 DEF Resolve, TypeOK
  <2> QED
    BY <1>4, <2>3, PhaseNames DEF Resolve, TypeOK, LoadedExists
<1>5. CASE MarkClosed(t)
  <2>1. [row[t] EXCEPT !.closed = TRUE] \in Row
    BY <1>1, <1>5, RowUpdates DEF MarkClosed
  <2>2. row' = [row EXCEPT ![t] = [row[t] EXCEPT !.closed = TRUE]]
    BY <1>5 DEF MarkClosed
  <2>3. row' \in Rows /\ \A u \in Tickets : row[u] # None => row'[u] # None
    BY <2>1, <2>2, NoneAssumption DEF TypeOK, Rows
  <2>4. job' \in [phase : Phases, rows : Rows] /\ job'.rows = [job.rows EXCEPT ![t] = None]
    BY <1>5, DoneWithJob, PhaseNames DEF MarkClosed
  <2> QED
    BY <1>5, <2>3, <2>4 DEF MarkClosed, TypeOK, Rows, LoadedExists
<1> QED
  BY <1>2, <1>3, <1>4, <1>5 DEF Close

LEMMA NextTypeInv == TypeInv /\ [Next]_vars => TypeInv'
<1> SUFFICES ASSUME TypeInv, [Next]_vars
             PROVE  TypeInv'
  OBVIOUS
<1> USE DEF TypeInv
<1>1. CASE StartPublisher
  <2>1. Unpublished \in SUBSET Tickets /\ \A t \in Unpublished : row[t] # None
    BY DEF Unpublished
  <2>2. job' = Loading(Unpublished, "create", "load_close")
    BY <1>1 DEF StartPublisher
  <2>3. /\ job' \in [phase : Phases, rows : Rows]
        /\ \A t \in Tickets : job'.rows[t] # None => t \in Unpublished
    BY <2>1, <2>2, LoadingJob, PhaseNames
  <2> QED
    BY <1>1, <2>1, <2>3 DEF StartPublisher, TypeOK, LoadedExists
<1>2. CASE LoadCloseRequests
  <2>1. ToClose \in SUBSET Tickets /\ \A t \in ToClose : row[t] # None
    BY DEF ToClose
  <2>2. job' = Loading(ToClose, "close", "idle")
    BY <1>2 DEF LoadCloseRequests
  <2>3. /\ job' \in [phase : Phases, rows : Rows]
        /\ \A t \in Tickets : job'.rows[t] # None => t \in ToClose
    BY <2>1, <2>2, LoadingJob, PhaseNames
  <2> QED
    BY <1>2, <2>1, <2>3 DEF LoadCloseRequests, TypeOK, LoadedExists
<1>3. ASSUME NEW t \in Tickets, Publish(t) \/ Close(t)
      PROVE  TypeInv'
  BY <1>3, PublishTypeInv, CloseTypeInv
<1>4. CASE Die
  BY <1>4, PhaseNames DEF Die, TypeOK, Idle, NoRows, Rows, LoadedExists
<1>5. ASSUME NEW t \in Tickets, NEW r \in Row, row' = [row EXCEPT ![t] = r]
      PROVE  row' \in Rows /\ \A u \in Tickets : row[u] # None => row'[u] # None
  BY <1>5, NoneAssumption DEF TypeOK, Rows
<1>6. ASSUME NEW t \in Tickets, Queue(t)
      PROVE  TypeInv'
  <2>1. PICK r \in Row : row' = [row EXCEPT ![t] = r]
    BY <1>6 DEF Queue, Row
  <2> QED
    BY <1>5, <1>6, <2>1 DEF Queue, TypeOK, LoadedExists
<1>7. ASSUME NEW t \in Tickets, Approve(t)
      PROVE  TypeInv'
  BY <1>7 DEF Approve, TypeOK, LoadedExists
<1>8. ASSUME NEW t \in Tickets, Delete(t)
      PROVE  TypeInv'
  <2>1. CASE row[t] = None
    BY <1>8, <2>1 DEF Delete, TypeOK, LoadedExists
  <2>2. CASE row[t] # None
    <3>1. row[t] \in Row
      BY <2>2 DEF TypeOK, Rows
    <3>2. [row[t] EXCEPT !.close_requested = TRUE] \in Row
      BY <3>1, RowUpdates
    <3>3. row' = [row EXCEPT ![t] = [row[t] EXCEPT !.close_requested = TRUE]]
      BY <1>8, <2>2 DEF Delete
    <3> QED
      BY <1>5, <1>8, <3>2, <3>3 DEF Delete, TypeOK, LoadedExists
  <2> QED
    BY <2>1, <2>2
<1>9. ASSUME NEW t \in Tickets, RequeueLoad(t)
      PROVE  TypeInv'
  BY <1>9 DEF RequeueLoad, TypeOK, Rows, LoadedExists
<1>10. ASSUME NEW t \in Tickets, RequeueSave(t)
       PROVE  TypeInv'
  <2>1. held[t] \in Row
    BY <1>10 DEF RequeueSave, TypeOK, Rows
  <2>2. PICK r \in Row : row' = [row EXCEPT ![t] = r]
    BY <1>10, <2>1, RowUpdates DEF RequeueSave
  <2> QED
    BY <1>5, <1>10, <2>2 DEF RequeueSave, TypeOK, Rows, LoadedExists
<1>11. ASSUME NEW t \in Tickets, Agent(t)
       PROVE  TypeInv'
  BY <1>11 DEF Agent, TypeOK, OnDeskPro, LoadedExists
<1>12. CASE UNCHANGED vars
  BY <1>12 DEF vars, TypeOK, LoadedExists
<1> QED
  BY <1>1, <1>2, <1>3, <1>4, <1>6, <1>7, <1>8, <1>9, <1>10, <1>11, <1>12
     DEF Next, Publisher

\* Every reachable state is well typed.
THEOREM TypeCorrect == Spec => []TypeOK
<1>1. TypeInv => TypeOK
  BY DEF TypeInv
<1> QED
  BY <1>1, InitTypeInv, NextTypeInv, PTL DEF Spec

---------------------------------------------------------------------------
(* Close requests. *)

\* A row that is not requeued is only ever written field by field, and created
\* once.
FieldwiseInv ==
    /\ TypeInv
    /\ \A t \in Tickets \ requeued : held[t] = None
    /\ \A t \in Tickets \ requeued : row[t] # None => object[t] # "none"

LEMMA InitFieldwise == Init => FieldwiseInv
BY InitTypeInv DEF Init, FieldwiseInv, NoRows

\* What a step does to the rows that existed before it.
LEMMA StepKeepsRequests ==
    ASSUME FieldwiseInv, [Next]_vars
    PROVE  /\ requeued \subseteq requeued'
           /\ \A t \in Tickets \ requeued' : held'[t] = None
           /\ \A t \in Tickets : object[t] # "none" => object'[t] # "none"
           /\ \A t \in Tickets \ requeued :
                /\ row'[t] # None => row[t] # None \/ object'[t] # "none"
                /\ row[t] # None /\ row'[t] # None
                     => (row[t].close_requested => row'[t].close_requested)
<1> DEFINE Kept ==
        /\ requeued \subseteq requeued'
        /\ \A t \in Tickets \ requeued' : held'[t] = None
        /\ \A t \in Tickets : object[t] # "none" => object'[t] # "none"
        /\ \A t \in Tickets \ requeued :
             /\ row'[t] # None => row[t] # None \/ object'[t] # "none"
             /\ row[t] # None /\ row'[t] # None
                  => (row[t].close_requested => row'[t].close_requested)
<1> SUFFICES Kept
  OBVIOUS
<1> USE DEF FieldwiseInv, TypeInv
<1>1. CASE UNCHANGED <<object, row, held, requeued>>
  BY <1>1
<1>2. ASSUME NEW t \in Tickets, SavePublished(t) \/ SaveFailed(t) \/ MarkClosed(t)
      PROVE  Kept
  <2>1. row[t] \in Row
    BY <1>2 DEF SavePublished, SaveFailed, MarkClosed, Current, Loaded,
                TypeOK, Rows, LoadedExists
  <2>2. row'[t].close_requested = row[t].close_requested
    BY <1>2, <2>1 DEF SavePublished, SaveFailed, MarkClosed, TypeOK, Rows, Row
  <2>3. \A u \in Tickets : u # t => row'[u] = row[u]
    BY <1>2 DEF SavePublished, SaveFailed, MarkClosed, TypeOK, Rows
  <2> QED
    BY <1>2, <2>1, <2>2, <2>3, NoneAssumption DEF SavePublished, SaveFailed, MarkClosed
<1>3. ASSUME NEW t \in Tickets, Drop(t)
      PROVE  Kept
  BY <1>3 DEF Drop, TypeOK, Rows
<1>4. ASSUME NEW t \in Tickets, Queue(t)
      PROVE  Kept
  BY <1>4 DEF Queue, TypeOK, Rows
<1>5. ASSUME NEW t \in Tickets, Approve(t)
      PROVE  Kept
  BY <1>5 DEF Approve, TypeOK
<1>6. ASSUME NEW t \in Tickets, Delete(t)
      PROVE  Kept
  <2>1. \A u \in Tickets : u # t => row'[u] = row[u]
    BY <1>6 DEF Delete, TypeOK, Rows
  <2>2. row[t] = None => row'[t] = None
    BY <1>6 DEF Delete
  <2>3. row[t] # None => row'[t].close_requested
    <3>1. CASE row[t] # None
      <4>1. row' = [row EXCEPT ![t] = [row[t] EXCEPT !.close_requested = TRUE]]
        BY <1>6, <3>1 DEF Delete
      <4>2. row[t] \in Row
        BY <3>1 DEF TypeOK, Rows
      <4> QED
        BY <4>1, <4>2 DEF TypeOK, Rows, Row
    <3> QED
      BY <3>1
  <2> QED
    BY <1>6, <2>1, <2>2, <2>3 DEF Delete, TypeOK
<1>7. ASSUME NEW t \in Tickets, RequeueLoad(t)
      PROVE  Kept
  BY <1>7 DEF RequeueLoad, TypeOK, Rows
<1>8. ASSUME NEW t \in Tickets, RequeueSave(t)
      PROVE  Kept
  <2>1. t \in requeued
    BY <1>8 DEF RequeueSave
  <2>2. \A u \in Tickets : u # t => row'[u] = row[u] /\ held'[u] = held[u]
    BY <1>8 DEF RequeueSave, TypeOK, Rows
  <2> QED
    BY <1>8, <2>1, <2>2 DEF RequeueSave
<1> QED
  BY <1>1, <1>2, <1>3, <1>4, <1>5, <1>6, <1>7, <1>8
     DEF Next, Publisher, Publish, Close, StartPublisher, LoadCloseRequests, CreateRemote,
         Reopen, RefuseDuplicate, Refuse, PostMessage, GetStatus, Resolve, Die, Agent, vars

LEMMA NextFieldwise == FieldwiseInv /\ [Next]_vars => FieldwiseInv'
<1> SUFFICES ASSUME FieldwiseInv, [Next]_vars
             PROVE  FieldwiseInv'
  OBVIOUS
<1>1. TypeInv'
  BY NextTypeInv DEF FieldwiseInv
<1> QED
  BY <1>1, StepKeepsRequests DEF FieldwiseInv

\* A close request is never overwritten unless its row is requeued, wherever
\* the publisher is and even if it dies.
THEOREM CloseRequestSurvivesHolds == Spec => CloseRequestSurvives
<1>1. FieldwiseInv /\ [Next]_vars =>
        [\A t \in Tickets \ requeued :
           row[t] # None /\ row[t].close_requested /\ row'[t] # None
              => row'[t].close_requested]_vars
  BY StepKeepsRequests
<1> QED
  BY <1>1, InitFieldwise, NextFieldwise, PTL DEF Spec, CloseRequestSurvives

---------------------------------------------------------------------------
(* Orphans. *)

OwnedInv == TypeInv /\ OwnershipInv

LEMMA InitOwned == Init => OwnedInv
BY InitTypeInv, NoneAssumption
   DEF Init, OwnedInv, OwnershipInv, NoOrphans, LoadedIsCurrent, IdsAreReal,
       ResolvesPublished, NothingLoadedYet, Sound, OnDeskPro, Loaded, Idle, NoRows

\* NoOrphans, seen from the rows: a ticket is known by its row unless the
\* publisher has just created it.
LEMMA OrphanFree ==
    ASSUME OwnedInv, NEW t \in Sound, t \notin Loaded \/ job.rows[t].id = row[t].id
    PROVE  \A i \in OnDeskPro(t) : row[t] # None /\ row[t].id = i
BY DEF OwnedInv, OwnershipInv, NoOrphans, LoadedIsCurrent, Current, Creating, Loaded,
       Sound, TypeInv, LoadedExists

\* A step that changes neither the tickets of DeskPro nor the ids of the rows,
\* and leaves the publisher alone.
LEMMA QuietStep ==
    ASSUME OwnedInv, TypeOK',
           Sound' \subseteq Sound,
           \A t \in Tickets \ requeued' : held'[t] = None,
           \A t \in Sound' : OnDeskPro(t)' = OnDeskPro(t),
           \A t \in Sound' : row[t] # None => row'[t] # None /\ row'[t].id = row[t].id,
           \A t \in Sound' : row'[t] # None => object'[t] # "none",
           \A t \in Sound' : row'[t] # None /\ row[t] = None => row'[t].id = 0,
           job' = job
    PROVE  OwnershipInv'
<1>1. /\ \A t : Current(t)' <=> Current(t)
      /\ \A t : Creating(t)' <=> Creating(t)
      /\ Loaded' = Loaded
  BY DEF Current, Loaded, Creating
<1>2. NoOrphans'
  BY <1>1 DEF OwnedInv, OwnershipInv, NoOrphans
<1>3. LoadedIsCurrent'
  BY <1>1 DEF OwnedInv, OwnershipInv, LoadedIsCurrent, TypeInv, LoadedExists, Loaded
<1>4. IdsAreReal'
  BY DEF OwnedInv, OwnershipInv, IdsAreReal
<1>5. ResolvesPublished' /\ NothingLoadedYet'
  BY <1>1 DEF OwnedInv, OwnershipInv, ResolvesPublished, NothingLoadedYet
<1> QED
  BY <1>2, <1>3, <1>4, <1>5 DEF OwnershipInv

\* The publisher loads a batch, having nothing loaded.
LEMMA LoadingOwned ==
    ASSUME OwnedInv, NEW S \in SUBSET Tickets, \A t \in S : row[t] # None,
           NEW phase \in Phases, NEW other \in Phases,
           {phase, other} \cap {"resolve", "mark", "message", "created", "failed"} = {},
           phase # "load_close",
           job.rows = NoRows,
           job' = Loading(S, phase, other),
           UNCHANGED <<object, row, remote, held, requeued, abandoned>>
    PROVE  OwnershipInv'
<1>1. Loaded = {}
  BY DEF Loaded, NoRows
<1>2. /\ job'.phase \in {phase, other}
      /\ \A t \in Tickets : job'.rows[t] # None => t \in S /\ job'.rows[t] = row[t]
  BY LoadingJob DEF OwnedInv, TypeInv
<1>3. \A t \in Sound : \A i \in OnDeskPro(t) : row[t] # None /\ row[t].id = i
  BY <1>1, OrphanFree
<1>4. Sound' = Sound /\ \A t \in Tickets : OnDeskPro(t)' = OnDeskPro(t)
  BY DEF OnDeskPro, Sound
<1>5. NoOrphans'
  BY <1>3, <1>4 DEF NoOrphans, Sound
<1>6. LoadedIsCurrent'
  BY <1>2, <1>4 DEF LoadedIsCurrent, Loaded, Sound, OwnedInv, OwnershipInv, IdsAreReal
<1>7. IdsAreReal'
  BY <1>4 DEF OwnedInv, OwnershipInv, IdsAreReal, Sound
<1>8. ResolvesPublished'
  BY <1>2 DEF ResolvesPublished
<1>9. NothingLoadedYet'
  BY DEF NothingLoadedYet, Loading, NoRows
<1> QED
  BY <1>5, <1>6, <1>7, <1>8, <1>9 DEF OwnershipInv, OwnedInv

\* The publisher goes on with the ticket it is working on.
LEMMA SameTicketOwned ==
    ASSUME OwnedInv, NEW t \in Tickets, Current(t),
           job'.rows = job.rows,
           job.phase \in {"message", "created", "failed"}
              => job'.phase \in {"message", "created", "failed"},
           job'.phase \in {"resolve", "mark"} => job.rows[t].id # 0,
           job'.phase # "load_close",
           \A u \in Sound : OnDeskPro(u)' = OnDeskPro(u),
           UNCHANGED <<object, row, held, requeued, abandoned>>
    PROVE  OwnershipInv'
<1>1. /\ Loaded' = Loaded /\ Sound' = Sound
      /\ \A u : Current(u)' <=> Current(u)
      /\ \A u : Creating(u) => Creating(u)'
  BY DEF Current, Loaded, Sound, Creating
<1>2. NoOrphans'
  BY <1>1 DEF OwnedInv, OwnershipInv, NoOrphans
<1>3. LoadedIsCurrent'
  BY <1>1 DEF OwnedInv, OwnershipInv, LoadedIsCurrent, Loaded
<1>4. IdsAreReal'
  BY <1>1 DEF OwnedInv, OwnershipInv, IdsAreReal
<1>5. ResolvesPublished' /\ NothingLoadedYet'
  BY <1>1, CurrentIsUnique DEF ResolvesPublished, NothingLoadedYet
<1> QED
  BY <1>2, <1>3, <1>4, <1>5 DEF OwnedInv, OwnershipInv

\* The publisher is done with its ticket and leaves a row that knows it.
LEMMA DoneOwned ==
    ASSUME OwnedInv, NEW t \in Tickets, Current(t),
           NEW phase \in Phases, NEW after \in Phases,
           {phase, after} \cap {"resolve", "mark", "message", "created", "failed"} = {},
           phase # "load_close",
           job' = DoneWith(t, phase, after),
           \A u \in Tickets : u # t => row'[u] = row[u],
           t \in Sound => \A i \in OnDeskPro(t) : row'[t] # None /\ row'[t].id = i,
           t \in Sound /\ row'[t] # None => row'[t].id \in OnDeskPro(t) \cup {0},
           UNCHANGED <<object, remote, held, requeued, abandoned>>
    PROVE  OwnershipInv'
<1>1. /\ job'.rows = [job.rows EXCEPT ![t] = None]
      /\ job'.phase \in {phase, after}
  BY DoneWithJob DEF OwnedInv, TypeInv
<1>2. \A u \in Tickets : job'.rows[u] = IF u = t THEN None ELSE job.rows[u]
  BY <1>1 DEF OwnedInv, TypeInv, TypeOK, Rows
<1>3. /\ Sound' = Sound /\ Sound \subseteq Tickets
      /\ \A u \in Tickets : OnDeskPro(u)' = OnDeskPro(u)
  BY DEF OnDeskPro, Sound
<1>4. \A u : Creating(u) => u = t
  BY CurrentIsUnique DEF Creating
<1>5. NoOrphans'
  BY <1>3, <1>4 DEF OwnedInv, OwnershipInv, NoOrphans
<1>6. LoadedIsCurrent'
  BY <1>2, <1>3, <1>4 DEF OwnedInv, OwnershipInv, LoadedIsCurrent, Loaded
<1>7. IdsAreReal'
  BY <1>3 DEF OwnedInv, OwnershipInv, IdsAreReal, TypeInv, LoadedExists, Current, Loaded
<1>8. ResolvesPublished'
  BY <1>1 DEF ResolvesPublished
<1>9. NothingLoadedYet'
  <2>1. ASSUME job'.phase = "load_close"
        PROVE  Loaded = {t}
    BY <2>1 DEF DoneWith
  <2>2. ASSUME Loaded = {t}
        PROVE  job'.rows = NoRows
    BY <1>1, <2>2 DEF Loaded, NoRows, OwnedInv, TypeInv, TypeOK, Rows
  <2> QED
    BY <2>1, <2>2 DEF NothingLoadedYet, NoRows
<1> QED
  BY <1>5, <1>6, <1>7, <1>8, <1>9 DEF OwnedInv, OwnershipInv

LEMMA CreateRemoteOwned ==
    ASSUME OwnedInv, NEW t \in Tickets, CreateRemote(t)
    PROVE  OwnershipInv'
<1>1. PICK i \in Ids :
         /\ OnDeskPro(t) = {k \in Ids : k < i}
         /\ remote' = [remote EXCEPT ![t][i] = "awaiting_agent"]
         /\ job' = [job EXCEPT !.phase = "message", !.rows[t].id = i]
  BY DEF CreateRemote
<1>2. Current(t) /\ t \in Loaded /\ job.rows[t].id = 0 /\ row[t] # None
  BY DEF CreateRemote, Current, Loaded, OwnedInv, TypeInv, LoadedExists
<1>3. job.rows[t] \in Row /\ [job.rows[t] EXCEPT !.id = i] \in Row
  BY <1>2, RowUpdates DEF OwnedInv, TypeInv, TypeOK, Rows, Loaded
<1>4. /\ job'.phase = "message"
      /\ job'.rows = [job.rows EXCEPT ![t] = [job.rows[t] EXCEPT !.id = i]]
      /\ job'.rows[t].id = i
      /\ \A u \in Tickets : u # t => job'.rows[u] = job.rows[u]
  BY <1>1, <1>3 DEF OwnedInv, TypeInv, TypeOK, Rows, Row
<1>5. Loaded' = Loaded
  BY <1>2, <1>3, <1>4, NoneAssumption DEF Loaded
<1>6. /\ Sound' = Sound /\ Sound \subseteq Tickets /\ Creating(t)'
      /\ \A u : ~Creating(u)
  BY <1>2, <1>4, <1>5 DEF Current, Creating, Sound, CreateRemote
<1>7. t \in Sound => row[t].id = 0 /\ OnDeskPro(t) = {}
  <2> SUFFICES ASSUME t \in Sound
               PROVE  row[t].id = 0 /\ OnDeskPro(t) = {}
    OBVIOUS
  <2>1. row[t].id = 0
    BY <1>2, <1>6 DEF OwnedInv, OwnershipInv, LoadedIsCurrent
  <2> QED
    BY <1>2, <2>1, OrphanFree DEF OnDeskPro, Ids
<1>8. /\ t \in Sound => OnDeskPro(t)' = {i}
      /\ \A u \in Tickets : u # t => OnDeskPro(u)' = OnDeskPro(u)
  BY <1>1, <1>7, NoneAssumption DEF OnDeskPro, OwnedInv, TypeInv, TypeOK, Status
<1>10. UNCHANGED <<object, row, held, requeued, abandoned>>
  BY DEF CreateRemote
<1>11. NoOrphans'
  BY <1>4, <1>6, <1>8, <1>10 DEF OwnedInv, OwnershipInv, NoOrphans
<1>12. LoadedIsCurrent'
  BY <1>4, <1>5, <1>6, <1>7, <1>8, <1>10 DEF OwnedInv, OwnershipInv, LoadedIsCurrent
<1>13. IdsAreReal'
  BY <1>6, <1>7, <1>8, <1>10 DEF OwnedInv, OwnershipInv, IdsAreReal
<1>14. ResolvesPublished' /\ NothingLoadedYet'
  BY <1>4 DEF ResolvesPublished, NothingLoadedYet
<1> QED
  BY <1>10, <1>11, <1>12, <1>13, <1>14 DEF OwnedInv, OwnershipInv

LEMMA PublishOwned ==
    ASSUME OwnedInv, NEW t \in Tickets, Publish(t)
    PROVE  OwnershipInv'
<1>1. Current(t) => t \in Loaded /\ row[t] \in Row /\ job.rows[t] \in Row
  BY DEF Current, Loaded, OwnedInv, TypeInv, TypeOK, Rows, LoadedExists
<1>2. CASE Reopen(t)
  <2>1. \A u \in Sound : OnDeskPro(u)' = OnDeskPro(u)
    BY <1>2, NoneAssumption DEF Reopen, Sound, OnDeskPro, OwnedInv, TypeInv, TypeOK, Status
  <2> QED
    BY <1>2, <2>1, SameTicketOwned DEF Reopen, OwnedInv, TypeInv, TypeOK
<1>3. CASE RefuseDuplicate(t)
  <2>1. /\ job'.phase = "load_close" /\ job'.rows = NoRows
        /\ UNCHANGED <<object, row, remote, held, requeued, abandoned>>
    BY <1>3 DEF RefuseDuplicate
  <2>2. /\ Sound' = Sound /\ Sound \subseteq Tickets /\ \A u : ~Creating(u)
        /\ \A u \in Tickets : OnDeskPro(u)' = OnDeskPro(u) /\ u \notin Loaded'
    BY <1>3, <2>1 DEF RefuseDuplicate, OnDeskPro, Loaded, NoRows, Sound, Creating
  <2>3. NoOrphans'
    BY <2>1, <2>2 DEF OwnedInv, OwnershipInv, NoOrphans
  <2> QED
    BY <2>1, <2>2, <2>3
       DEF OwnedInv, OwnershipInv, LoadedIsCurrent, IdsAreReal, ResolvesPublished,
           NothingLoadedYet, NoRows
<1>4. CASE Refuse(t) \/ PostMessage(t)
  <2>1. \A u \in Sound : OnDeskPro(u)' = OnDeskPro(u)
    BY <1>4 DEF Refuse, PostMessage, OnDeskPro
  <2> QED
    BY <1>4, <2>1, SameTicketOwned DEF Refuse, PostMessage, OwnedInv, TypeInv, TypeOK
<1>5. CASE SavePublished(t) \/ SaveFailed(t)
  <2>1. Current(t) /\ job' = DoneWith(t, "create", "load_close")
    BY <1>5 DEF SavePublished, SaveFailed
  <2>2. /\ row'[t] \in Row /\ row'[t].id = job.rows[t].id
        /\ \A u \in Tickets : u # t => row'[u] = row[u]
    <3>1. row[t] \in Row /\ job.rows[t].id \in Ids \cup {0}
      BY <1>1, <2>1 DEF Row
    <3>2. row \in Rows
      BY DEF OwnedInv, TypeInv, TypeOK
    <3>3. PICK r \in Row : row' = [row EXCEPT ![t] = r] /\ r.id = job.rows[t].id
      <4> DEFINE p == [row[t] EXCEPT !.published = TRUE, !.id = job.rows[t].id]
                 f == [row[t] EXCEPT !.published = TRUE, !.id = job.rows[t].id,
                                     !.failed = TRUE]
      <4>1. p \in Row /\ f \in Row
        BY <3>1, RowUpdates
      <4>2. p.id = job.rows[t].id /\ f.id = job.rows[t].id
        BY <3>1 DEF Row
      <4>3. row' = [row EXCEPT ![t] = p] \/ row' = [row EXCEPT ![t] = f]
        BY <1>5 DEF SavePublished, SaveFailed
      <4> HIDE DEF p, f
      <4> QED
        BY <4>1, <4>2, <4>3
    <3> QED
      BY <3>2, <3>3 DEF Rows
  <2>3. row'[t] # None
    BY <2>2, NoneAssumption
  <2>4. t \in Sound => \A i \in OnDeskPro(t) : row'[t].id = i
    BY <1>1, <2>1, <2>2 DEF OwnedInv, OwnershipInv, NoOrphans, LoadedIsCurrent, OnDeskPro, Ids
  <2>5. t \in Sound => row'[t].id \in OnDeskPro(t) \cup {0}
    BY <1>1, <2>1, <2>2 DEF OwnedInv, OwnershipInv, LoadedIsCurrent
  <2> QED
    BY <1>5, <2>1, <2>2, <2>3, <2>4, <2>5, DoneOwned, PhaseNames DEF SavePublished, SaveFailed
<1> QED
  BY <1>2, <1>3, <1>4, <1>5, CreateRemoteOwned DEF Publish

LEMMA CloseOwned ==
    ASSUME OwnedInv, NEW t \in Tickets, Close(t)
    PROVE  OwnershipInv'
<1>1. Current(t) => t \in Loaded /\ row[t] \in Row /\ job.rows[t] \in Row
  BY DEF Current, Loaded, OwnedInv, TypeInv, TypeOK, Rows, LoadedExists
<1>2. job.phase \in {"close", "resolve", "mark"} /\ Current(t) /\ t \in Sound
        => job.rows[t].id = row[t].id
  BY <1>1 DEF OwnedInv, OwnershipInv, LoadedIsCurrent, Creating
<1>3. CASE Drop(t)
  <2>1. Current(t) /\ job' = DoneWith(t, "close", "idle") /\ (t \in Sound => row[t].id = 0)
    BY <1>2, <1>3 DEF Drop
  <2>2. t \in Sound => OnDeskPro(t) = {}
    BY <1>2, <1>3, <2>1, OrphanFree DEF Drop, OnDeskPro, Ids
  <2>3. row'[t] = None /\ \A u \in Tickets : u # t => row'[u] = row[u]
    BY <1>3 DEF Drop, OwnedInv, TypeInv, TypeOK, Rows
  <2> QED
    BY <1>3, <2>1, <2>2, <2>3, DoneOwned, PhaseNames DEF Drop
<1>4. CASE GetStatus(t)
  <2>1. \A u \in Sound : OnDeskPro(u)' = OnDeskPro(u)
    BY <1>4 DEF GetStatus, OnDeskPro
  <2> QED
    BY <1>4, <2>1, SameTicketOwned DEF GetStatus, OwnedInv, TypeInv, TypeOK
<1>5. CASE Resolve(t)
  <2>1. Current(t) /\ job.rows[t].id # 0
    BY <1>1, <1>5 DEF Resolve, OwnedInv, OwnershipInv, ResolvesPublished
  <2>2. t \in Sound => job.rows[t].id \in OnDeskPro(t)
    BY <1>1, <2>1 DEF OwnedInv, OwnershipInv, LoadedIsCurrent
  <2>3. \A u \in Sound : OnDeskPro(u)' = OnDeskPro(u)
    BY <1>5, <2>2, NoneAssumption DEF Resolve, Sound, OnDeskPro, OwnedInv, TypeInv, TypeOK, Status
  <2> QED
    BY <1>5, <2>1, <2>3, SameTicketOwned DEF Resolve, OwnedInv, TypeInv, TypeOK
<1>6. CASE MarkClosed(t)
  <2>1. Current(t) /\ job' = DoneWith(t, "close", "idle")
    BY <1>6 DEF MarkClosed
  <2>2. /\ row'[t] \in Row /\ row'[t].id = row[t].id
        /\ \A u \in Tickets : u # t => row'[u] = row[u]
    BY <1>1, <1>6 DEF MarkClosed, OwnedInv, TypeInv, TypeOK, Rows, Row
  <2>3. t \in Sound => \A i \in OnDeskPro(t) : row'[t] # None /\ row'[t].id = i
    BY <1>2, <1>6, <2>1, <2>2, OrphanFree, NoneAssumption DEF MarkClosed
  <2>4. t \in Sound => row'[t].id \in OnDeskPro(t) \cup {0}
    BY <1>1, <2>1, <2>2 DEF OwnedInv, OwnershipInv, IdsAreReal, TypeInv, LoadedExists, Loaded
  <2> QED
    BY <1>6, <2>1, <2>2, <2>3, <2>4, DoneOwned, PhaseNames DEF MarkClosed
<1> QED
  BY <1>3, <1>4, <1>5, <1>6 DEF Close

LEMMA NextOwned ==
    ASSUME OwnedInv, [Next]_vars
    PROVE  OwnedInv'
<1> SUFFICES OwnershipInv'
  BY NextTypeInv DEF OwnedInv
<1>1. TypeInv'
  BY NextTypeInv DEF OwnedInv
<1>2. /\ TypeOK' /\ Sound \subseteq Tickets /\ Sound' \subseteq Tickets
      /\ \A t \in Tickets \ requeued : held[t] = None
      /\ \A t \in Sound : row[t] # None => object[t] # "none"
  BY <1>1 DEF OwnedInv, OwnershipInv, TypeInv, IdsAreReal, Sound
<1>3. UNCHANGED <<requeued, abandoned>> => Sound' = Sound
  BY DEF Sound
<1>4. CASE StartPublisher
  <2>1. job.rows = NoRows /\ job' = Loading(Unpublished, "create", "load_close")
    BY <1>4 DEF StartPublisher, Idle
  <2>2. Unpublished \in SUBSET Tickets /\ \A t \in Unpublished : row[t] # None
    BY DEF Unpublished
  <2> QED
    BY <1>4, <2>1, <2>2, LoadingOwned, PhaseNames DEF StartPublisher
<1>5. CASE LoadCloseRequests
  <2>1. job.rows = NoRows /\ job' = Loading(ToClose, "close", "idle")
    BY <1>5 DEF LoadCloseRequests, OwnedInv, OwnershipInv, NothingLoadedYet
  <2>2. ToClose \in SUBSET Tickets /\ \A t \in ToClose : row[t] # None
    BY DEF ToClose
  <2> QED
    BY <1>5, <2>1, <2>2, LoadingOwned, PhaseNames DEF LoadCloseRequests
<1>6. ASSUME NEW t \in Tickets, Queue(t)
      PROVE  OwnershipInv'
  <2>1. /\ t \in Sound => row[t] = None
        /\ row'[t] # None /\ row'[t].id = 0 /\ object'[t] # "none"
    <3>1. object'[t] = "pending" /\ (t \in Sound => row[t] = None)
      BY <1>6 DEF Queue, OwnedInv, OwnershipInv, IdsAreReal, TypeInv, TypeOK
    <3>2. PICK r \in Row : row' = [row EXCEPT ![t] = r] /\ r.id = 0
      <4> DEFINE q == [published |-> FALSE, id |-> 0, close_requested |-> FALSE,
                       closed |-> FALSE, failed |-> FALSE]
      <4>1. q \in Row /\ q.id = 0
        BY DEF Row
      <4>2. row' = [row EXCEPT ![t] = q]
        BY <1>6 DEF Queue
      <4> HIDE DEF q
      <4> QED
        BY <4>1, <4>2
    <3> QED
      BY <3>1, <3>2, NoneAssumption DEF OwnedInv, TypeInv, TypeOK, Rows
  <2>2. \A u \in Tickets : u # t => row'[u] = row[u] /\ object'[u] = object[u]
    BY <1>6 DEF Queue, OwnedInv, TypeInv, TypeOK, Rows
  <2>3. \A u \in Tickets : OnDeskPro(u)' = OnDeskPro(u)
    BY <1>6 DEF Queue, OnDeskPro
  <2> QED
    BY <1>2, <1>3, <1>6, <2>1, <2>2, <2>3, QuietStep DEF Queue
<1>7. ASSUME NEW t \in Tickets, Approve(t)
      PROVE  OwnershipInv'
  <2>1. \A u \in Tickets : OnDeskPro(u)' = OnDeskPro(u)
    BY <1>7 DEF Approve, OnDeskPro
  <2> QED
    BY <1>2, <1>3, <1>7, <2>1, QuietStep DEF Approve, OwnedInv, TypeInv, TypeOK
<1>8. ASSUME NEW t \in Tickets, Delete(t)
      PROVE  OwnershipInv'
  <2>1. \A u \in Tickets : OnDeskPro(u)' = OnDeskPro(u) /\ (object[u] # "none" => object'[u] # "none")
    BY <1>8 DEF Delete, OnDeskPro, OwnedInv, TypeInv, TypeOK
  <2>2. \A u \in Tickets : row[u] = None => row'[u] = None
    BY <1>8 DEF Delete, OwnedInv, TypeInv, TypeOK, Rows
  <2>3. \A u \in Tickets : row[u] # None => row'[u].id = row[u].id
    <3>1. row[t] # None => [row[t] EXCEPT !.close_requested = TRUE].id = row[t].id
      BY DEF OwnedInv, TypeInv, TypeOK, Rows, Row
    <3> QED
      BY <1>8, <3>1 DEF Delete, OwnedInv, TypeInv, TypeOK, Rows
  <2>4. \A u \in Tickets : row[u] # None => row'[u] # None
    <3>1. row[t] # None => row[t] \in Row
      BY DEF OwnedInv, TypeInv, TypeOK, Rows
    <3> QED
      BY <1>8, <3>1, RowUpdates DEF Delete, OwnedInv, TypeInv, TypeOK, Rows
  <2> QED
    BY <1>2, <1>3, <1>8, <2>1, <2>2, <2>3, <2>4, QuietStep DEF Delete
<1>9. ASSUME NEW t \in Tickets, Agent(t)
      PROVE  OwnershipInv'
  <2>1. \A u \in Tickets : OnDeskPro(u)' = OnDeskPro(u)
    BY <1>9, NoneAssumption DEF Agent, OnDeskPro, OwnedInv, TypeInv, TypeOK, Status
  <2> QED
    BY <1>2, <1>3, <1>9, <2>1, QuietStep DEF Agent
<1>10. ASSUME NEW t \in Tickets, RequeueLoad(t)
       PROVE  OwnershipInv'
  <2>1. Sound' \subseteq Sound /\ \A u \in Tickets : OnDeskPro(u)' = OnDeskPro(u)
    BY <1>10 DEF RequeueLoad, Sound, OnDeskPro
  <2>2. \A u \in Tickets \ requeued' : held'[u] = None
    BY <1>2, <1>10 DEF RequeueLoad, OwnedInv, TypeInv, TypeOK, Rows
  <2> QED
    BY <1>2, <1>10, <2>1, <2>2, QuietStep DEF RequeueLoad
<1>11. ASSUME NEW t \in Tickets, RequeueSave(t)
       PROVE  OwnershipInv'
  <2>1. t \notin Sound
    BY <1>2, <1>11 DEF RequeueSave, Sound
  <2>2. \A u \in Tickets : u # t => row'[u] = row[u] /\ held'[u] = held[u]
    BY <1>11 DEF RequeueSave, OwnedInv, TypeInv, TypeOK, Rows
  <2>3. \A u \in Tickets : OnDeskPro(u)' = OnDeskPro(u)
    BY <1>11 DEF RequeueSave, OnDeskPro
  <2>4. UNCHANGED <<object, remote, job, requeued, abandoned>> /\ t \in requeued
    BY <1>2, <1>11 DEF RequeueSave
  <2> QED
    BY <1>2, <1>3, <2>1, <2>2, <2>3, <2>4, QuietStep
<1>12. CASE Die
  <2>1. /\ job' = Idle /\ UNCHANGED <<object, row, remote, held, requeued>>
        /\ Loaded' = {}
        /\ \A u \in Tickets : OnDeskPro(u)' = OnDeskPro(u)
    BY <1>12 DEF Die, Loaded, Idle, NoRows, OnDeskPro
  <2>2. Sound' \subseteq Sound /\ \A u \in Sound' : ~Creating(u)
    BY <1>12 DEF Die, Sound
  <2>3. NoOrphans'
    BY <1>2, <2>1, <2>2 DEF OwnedInv, OwnershipInv, NoOrphans
  <2>4. LoadedIsCurrent' /\ ResolvesPublished' /\ NothingLoadedYet'
    BY <2>1 DEF LoadedIsCurrent, ResolvesPublished, NothingLoadedYet, Idle
  <2>5. IdsAreReal'
    BY <1>2, <2>1, <2>2 DEF OwnedInv, OwnershipInv, IdsAreReal
  <2> QED
    BY <1>2, <2>1, <2>3, <2>4, <2>5 DEF OwnershipInv
<1>13. CASE UNCHANGED vars
  <2>1. \A u \in Tickets : OnDeskPro(u)' = OnDeskPro(u)
    BY <1>13 DEF vars, OnDeskPro
  <2> QED
    BY <1>2, <1>3, <1>13, <2>1, QuietStep DEF vars
<1> QED
  BY <1>4, <1>5, <1>6, <1>7, <1>8, <1>9, <1>10, <1>11, <1>12, <1>13, PublishOwned, CloseOwned
     DEF Next, Publisher, OwnedInv

\* Every ticket on DeskPro is known by its row or to the publisher that has
\* just created it, unless a publisher died creating it or its row was
\* requeued: a ticket that failed halfway and a request that comes while the
\* ticket is being created lose none, nor do the faults of other tickets.
THEOREM NoOrphansHolds == Spec => []NoOrphans
<1>1. OwnedInv /\ [Next]_vars => OwnedInv'
  BY NextOwned
<1>2. OwnedInv => NoOrphans
  BY DEF OwnedInv, OwnershipInv
<1> QED
  BY <1>1, <1>2, InitOwned, PTL DEF Spec

---------------------------------------------------------------------------
(* The refinement: DeskProTickets implements TicketLife. *)

CreatePhases == {"create", "message", "created", "failed"}
ClosePhases == {"close", "resolve", "mark"}

\* A row of a sound ticket: to be closed only if its object is gone, published
\* when it has an id or is closed.
RowLives(t) ==
    row[t] # None => /\ row[t].close_requested => object[t] = "deleted"
                     /\ row[t].id # 0 => row[t].published
                     /\ row[t].closed => row[t].published

\* What the publisher has loaded is still in the state it was loaded for.
JobLives(t) ==
    job.rows[t] # None =>
        /\ job.phase \in CreatePhases => ~row[t].published /\ ~row[t].closed
        /\ job.phase \in ClosePhases => row[t].close_requested /\ ~row[t].closed

LivesInv == \A t \in Sound : RowLives(t) /\ JobLives(t)

LifeInv == OwnedInv /\ LivesInv

lives == <<Stage, Withdrawn, Desk>>

---------------------------------------------------------------------------
(* Steps of the abstract specification. *)

LEMMA SoundTickets == Sound \subseteq Tickets
BY DEF Sound

\* Nothing that TicketLife speaks of has changed.
LEMMA Unchanged ==
    ASSUME \A t \in Tickets : StageOf(t)' = StageOf(t),
           Withdrawn' = Withdrawn,
           Sound' = Sound,
           \A t \in Sound : OnDeskPro(t)' = OnDeskPro(t)
    PROVE  UNCHANGED lives
BY SoundTickets DEF lives, Stage, Desk

\* One ticket has moved on.
LEMMA Moved ==
    ASSUME NEW t \in Tickets, NEW s,
           StageOf(t)' = s,
           \A u \in Tickets : u # t => StageOf(u)' = StageOf(u),
           Withdrawn' = Withdrawn,
           Sound' = Sound,
           \A u \in Sound : OnDeskPro(u)' = OnDeskPro(u)
    PROVE  /\ Stage' = [Stage EXCEPT ![t] = s]
           /\ UNCHANGED <<Withdrawn, Desk>>
BY SoundTickets DEF Stage, Desk

\* The stage of the other tickets, when only the row of one was written.
LEMMA OthersStay ==
    ASSUME NEW u \in Tickets, Sound' = Sound, row'[u] = row[u],
           (object'[u] = "none") <=> (object[u] = "none")
    PROVE  StageOf(u)' = StageOf(u)
BY DEF StageOf

LEMMA LostTicket ==
    ASSUME NEW t \in Tickets, t \in Sound, t \notin Sound',
           \A u \in Tickets : u # t => ((u \in Sound') <=> (u \in Sound)),
           row[t] # None,
           UNCHANGED <<object, row, remote>>
    PROVE  Life!Next
<1>1. Stage[t] \in {"waiting", "settled", "closed"}
  BY DEF Stage, StageOf
<1>2. \A u \in Tickets : StageOf(u)' = IF u = t THEN "lost" ELSE StageOf(u)
  BY DEF StageOf
<1>3. Stage' = [Stage EXCEPT ![t] = "lost"]
  BY <1>2 DEF Stage
<1>4. \A u \in Tickets : OnDeskPro(u)' = OnDeskPro(u)
  BY DEF OnDeskPro
<1>5. Desk' = [Desk EXCEPT ![t] = {}]
  BY <1>4 DEF Desk
<1>6. Withdrawn' = Withdrawn
  BY DEF Withdrawn
<1> QED
  BY <1>1, <1>3, <1>5, <1>6 DEF Life!Next, Life!Lose, Life!Moves

---------------------------------------------------------------------------
(* The steps of the publisher. *)

LEMMA CurrentRows ==
    ASSUME LifeInv, NEW t \in Tickets, Current(t)
    PROVE  /\ row[t] \in Row /\ row[t] # None
           /\ job.rows[t] \in Row /\ job.rows[t] # None
BY NoneAssumption DEF LifeInv, OwnedInv, TypeInv, TypeOK, Rows, LoadedExists, Current, Loaded

\* The publisher goes on with the same rows, in a phase of the same pass.
LEMMA SamePass ==
    ASSUME LifeInv, Sound' = Sound, UNCHANGED <<object, row>>,
           \A u \in Sound : job'.rows[u] # None => job.rows[u] # None,
           job'.phase \in CreatePhases => job.phase \in CreatePhases,
           job'.phase \in ClosePhases => job.phase \in ClosePhases
    PROVE  LivesInv'
BY DEF LifeInv, LivesInv, RowLives, JobLives

LEMMA SameLives ==
    ASSUME Sound' = Sound, UNCHANGED <<object, row>>,
           \A u \in Sound : OnDeskPro(u)' = OnDeskPro(u)
    PROVE  UNCHANGED lives
BY Unchanged DEF StageOf, Withdrawn

\* The publisher is done with a ticket, whose row it has written.
LEMMA DoneLives ==
    ASSUME LifeInv, NEW t \in Tickets, Current(t), Sound' = Sound, object' = object,
           NEW phase \in Phases, NEW after \in Phases,
           job' = DoneWith(t, phase, after),
           {phase, after} \cap CreatePhases # {} => job.phase \in CreatePhases,
           {phase, after} \cap ClosePhases # {} => job.phase \in ClosePhases,
           \A u \in Tickets : u # t => row'[u] = row[u],
           t \in Sound => RowLives(t)'
    PROVE  LivesInv'
<1>1. /\ job'.rows = [job.rows EXCEPT ![t] = None]
      /\ job'.phase \in {phase, after}
  BY DoneWithJob DEF LifeInv, OwnedInv, TypeInv
<1>2. \A u \in Tickets : job'.rows[u] = IF u = t THEN None ELSE job.rows[u]
  BY <1>1 DEF LifeInv, OwnedInv, TypeInv, TypeOK, Rows
<1>3. \A u \in Sound : RowLives(u)'
  BY SoundTickets DEF LifeInv, LivesInv, RowLives
<1>4. \A u \in Sound : JobLives(u)'
  BY <1>1, <1>2, SoundTickets DEF LifeInv, LivesInv, JobLives
<1> QED
  BY <1>3, <1>4 DEF LivesInv

LEMMA CreateRemoteLives ==
    ASSUME LifeInv, NEW t \in Tickets, CreateRemote(t)
    PROVE  LivesInv' /\ [Life!Next]_lives
<1>1. /\ job.phase = "create" /\ Current(t) /\ job.rows[t].id = 0
      /\ UNCHANGED <<object, row, held, requeued, abandoned>>
      /\ Sound' = Sound
  BY DEF CreateRemote, Sound
<1>2. PICK i \in Ids :
         /\ remote' = [remote EXCEPT ![t][i] = "awaiting_agent"]
         /\ job' = [job EXCEPT !.phase = "message", !.rows[t].id = i]
  BY DEF CreateRemote
<1>3. /\ job'.phase = "message"
      /\ \A u \in Tickets : job'.rows[u] # None => job.rows[u] # None
  BY <1>1, <1>2, CurrentRows DEF LifeInv, OwnedInv, TypeInv, TypeOK, Rows
<1>4. LivesInv'
  BY <1>1, <1>3, SamePass, SoundTickets DEF CreatePhases, ClosePhases
<1>5. \A u \in Tickets : u # t => OnDeskPro(u)' = OnDeskPro(u)
  BY <1>2 DEF OnDeskPro, LifeInv, OwnedInv, TypeInv, TypeOK
<1>6. CASE t \in Sound
  <2>1. OnDeskPro(t) = {}
    <3>1. row[t].id = 0
      BY <1>1, <1>6 DEF LifeInv, OwnedInv, OwnershipInv, LoadedIsCurrent, Current
    <3> QED
      BY <1>1, <1>6, <3>1, OrphanFree DEF LifeInv, OnDeskPro, Ids
  <2>2. OnDeskPro(t)' = {i}
    BY <1>2, <2>1, NoneAssumption DEF OnDeskPro, LifeInv, OwnedInv, TypeInv, TypeOK, Status
  <2>3. Stage[t] = "waiting" /\ Desk[t] = {}
    BY <1>1, <1>6, <2>1, CurrentRows
       DEF Stage, Desk, StageOf, LifeInv, LivesInv, JobLives, CreatePhases
  <2>4. Desk' = [Desk EXCEPT ![t] = {i}]
    BY <1>1, <1>5, <1>6, <2>2 DEF Desk
  <2>5. UNCHANGED <<Stage, Withdrawn>>
    BY <1>1 DEF Stage, StageOf, Withdrawn
  <2> QED
    BY <1>4, <2>3, <2>4, <2>5 DEF Life!Next, Life!MakeTicket
<1>7. CASE t \notin Sound
  BY <1>1, <1>4, <1>5, <1>7, SameLives, SoundTickets
<1> QED
  BY <1>6, <1>7

LEMMA PublishLives ==
    ASSUME LifeInv, NEW t \in Tickets, Publish(t)
    PROVE  LivesInv' /\ [Life!Next]_lives
<1>1. CASE CreateRemote(t)
  BY <1>1, CreateRemoteLives
<1>2. CASE Reopen(t)
  <2>1. \A u \in Sound : OnDeskPro(u)' = OnDeskPro(u)
    BY <1>2, NoneAssumption
       DEF Reopen, OnDeskPro, Sound, LifeInv, OwnedInv, TypeInv, TypeOK, Status
  <2>2. Sound' = Sound /\ job'.phase = "message" /\ job'.rows = job.rows
    BY <1>2 DEF Reopen, Sound, LifeInv, OwnedInv, TypeInv, TypeOK
  <2> QED
    BY <1>2, <2>1, <2>2, SamePass, SameLives DEF Reopen, CreatePhases, ClosePhases
<1>3. CASE RefuseDuplicate(t) \/ Refuse(t) \/ PostMessage(t)
  <2>1. Sound' = Sound /\ \A u \in Sound : OnDeskPro(u)' = OnDeskPro(u)
    BY <1>3 DEF RefuseDuplicate, Refuse, PostMessage, OnDeskPro, Sound
  <2>2. \A u \in Sound : job'.rows[u] # None => job.rows[u] # None
    BY <1>3, SoundTickets
       DEF RefuseDuplicate, Refuse, PostMessage, NoRows, LifeInv, OwnedInv, TypeInv, TypeOK
  <2>3. /\ job'.phase \in {"load_close", "failed", "created"}
        /\ job'.phase # "load_close" => job.phase \in CreatePhases
    BY <1>3 DEF RefuseDuplicate, Refuse, PostMessage, CreatePhases, LifeInv, OwnedInv,
                TypeInv, TypeOK
  <2>4. UNCHANGED <<object, row>>
    BY <1>3 DEF RefuseDuplicate, Refuse, PostMessage
  <2> QED
    BY <2>1, <2>2, <2>3, <2>4, SamePass, SameLives DEF CreatePhases, ClosePhases
<1>4. CASE SavePublished(t) \/ SaveFailed(t)
  <2>1. /\ Current(t) /\ job' = DoneWith(t, "create", "load_close")
        /\ job.phase \in CreatePhases
        /\ UNCHANGED <<object, remote, held, requeued, abandoned>>
        /\ Sound' = Sound
    BY <1>4 DEF SavePublished, SaveFailed, Sound, CreatePhases
  <2>2. row[t] \in Row /\ row[t] # None /\ job.rows[t] \in Row /\ job.rows[t] # None
    BY <2>1, CurrentRows
  <2>3. /\ row'[t] \in Row /\ row'[t].published
        /\ row'[t].closed = row[t].closed
        /\ row'[t].close_requested = row[t].close_requested
        /\ \A u \in Tickets : u # t => row'[u] = row[u]
    <3> DEFINE p == [row[t] EXCEPT !.published = TRUE, !.id = job.rows[t].id]
               f == [row[t] EXCEPT !.published = TRUE, !.id = job.rows[t].id,
                                   !.failed = TRUE]
    <3>1. job.rows[t].id \in Ids \cup {0}
      BY <2>2 DEF Row
    <3>2. p \in Row /\ f \in Row
      BY <2>2, <3>1, RowUpdates
    <3>3. \A r \in {p, f} : /\ r.published /\ r.closed = row[t].closed
                            /\ r.close_requested = row[t].close_requested
      BY <2>2 DEF Row
    <3>4. row' = [row EXCEPT ![t] = p] \/ row' = [row EXCEPT ![t] = f]
      BY <1>4 DEF SavePublished, SaveFailed
    <3>5. row \in Rows
      BY DEF LifeInv, OwnedInv, TypeInv, TypeOK
    <3> HIDE DEF p, f
    <3> QED
      BY <3>2, <3>3, <3>4, <3>5 DEF Rows
  <2>4. t \in Sound => ~row[t].published /\ ~row[t].closed
    BY <2>1, <2>2 DEF LifeInv, LivesInv, JobLives
  <2>5. row'[t] # None
    BY <2>3, NoneAssumption
  <2>6. t \in Sound => RowLives(t)'
    BY <2>1, <2>2, <2>3 DEF LifeInv, LivesInv, RowLives
  <2>7. LivesInv'
    BY <2>1, <2>3, <2>6, DoneLives, PhaseNames DEF CreatePhases, ClosePhases
  <2>8. /\ \A u \in Tickets : OnDeskPro(u)' = OnDeskPro(u)
        /\ Withdrawn' = Withdrawn
        /\ \A u \in Tickets : u # t => StageOf(u)' = StageOf(u)
    BY <2>1, <2>3, OthersStay DEF OnDeskPro, Withdrawn
  <2>9. CASE t \in Sound
    <3>1. Stage[t] = "waiting" /\ StageOf(t)' = "settled"
      BY <2>1, <2>2, <2>3, <2>4, <2>5, <2>9 DEF Stage, StageOf
    <3> QED
      BY <2>1, <2>7, <2>8, <3>1, Moved, SoundTickets DEF Life!Next, Life!Settle, Life!Moves
  <2>10. CASE t \notin Sound
    <3>1. StageOf(t)' = StageOf(t)
      BY <2>1, <2>10 DEF StageOf
    <3> QED
      BY <2>1, <2>7, <2>8, <3>1, Unchanged, SoundTickets
  <2> QED
    BY <2>9, <2>10
<1> QED
  BY <1>1, <1>2, <1>3, <1>4 DEF Publish

LEMMA CloseLives ==
    ASSUME LifeInv, NEW t \in Tickets, Close(t)
    PROVE  LivesInv' /\ [Life!Next]_lives
<1>1. Current(t) => /\ row[t] \in Row /\ row[t] # None
                    /\ job.rows[t] \in Row /\ job.rows[t] # None
  BY CurrentRows
<1>2. job.phase \in ClosePhases /\ Current(t) /\ t \in Sound
        => /\ row[t].close_requested /\ ~row[t].closed /\ object[t] = "deleted"
           /\ job.rows[t].id = row[t].id
           /\ row[t].id \in OnDeskPro(t) \cup {0}
           /\ \A i \in OnDeskPro(t) : row[t].id = i
  <2>1. ASSUME job.phase \in ClosePhases, Current(t), t \in Sound
        PROVE  job.rows[t].id = row[t].id /\ row[t].id \in OnDeskPro(t) \cup {0}
    BY <1>1, <2>1 DEF LifeInv, OwnedInv, OwnershipInv, LoadedIsCurrent, Creating, Current,
                      ClosePhases
  <2> QED
    BY <1>1, <2>1, OrphanFree DEF LifeInv, LivesInv, RowLives, JobLives
<1>3. ASSUME Current(t), object' = object, Sound' = Sound, remote' = remote,
             \A u \in Tickets : u # t => row'[u] = row[u]
      PROVE  /\ \A u \in Tickets : OnDeskPro(u)' = OnDeskPro(u)
             /\ Withdrawn' = Withdrawn
             /\ \A u \in Tickets : u # t => StageOf(u)' = StageOf(u)
             /\ t \notin Sound => StageOf(t)' = StageOf(t)
  BY <1>3, OthersStay DEF OnDeskPro, Withdrawn, StageOf
<1>4. CASE Drop(t)
  <2>1. /\ Current(t) /\ job' = DoneWith(t, "close", "idle") /\ job.phase = "close"
        /\ job.rows[t].id = 0 /\ Sound' = Sound
        /\ UNCHANGED <<object, remote>>
    BY <1>4 DEF Drop, Sound
  <2>2. row'[t] = None /\ \A u \in Tickets : u # t => row'[u] = row[u]
    BY <1>4 DEF Drop, LifeInv, OwnedInv, TypeInv, TypeOK, Rows
  <2>3. LivesInv'
    BY <2>1, <2>2, DoneLives, PhaseNames DEF CreatePhases, ClosePhases, RowLives
  <2>4. CASE t \in Sound
    <3>1. t \in Withdrawn /\ Desk[t] = {}
      BY <1>2, <2>1, <2>4 DEF Withdrawn, Desk, OnDeskPro, Ids, ClosePhases
    <3>2. Stage[t] \in {"waiting", "settled"}
      BY <1>1, <1>2, <2>1, <2>4 DEF Stage, StageOf, ClosePhases
    <3>3. StageOf(t)' = "dropped"
      <4>1. object[t] # "none"
        BY <1>2, <2>1, <2>4 DEF ClosePhases
      <4> QED
        BY <2>1, <2>2, <2>4, <4>1 DEF StageOf
    <3> QED
      BY <1>3, <2>1, <2>2, <2>3, <3>1, <3>2, <3>3, Moved, SoundTickets
         DEF Life!Next, Life!DropTicket, Life!Moves
  <2>5. CASE t \notin Sound
    BY <1>3, <2>1, <2>2, <2>3, <2>5, Unchanged, SoundTickets
  <2> QED
    BY <2>4, <2>5
<1>5. CASE GetStatus(t)
  <2>1. Sound' = Sound /\ \A u \in Sound : OnDeskPro(u)' = OnDeskPro(u)
    BY <1>5 DEF GetStatus, OnDeskPro, Sound
  <2>2. job'.phase \in ClosePhases /\ job'.rows = job.rows /\ job.phase \in ClosePhases
    BY <1>5 DEF GetStatus, ClosePhases, LifeInv, OwnedInv, TypeInv, TypeOK
  <2> QED
    BY <1>5, <2>1, <2>2, SamePass, SameLives DEF GetStatus, CreatePhases, ClosePhases
<1>6. CASE Resolve(t)
  <2>1. Current(t) /\ Sound' = Sound /\ (t \in Sound => job.rows[t].id \in OnDeskPro(t))
    BY <1>1, <1>2, <1>6 DEF Resolve, Sound, ClosePhases, LifeInv, OwnedInv, OwnershipInv,
                            ResolvesPublished, Current
  <2>2. \A u \in Sound : OnDeskPro(u)' = OnDeskPro(u)
    BY <1>6, <2>1, NoneAssumption
       DEF Resolve, Sound, OnDeskPro, LifeInv, OwnedInv, TypeInv, TypeOK, Status
  <2>3. job'.phase \in ClosePhases /\ job'.rows = job.rows /\ job.phase \in ClosePhases
    BY <1>6 DEF Resolve, ClosePhases, LifeInv, OwnedInv, TypeInv, TypeOK
  <2> QED
    BY <1>6, <2>1, <2>2, <2>3, SamePass, SameLives DEF Resolve, CreatePhases, ClosePhases
<1>7. CASE MarkClosed(t)
  <2>1. /\ Current(t) /\ job' = DoneWith(t, "close", "idle") /\ job.phase = "mark"
        /\ Sound' = Sound
        /\ UNCHANGED <<object, remote>>
    BY <1>7 DEF MarkClosed, Sound
  <2>2. /\ row'[t] \in Row /\ row'[t].closed
        /\ row'[t].id = row[t].id /\ row'[t].published = row[t].published
        /\ row'[t].close_requested = row[t].close_requested
        /\ \A u \in Tickets : u # t => row'[u] = row[u]
    <3> DEFINE c == [row[t] EXCEPT !.closed = TRUE]
    <3>1. /\ c \in Row /\ c.closed /\ c.id = row[t].id
          /\ c.published = row[t].published
          /\ c.close_requested = row[t].close_requested
      BY <1>1, <2>1, RowUpdates DEF Row
    <3>2. row' = [row EXCEPT ![t] = c] /\ row \in Rows
      BY <1>7 DEF MarkClosed, LifeInv, OwnedInv, TypeInv, TypeOK
    <3> HIDE DEF c
    <3> QED
      BY <3>1, <3>2 DEF Rows
  <2>3. job.rows[t].id # 0
    BY <2>1 DEF LifeInv, OwnedInv, OwnershipInv, ResolvesPublished, Current
  <2>4. t \in Sound => row[t].published /\ row[t].id \in OnDeskPro(t)
    BY <1>1, <1>2, <2>1, <2>3 DEF ClosePhases, LifeInv, LivesInv, RowLives
  <2>5. row'[t] # None
    BY <2>2, NoneAssumption
  <2>6. t \in Sound => RowLives(t)'
    BY <1>1, <2>1, <2>2, <2>4 DEF LifeInv, LivesInv, RowLives
  <2>7. LivesInv'
    BY <2>1, <2>2, <2>6, DoneLives, PhaseNames DEF CreatePhases, ClosePhases
  <2>8. CASE t \in Sound
    <3>1. t \in Withdrawn /\ Desk[t] # {}
      BY <1>2, <2>1, <2>4, <2>8 DEF Withdrawn, Desk, ClosePhases
    <3>2. Stage[t] = "settled" /\ StageOf(t)' = "closed"
      BY <1>1, <1>2, <2>1, <2>2, <2>4, <2>5, <2>8 DEF Stage, StageOf, ClosePhases
    <3> QED
      BY <1>3, <2>1, <2>2, <2>7, <3>1, <3>2, Moved, SoundTickets
         DEF Life!Next, Life!CloseTicket, Life!Moves
  <2>9. CASE t \notin Sound
    BY <1>3, <2>1, <2>2, <2>7, <2>9, Unchanged, SoundTickets
  <2> QED
    BY <2>8, <2>9
<1> QED
  BY <1>4, <1>5, <1>6, <1>7 DEF Close

---------------------------------------------------------------------------
(* The refinement. *)

LEMMA LoadLives ==
    ASSUME LifeInv, StartPublisher \/ LoadCloseRequests
    PROVE  LivesInv' /\ UNCHANGED lives
<1>1. Sound' = Sound /\ UNCHANGED <<object, row, remote>>
  BY DEF StartPublisher, LoadCloseRequests, Sound
<1>2. UNCHANGED lives
  BY <1>1, SameLives DEF OnDeskPro
<1>3. CASE StartPublisher
  <2>1. /\ job'.phase \in {"create", "load_close"}
        /\ \A u \in Tickets : job'.rows[u] # None => u \in Unpublished
    <3>1. Unpublished \in SUBSET Tickets
      BY DEF Unpublished
    <3>2. job' = Loading(Unpublished, "create", "load_close")
      BY <1>3 DEF StartPublisher
    <3>3. /\ Loading(Unpublished, "create", "load_close").phase \in {"create", "load_close"}
          /\ \A u \in Tickets : Loading(Unpublished, "create", "load_close").rows[u] # None => u \in Unpublished
      <4>1. TypeOK /\ "create" \in Phases /\ "load_close" \in Phases
        BY PhaseNames DEF LifeInv, OwnedInv, TypeInv
      <4> QED
        BY <3>1, <4>1, LoadingJob
    <3> QED
      BY <3>2, <3>3
  <2> QED
    BY <1>1, <1>2, <2>1, SoundTickets
       DEF LifeInv, LivesInv, RowLives, JobLives, Unpublished, CreatePhases, ClosePhases
<1>4. CASE LoadCloseRequests
  <2>1. /\ job'.phase \in {"close", "idle"}
        /\ \A u \in Tickets : job'.rows[u] # None => u \in ToClose
    <3>1. ToClose \in SUBSET Tickets
      BY DEF ToClose
    <3>2. job' = Loading(ToClose, "close", "idle")
      BY <1>4 DEF LoadCloseRequests
    <3>3. /\ Loading(ToClose, "close", "idle").phase \in {"close", "idle"}
          /\ \A u \in Tickets : Loading(ToClose, "close", "idle").rows[u] # None => u \in ToClose
      <4>1. TypeOK /\ "close" \in Phases /\ "idle" \in Phases
        BY PhaseNames DEF LifeInv, OwnedInv, TypeInv
      <4> QED
        BY <3>1, <4>1, LoadingJob
    <3> QED
      BY <3>2, <3>3
  <2> QED
    BY <1>1, <1>2, <2>1, SoundTickets
       DEF LifeInv, LivesInv, RowLives, JobLives, ToClose, CreatePhases, ClosePhases
<1> QED
  BY <1>3, <1>4

LEMMA ObjectLives ==
    ASSUME LifeInv, NEW t \in Tickets, Queue(t) \/ Approve(t) \/ Delete(t)
    PROVE  LivesInv' /\ [Life!Next]_lives
<1>1. /\ Sound' = Sound /\ UNCHANGED <<remote, job>>
      /\ \A u \in Tickets : OnDeskPro(u)' = OnDeskPro(u)
  BY DEF Queue, Approve, Delete, Sound, OnDeskPro
<1>2. /\ \A u \in Tickets : u # t => row'[u] = row[u] /\ object'[u] = object[u]
      /\ row \in Rows /\ object[t] \in {"none", "pending", "approved", "deleted"}
  BY DEF Queue, Approve, Delete, LifeInv, OwnedInv, TypeInv, TypeOK, Rows
<1>3. \A u \in Tickets : u # t => StageOf(u)' = StageOf(u)
  BY <1>1, <1>2 DEF StageOf
<1>4. \A u \in Sound : u # t => RowLives(u)' /\ JobLives(u)'
  BY <1>1, <1>2, SoundTickets DEF LifeInv, LivesInv, RowLives, JobLives
<1>5. CASE Queue(t)
  <2> DEFINE q == [published |-> FALSE, id |-> 0, close_requested |-> FALSE,
                   closed |-> FALSE, failed |-> FALSE]
  <2>1. /\ q \in Row /\ q.id = 0
        /\ ~q.published /\ ~q.closed /\ ~q.close_requested
    BY DEF Row
  <2>2. /\ row' = [row EXCEPT ![t] = q]
        /\ object[t] = "none" /\ object'[t] = "pending"
    BY <1>5 DEF Queue, LifeInv, OwnedInv, TypeInv, TypeOK
  <2> HIDE DEF q
  <2>3. row'[t] = q /\ q # None
    BY <1>2, <2>1, <2>2, NoneAssumption DEF Rows
  <2>4. t \in Sound => row[t] = None /\ job.rows[t] = None
    BY <2>2 DEF LifeInv, OwnedInv, OwnershipInv, IdsAreReal, TypeInv, LoadedExists
  <2>5. t \in Sound => RowLives(t)' /\ JobLives(t)'
    BY <1>1, <2>1, <2>3, <2>4 DEF RowLives, JobLives
  <2>6. LivesInv'
    BY <1>1, <1>4, <2>5 DEF LivesInv
  <2>7. Withdrawn' = Withdrawn
    BY <1>2, <2>2 DEF Withdrawn
  <2>8. CASE t \in Sound
    <3>1. Stage[t] = "none" /\ StageOf(t)' = "waiting"
      BY <1>1, <2>1, <2>2, <2>3, <2>4, <2>8 DEF Stage, StageOf
    <3> QED
      BY <1>1, <1>3, <2>6, <2>7, <3>1, Moved, SoundTickets
         DEF Life!Next, Life!Ask, Life!Moves
  <2>9. CASE t \notin Sound
    <3>1. StageOf(t)' = StageOf(t)
      BY <1>1, <2>9 DEF StageOf
    <3> QED
      BY <1>1, <1>3, <2>6, <2>7, <3>1, Unchanged, SoundTickets
  <2> QED
    BY <2>8, <2>9
<1>6. CASE Approve(t)
  <2>1. row' = row /\ object[t] = "pending" /\ object'[t] = "approved"
    BY <1>6 DEF Approve, LifeInv, OwnedInv, TypeInv, TypeOK
  <2>2. StageOf(t)' = StageOf(t) /\ Withdrawn' = Withdrawn
    BY <1>1, <1>2, <2>1 DEF StageOf, Withdrawn
  <2>3. t \in Sound => RowLives(t)' /\ JobLives(t)'
    BY <1>1, <2>1 DEF LifeInv, LivesInv, RowLives, JobLives
  <2> QED
    BY <1>1, <1>3, <1>4, <2>2, <2>3, Unchanged, SoundTickets DEF LivesInv
<1>7. CASE Delete(t)
  <2> DEFINE c == [row[t] EXCEPT !.close_requested = TRUE]
  <2>1. object[t] = "pending" /\ object'[t] = "deleted"
    BY <1>7 DEF Delete, LifeInv, OwnedInv, TypeInv, TypeOK
  <2>2. row[t] # None => /\ c # None /\ c.closed = row[t].closed /\ c.id = row[t].id
                         /\ c.published = row[t].published /\ c.close_requested
    <3>1. row[t] # None => row[t] \in Row
      BY <1>2 DEF Rows
    <3>2. row[t] # None => c \in Row
      BY <3>1 DEF Row
    <3>3. row[t] # None => /\ c.closed = row[t].closed /\ c.id = row[t].id
                           /\ c.published = row[t].published /\ c.close_requested
      BY <3>1 DEF Row
    <3> HIDE DEF c
    <3> QED
      BY <3>2, <3>3, NoneAssumption
  <2>3. row' = IF row[t] = None THEN row ELSE [row EXCEPT ![t] = c]
    BY <1>7 DEF Delete
  <2> HIDE DEF c
  <2>4. row'[t] = IF row[t] = None THEN None ELSE c
    BY <1>2, <2>3 DEF Rows
  <2>5. StageOf(t)' = StageOf(t)
    BY <1>1, <2>1, <2>2, <2>4 DEF StageOf
  <2>6. t \in Sound => RowLives(t)' /\ JobLives(t)'
    BY <1>1, <2>1, <2>2, <2>4 DEF LifeInv, LivesInv, RowLives, JobLives
  <2>7. LivesInv'
    BY <1>1, <1>4, <2>6 DEF LivesInv
  <2>8. Stage' = Stage /\ Desk' = Desk
    BY <1>1, <1>3, <2>5 DEF Stage, Desk
  <2>9. t \notin Withdrawn /\ Withdrawn' = Withdrawn \cup {t}
    BY <1>2, <2>1 DEF Withdrawn
  <2>10. Stage[t] # "none"
    BY <2>1 DEF Stage, StageOf
  <2> QED
    BY <2>7, <2>8, <2>9, <2>10 DEF Life!Next, Life!Withdraw
<1> QED
  BY <1>5, <1>6, <1>7

LEMMA FaultLives ==
    ASSUME LifeInv,
           Die \/ \E t \in Tickets : Agent(t) \/ RequeueLoad(t) \/ RequeueSave(t)
    PROVE  LivesInv' /\ [Life!Next]_lives
<1>1. CASE Die
  <2>1. /\ UNCHANGED <<object, row, remote>> /\ Sound' \subseteq Sound
        /\ \A u \in Tickets : job'.rows[u] = None
        /\ \A u \in Tickets : OnDeskPro(u)' = OnDeskPro(u)
    BY <1>1 DEF Die, Sound, Idle, NoRows, OnDeskPro
  <2>2. LivesInv'
    BY <2>1, SoundTickets DEF LifeInv, LivesInv, RowLives, JobLives
  <2>3. CASE \E t \in Sound : Creating(t)
    <3>1. PICK t \in Sound : Creating(t)
      BY <2>3
    <3>2. \A u \in Tickets : Creating(u) <=> u = t
      BY <3>1, CurrentIsUnique DEF Creating
    <3>3. t \notin Sound' /\ \A u \in Tickets : u # t => (u \in Sound' <=> u \in Sound)
      BY <1>1, <3>1, <3>2, SoundTickets DEF Die, Sound
    <3>4. t \in Tickets /\ row[t] # None
      BY <3>1, CurrentRows, SoundTickets DEF Creating
    <3>5. Life!Next
      BY <2>1, <3>1, <3>3, <3>4, LostTicket
    <3> QED
      BY <2>2, <3>5
  <2>4. CASE ~\E t \in Sound : Creating(t)
    <3>1. Sound' = Sound
      BY <1>1, <2>4 DEF Die, Sound
    <3> QED
      BY <2>1, <2>2, <3>1, SameLives, SoundTickets
  <2> QED
    BY <2>3, <2>4
<1>2. ASSUME NEW t \in Tickets, Agent(t)
      PROVE  LivesInv' /\ [Life!Next]_lives
  <2>1. /\ UNCHANGED <<object, row, job>> /\ Sound' = Sound
        /\ \A u \in Tickets : OnDeskPro(u)' = OnDeskPro(u)
    BY <1>2, NoneAssumption
       DEF Agent, Sound, OnDeskPro, LifeInv, OwnedInv, TypeInv, TypeOK, Status
  <2> QED
    BY <2>1, SamePass, SameLives, SoundTickets
<1>3. ASSUME NEW t \in Tickets, RequeueLoad(t)
      PROVE  LivesInv' /\ [Life!Next]_lives
  <2>1. /\ UNCHANGED <<object, row, remote, job>> /\ row[t] # None
        /\ t \notin Sound' /\ Sound' \subseteq Sound
        /\ \A u \in Tickets : u # t => (u \in Sound' <=> u \in Sound)
        /\ \A u \in Tickets : OnDeskPro(u)' = OnDeskPro(u)
    BY <1>3 DEF RequeueLoad, Sound, OnDeskPro
  <2>2. LivesInv'
    BY <2>1 DEF LifeInv, LivesInv, RowLives, JobLives
  <2>3. CASE t \in Sound
    <3>1. Life!Next
      BY <2>1, <2>3, LostTicket
    <3> QED
      BY <2>2, <3>1
  <2>4. CASE t \notin Sound
    <3>1. Sound' = Sound
      BY <2>1, <2>4, SoundTickets DEF Sound
    <3> QED
      BY <2>1, <2>2, <3>1, SameLives, SoundTickets
  <2> QED
    BY <2>3, <2>4
<1>4. ASSUME NEW t \in Tickets, RequeueSave(t)
      PROVE  LivesInv' /\ [Life!Next]_lives
  <2>1. /\ UNCHANGED <<object, remote, job>> /\ Sound' = Sound /\ t \notin Sound
        /\ \A u \in Tickets : OnDeskPro(u)' = OnDeskPro(u)
    BY <1>4 DEF RequeueSave, Sound, OnDeskPro, LifeInv, OwnedInv, OwnershipInv
  <2>2. \A u \in Sound : row'[u] = row[u]
    BY <1>4, <2>1, SoundTickets DEF RequeueSave, LifeInv, OwnedInv, TypeInv, TypeOK, Rows
  <2>3. LivesInv'
    BY <2>1, <2>2 DEF LifeInv, LivesInv, RowLives, JobLives
  <2>4. \A u \in Tickets : StageOf(u)' = StageOf(u)
    BY <2>1, <2>2 DEF StageOf
  <2> QED
    BY <2>1, <2>3, <2>4, Unchanged, SoundTickets DEF Withdrawn
<1> QED
  BY <1>1, <1>2, <1>3, <1>4

LEMMA InitLife == Init => LifeInv /\ Life!Init
<1> SUFFICES ASSUME Init PROVE LifeInv /\ Life!Init
  OBVIOUS
<1>1. \A t \in Tickets : t \in Sound /\ row[t] = None /\ object[t] = "none"
                         /\ job.rows[t] = None /\ OnDeskPro(t) = {}
  BY DEF Init, NoRows, Idle, Sound, OnDeskPro
<1>2. LifeInv
  BY <1>1, InitOwned, SoundTickets DEF LifeInv, LivesInv, RowLives, JobLives
<1>3. Stage = [t \in Tickets |-> "none"]
  BY <1>1 DEF Stage, StageOf
<1>4. Withdrawn = {} /\ Desk = [t \in Tickets |-> {}]
  BY <1>1 DEF Withdrawn, Desk
<1> QED
  BY <1>2, <1>3, <1>4 DEF Life!Init

LEMMA NextLife ==
    ASSUME LifeInv, [Next]_vars
    PROVE  LifeInv' /\ [Life!Next]_lives
<1>1. OwnedInv'
  BY NextOwned DEF LifeInv
<1>2. LivesInv' /\ [Life!Next]_lives
  <2>1. CASE UNCHANGED vars
    <3>1. /\ UNCHANGED <<object, row, job>> /\ Sound' = Sound
          /\ \A u \in Tickets : OnDeskPro(u)' = OnDeskPro(u)
      BY <2>1 DEF vars, Sound, OnDeskPro
    <3> QED
      BY <3>1, SamePass, SameLives, SoundTickets
  <2>2. CASE Next
    BY <2>2, PublishLives, CloseLives, LoadLives, ObjectLives, FaultLives
       DEF Next, Publisher
  <2> QED
    BY <2>1, <2>2
<1> QED
  BY <1>1, <1>2 DEF LifeInv

\* Whatever DeskPro refuses, in whatever order tickets are queued, withdrawn
\* and published, the publisher, the views and the agents give every ticket the
\* life TicketLife promises, save those requeued by hand or abandoned halfway.
THEOREM TicketsLiveHolds == Spec => TicketsLive
<1>1. LifeInv /\ [Next]_vars => LifeInv' /\ [Life!Next]_<<Stage, Withdrawn, Desk>>
  BY NextLife DEF lives
<1> QED
  BY <1>1, InitLife, PTL DEF Spec, TicketsLive, Life!Spec

===========================================================================
