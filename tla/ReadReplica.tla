---------------------------- MODULE ReadReplica ----------------------------
(***************************************************************************)
(* Read-replica routing (db_replica.py, db_router.py).  Reads of a safe    *)
(* request go to the replica unless the browser sends the pin cookie;      *)
(* a request that wrote stamps the cookie on its response.  The database   *)
(* is abstracted to the number of its last committed write, the replica to *)
(* the number of the last write it has applied.                            *)
(***************************************************************************)
EXTENDS Integers

CONSTANTS
    Clients,    \* browsers: they keep cookies
    Requests,   \* request slots of the web workers
    PinMaxAge,  \* DATABASE_REPLICA_PIN_COOKIE_MAX_AGE
    MaxLag,     \* longest time a committed write stays off the replica
    MaxWrites,  \* bound on the number of writes
    MaxClock    \* bound on the clock

ASSUME ReplicaAssumption ==
    /\ PinMaxAge \in Nat
    /\ MaxLag \in Nat
    /\ MaxLag < PinMaxAge
    /\ MaxWrites \in Nat
    /\ MaxClock \in Nat

VARIABLES
    clock,
    primary,      \* last write committed on "default"
    replica,      \* last write applied on "read"
    committedAt,  \* committedAt[v]: the clock when write v committed
    pinnedUntil,  \* expiry of each browser's multidb_pin_writes cookie
    acked,        \* the last detected write whose response each browser has
    req           \* what each request slot is doing

vars == <<clock, primary, replica, committedAt, pinnedUntil, acked, req>>

Versions == 0..MaxWrites

Idle == [phase |-> "idle"]

RequestState ==
    [phase : {"active"}, client : Clients, safe : BOOLEAN,
     useReplica : BOOLEAN,   \* _use_replica
     wrote : BOOLEAN,        \* _request_wrote
     written : Versions,     \* the request's last detected write
     owed : Versions,        \* acked[client] when the request was sent
     saw : Versions]         \* what its last read returned

TypeOK ==
    /\ clock \in Nat
    /\ primary \in Versions
    /\ replica \in Versions
    /\ committedAt \in [Versions -> Nat]
    /\ pinnedUntil \in [Clients -> Nat]
    /\ acked \in [Clients -> Versions]
    /\ req \in [Requests -> RequestState \cup {Idle}]

Init ==
    /\ clock = 0
    /\ primary = 0
    /\ replica = 0
    /\ committedAt = [v \in Versions |-> 0]
    /\ pinnedUntil = [c \in Clients |-> 0]
    /\ acked = [c \in Clients |-> 0]
    /\ req = [r \in Requests |-> Idle]

Active(r) == req[r].phase = "active"

\* Mutant of Begin: the routing decision forgets the cookie.
BeginIgnoringCookie(r, c, safe) ==
    /\ ~Active(r)
    /\ req' = [req EXCEPT ![r] =
                 [phase |-> "active", client |-> c, safe |-> safe,
                  useReplica |-> safe, wrote |-> FALSE, written |-> 0,
                  owed |-> acked[c], saw |-> acked[c]]]
    /\ UNCHANGED <<clock, primary, replica, committedAt, pinnedUntil, acked>>

(***************************************************************************)
(* ReadReplicaRouterMiddleware.__call__ up to get_response: the routing    *)
(* flag is decided once, from the method and the cookie.                   *)
(***************************************************************************)
Begin(r, c, safe) ==
    /\ ~Active(r)
    /\ req' = [req EXCEPT ![r] =
                 [phase |-> "active", client |-> c, safe |-> safe,
                  useReplica |-> safe /\ clock >= pinnedUntil[c],
                  wrote |-> FALSE, written |-> 0,
                  owed |-> acked[c], saw |-> acked[c]]]
    /\ UNCHANGED <<clock, primary, replica, committedAt, pinnedUntil, acked>>

Commit ==
    /\ primary < MaxWrites
    /\ primary' = primary + 1
    /\ committedAt' = [committedAt EXCEPT ![primary + 1] = clock]

\* Model.save() / Model.delete() (post_save, post_delete -> _on_write), or a
\* bulk write followed by mark_request_wrote(); db_for_write is "default".
Write(r) ==
    /\ Active(r)
    /\ Commit
    /\ req' = [req EXCEPT ![r].wrote = TRUE, ![r].written = primary + 1]
    /\ UNCHANGED <<clock, replica, pinnedUntil, acked>>

\* A write no request stamps: QuerySet.update() and the other forms no signal
\* is sent for, a management command, the importer (_request_active is False).
UndetectedWrite ==
    /\ Commit
    /\ UNCHANGED <<clock, replica, pinnedUntil, acked, req>>

\* DatabaseRouter.db_for_read: which copy a read of the request sees.
ReadFrom(r) == IF req[r].useReplica THEN replica ELSE primary

Read(r) ==
    /\ Active(r)
    /\ req' = [req EXCEPT ![r].saw = ReadFrom(r)]
    /\ UNCHANGED <<clock, primary, replica, committedAt, pinnedUntil, acked>>

\* A read inside use_primary_db().
ReadPrimary(r) ==
    /\ Active(r)
    /\ req' = [req EXCEPT ![r].saw = primary]
    /\ UNCHANGED <<clock, primary, replica, committedAt, pinnedUntil, acked>>

\* Mutant of Respond: only unsafe requests stamp the cookie, so a write made
\* while serving a GET does not pin its browser.
RespondPinUnsafeOnly(r) ==
    LET c == req[r].client IN
    /\ Active(r)
    /\ pinnedUntil' = [pinnedUntil EXCEPT ![c] =
                         IF req[r].wrote /\ ~req[r].safe
                           THEN clock + PinMaxAge ELSE @]
    /\ acked' = [acked EXCEPT ![c] =
                   IF req[r].wrote /\ req[r].written > @
                     THEN req[r].written ELSE @]
    /\ req' = [req EXCEPT ![r] = Idle]
    /\ UNCHANGED <<clock, primary, replica, committedAt>>

\* Mutant of Respond: the slot is released with the finished request's flags still
\* set (no _set_request_wrote(False) and no reset of the routing flag).
RespondHalfReset(r) ==
    /\ Active(r)
    /\ req' = [req EXCEPT ![r].phase = "idle"]
    /\ UNCHANGED <<clock, primary, replica, committedAt, pinnedUntil, acked>>

(***************************************************************************)
(* The rest of __call__: the response carries the cookie when the request  *)
(* wrote, and the browser has both.                                        *)
(***************************************************************************)
Respond(r) ==
    LET c == req[r].client IN
    /\ Active(r)
    /\ IF req[r].wrote
         THEN /\ pinnedUntil' = [pinnedUntil EXCEPT ![c] = clock + PinMaxAge]
              /\ acked' = [acked EXCEPT ![c] =
                             IF req[r].written > @ THEN req[r].written ELSE @]
         ELSE UNCHANGED <<pinnedUntil, acked>>
    /\ req' = [req EXCEPT ![r] = Idle]
    /\ UNCHANGED <<clock, primary, replica, committedAt>>

\* The browser gives up or the connection breaks: it has neither the answer
\* nor the cookie.
LoseResponse(r) ==
    /\ Active(r)
    /\ req' = [req EXCEPT ![r] = Idle]
    /\ UNCHANGED <<clock, primary, replica, committedAt, pinnedUntil, acked>>

\* Replication applies the writes in order (external: the MySQL replica).
Replicate ==
    /\ replica < primary
    /\ replica' = replica + 1
    /\ UNCHANGED <<clock, primary, committedAt, pinnedUntil, acked, req>>

\* Time passes, and no write stays off the replica for longer than MaxLag.
Tick ==
    /\ clock < MaxClock
    /\ \A v \in Versions :
          replica < v /\ v <= primary => clock < committedAt[v] + MaxLag
    /\ clock' = clock + 1
    /\ UNCHANGED <<primary, replica, committedAt, pinnedUntil, acked, req>>

Next ==
    \/ \E r \in Requests :
         \/ \E c \in Clients, safe \in BOOLEAN : Begin(r, c, safe)
         \/ Write(r)
         \/ Read(r)
         \/ ReadPrimary(r)
         \/ Respond(r)
         \/ LoseResponse(r)
    \/ UndetectedWrite
    \/ Replicate
    \/ Tick

Spec == Init /\ [][Next]_vars

-----------------------------------------------------------------------------
(***************************************************************************)
(* docs/dev/read_replica.md: a per-client cookie keeps a recently-writing  *)
(* client pinned to primary long enough for replication to catch up.  No   *)
(* read of a request returns data older than what the browser had already  *)
(* been told was written when it sent the request, whichever copy serves   *)
(* it and however the cookie's expiry races replication.                   *)
(***************************************************************************)
ReadYourWrites ==
    \A r \in Requests : Active(r) => req[r].saw >= req[r].owed

(***************************************************************************)
(* Why ReadYourWrites holds: until the cookie of a browser expires there   *)
(* is no need for the replica; once it has, every write that the browser   *)
(* was told of has been replicated.                                        *)
(***************************************************************************)
ExpiredPinIsReplicated ==
    \A c \in Clients : clock >= pinnedUntil[c] => acked[c] <= replica

(* The inductive invariant behind the two: a write that the replica lacks  *)
(* is at most MaxLag old, a pin outlives its write by PinMaxAge, and a     *)
(* request is routed to the replica only when it owes nothing newer.       *)
LagBounded ==
    \A v \in Versions :
       v <= primary => /\ committedAt[v] <= clock
                       /\ v > replica => clock <= committedAt[v] + MaxLag

PinCoversAcked ==
    \A c \in Clients :
       /\ acked[c] <= primary
       /\ acked[c] > 0 => pinnedUntil[c] >= committedAt[acked[c]] + PinMaxAge

RoutedSafely ==
    \A r \in Requests :
       Active(r) => /\ req[r].written <= primary
                    /\ req[r].owed <= primary
                    /\ req[r].useReplica => req[r].owed <= replica

IInv ==
    /\ TypeOK
    /\ replica <= primary
    /\ LagBounded
    /\ PinCoversAcked
    /\ RoutedSafely
    /\ ReadYourWrites
=============================================================================
