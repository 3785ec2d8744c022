----------------------------- MODULE RirStatus -----------------------------
(***************************************************************************)
(* Removal of networks whose ASN was reclaimed (pdb_rir_status.py, the     *)
(* rir_status_initial signal, Network.undelete_for_new_owner).  A run      *)
(* reads the networks and the RIR allocation file, decides about each, and *)
(* writes everything in one transaction; the warnings are mailed after the *)
(* commit.  Users save networks meanwhile.  Times are ages in days, which  *)
(* stop counting at MaxAge.                                                *)
(***************************************************************************)
EXTENDS Integers, FiniteSets

CONSTANTS
    Networks,    \* their ASNs: a run goes through them in this order
    Keep,        \* KEEP_RIR_STATUS, in days
    Cap,         \* --max-notifications
    MaxChanges,  \* --max-changes
    MaxAge,      \* where ages stop counting
    Runs,        \* the --asn, --limit and --max-age of the runs made
    ReAdded,     \* networks that may be added again after their removal
    StaleSavers, \* networks a request may save as it read them some time ago
    Kills,       \* may the command be killed?
    None

ASSUME RirAssumption ==
    /\ Networks \subseteq Nat
    /\ IsFiniteSet(Networks)
    /\ Keep \in Nat /\ Cap \in Nat /\ MaxChanges \in Nat /\ MaxAge \in Nat
    /\ Keep <= MaxAge
    /\ Runs \subseteq [asn : Networks \cup {None}, limit : Nat, maxAge : 0..MaxAge]
    /\ ReAdded \subseteq Networks /\ StaleSavers \subseteq Networks
    /\ Kills \in BOOLEAN
    /\ None \notin Nat

VARIABLES
    row,     \* the network table
    data,    \* ASNs the RIR allocation file does not list as assigned
    run,     \* what the running command has read
    outbox,  \* warnings of the committed run still to be mailed
    held,    \* a network as a request has read it
    warned   \* days since the warning of this flagging (history)

vars == <<row, data, run, outbox, held, warned>>

Days == 0..MaxAge

\* "bad" is every rir_status that rir_status_is_ok rejects, None included;
\* age counts from rir_status_updated, notified is rir_status_notified.
Row == [status : {"ok", "deleted"}, rir : {"pending", "assigned", "bad"},
        age : Days, notified : BOOLEAN]

Idle == [phase |-> "idle"]

Running == [phase : {"running"}, opts : Runs, missing : SUBSET Networks,
            rows : [Networks -> Row]]

TypeOK ==
    /\ row \in [Networks -> Row]
    /\ data \in SUBSET Networks
    /\ run \in Running \cup {Idle}
    /\ outbox \in SUBSET Networks
    /\ held \in [Networks -> Row \cup {None}]
    /\ warned \in [Networks -> Days \cup {None}]

\* Flagged networks without a marker are those of the deploy that added it.
Init ==
    /\ row \in [Networks -> [status : {"ok"}, rir : {"assigned", "bad"},
                             age : {0, MaxAge}, notified : {FALSE}]]
    /\ data \in SUBSET Networks
    /\ run = Idle
    /\ outbox = {}
    /\ held = [n \in Networks |-> None]
    /\ warned = [n \in Networks |-> None]

---------------------------------------------------------------------------
(* What a run decides about the networks it has read. *)

rir_status_is_ok(r) == r.rir \in {"pending", "assigned"}

\* The first k of S in the order of their ASNs.
First(S, k) == {n \in S : Cardinality({m \in S : m <= n}) <= k}

\* The queryset of handle().  --asn also finds deleted networks.
Scope(r) ==
    LET found == {n \in Networks :
                    /\ IF r.opts.asn = None THEN r.rows[n].status = "ok"
                                            ELSE n = r.opts.asn
                    /\ r.rows[n].age >= r.opts.maxAge}
    IN IF r.opts.limit = 0 THEN found ELSE First(found, r.opts.limit)

\* networks_from_good_to_bad
Flagged(r) == {n \in Scope(r) : rir_status_is_ok(r.rows[n]) /\ n \in r.missing}

\* networks_from_bad_to_good
Recovered(r) == {n \in Scope(r) : ~rir_status_is_ok(r.rows[n]) /\ n \notin r.missing}

\* An initial status replaced by the one of the file: both are good.
Settled(r) == {n \in Scope(r) : r.rows[n].rir = "pending" /\ n \notin r.missing}

StillBad(r) == {n \in Scope(r) : ~rir_status_is_ok(r.rows[n]) /\ n \in r.missing}

\* Mutant of Unwarned: the marker of an earlier warning is not looked at.
UnwarnedAll(r) == StillBad(r)

Unwarned(r) == {n \in StillBad(r) : ~r.rows[n].notified}

\* Mutant of ToNotify: networks flagged before are left out.
ToNotifyFlagged(r) == First(Flagged(r), Cap)

\* networks_to_notify
ToNotify(r) == First(Flagged(r) \cup Unwarned(r), Cap)

\* Mutant of Expired: the marker does not gate the deletion.
ExpiredUngated(r) == {n \in StillBad(r) : r.rows[n].age >= Keep}

\* Past every deletion gate except the live check.
Expired(r) == {n \in StillBad(r) : r.rows[n].notified /\ r.rows[n].age >= Keep}

\* What the live RDAP lookup of an ASN can end in.
RdapAnswers == {"record", "not_found", "invalid_range", "bootstrap_miss", "error"}

asn_still_exists(answer) == answer \notin {"not_found", "invalid_range"}

Removed(r, answers) == {n \in Expired(r) : ~asn_still_exists(answers[n])}

\* Too many networks flip: CommandError, or the exception of
\* ticket_queue_rir_status_updates, whose threshold 0 means 100.
TooManyChanges(r) ==
    \/ Cardinality(Flagged(r)) > MaxChanges
    \/ Cardinality(Recovered(r)) > IF MaxChanges = 0 THEN 100 ELSE MaxChanges

\* Mutant of Updated: the marker survives a recovery.
UpdatedKeepingMarker(r, n) ==
    CASE n \in Flagged(r) ->
            [row[n] EXCEPT !.rir = "bad", !.age = 0,
                           !.notified = IF n \in ToNotify(r) THEN TRUE
                                        ELSE r.rows[n].notified]
      [] n \in Unwarned(r) \cap ToNotify(r) ->
            [row[n] EXCEPT !.rir = "bad", !.age = 0, !.notified = TRUE]
      [] n \in Settled(r) \cup Recovered(r) ->
            [row[n] EXCEPT !.rir = "assigned", !.age = 0,
                           !.notified = r.rows[n].notified]
      [] OTHER -> row[n]

\* The bulk_update: it writes the three fields only, as the run has read
\* or computed them.
Updated(r, n) ==
    CASE n \in Flagged(r) ->
            [row[n] EXCEPT !.rir = "bad", !.age = 0,
                           !.notified = IF n \in ToNotify(r) THEN TRUE
                                        ELSE r.rows[n].notified]
      [] n \in Unwarned(r) \cap ToNotify(r) ->
            [row[n] EXCEPT !.rir = "bad", !.age = 0, !.notified = TRUE]
      [] n \in Settled(r) -> [row[n] EXCEPT !.rir = "assigned", !.age = 0,
                                            !.notified = r.rows[n].notified]
      [] n \in Recovered(r) -> [row[n] EXCEPT !.rir = "assigned", !.age = 0,
                                              !.notified = FALSE]
      [] OTHER -> row[n]

---------------------------------------------------------------------------
(* The command. *)

StartRun(opts) ==
    /\ run = Idle
    /\ outbox = {}
    /\ run' = [phase |-> "running", opts |-> opts, missing |-> data, rows |-> row]
    /\ UNCHANGED <<row, data, outbox, held, warned>>

\* Mutant of AbortRun: the process keeps what it has read.
AbortRunHalfReset ==
    /\ run # Idle
    /\ TooManyChanges(run)
    /\ run' = [run EXCEPT !.phase = "idle"]
    /\ UNCHANGED <<row, data, outbox, held, warned>>

\* The transaction is rolled back.
AbortRun ==
    /\ run # Idle
    /\ TooManyChanges(run)
    /\ run' = Idle
    /\ UNCHANGED <<row, data, outbox, held, warned>>

\* Mutant of CommitRun: mails are sent beyond the cap too.
CommitRunMailingAll(answers) ==
    /\ run # Idle
    /\ ~TooManyChanges(run)
    /\ row' = [n \in Networks |->
                 IF n \in Removed(run, answers)
                 THEN [run.rows[n] EXCEPT !.status = "deleted"]
                 ELSE Updated(run, n)]
    /\ outbox' = Flagged(run) \cup Unwarned(run)
    /\ run' = Idle
    /\ warned' = [n \in Networks |->
                    IF n \in Flagged(run) \cup Recovered(run) THEN None
                    ELSE warned[n]]
    /\ UNCHANGED <<data, held>>

(* net.delete() saves the row as the run has read it. *)
CommitRun(answers) ==
    /\ run # Idle
    /\ ~TooManyChanges(run)
    /\ row' = [n \in Networks |->
                 IF n \in Removed(run, answers)
                 THEN [run.rows[n] EXCEPT !.status = "deleted"]
                 ELSE Updated(run, n)]
    /\ outbox' = ToNotify(run)
    /\ run' = Idle
    /\ warned' = [n \in Networks |->
                    IF n \in Flagged(run) \cup Recovered(run) THEN None
                    ELSE warned[n]]
    /\ UNCHANGED <<data, held>>

\* _send_rir_status_notifications: a failed mail counts as an attempt.
SendWarning(n) ==
    /\ n \in outbox
    /\ \A m \in outbox : n <= m
    /\ outbox' = outbox \ {n}
    /\ warned' = [warned EXCEPT ![n] = 0]
    /\ UNCHANGED <<row, data, run, held>>

\* Killed before the commit (rolled back) or among the mails.
Kill ==
    /\ Kills
    /\ run # Idle \/ outbox # {}
    /\ run' = Idle
    /\ outbox' = {}
    /\ UNCHANGED <<row, data, held, warned>>

\* --reset
Reset ==
    /\ run = Idle
    /\ outbox = {}
    /\ row' = [n \in Networks |->
                 IF row[n].status = "ok"
                 THEN [row[n] EXCEPT !.rir = IF n \in data THEN "bad" ELSE "assigned",
                                     !.age = 0, !.notified = FALSE]
                 ELSE row[n]]
    /\ warned' = [n \in Networks |-> IF row[n].status = "ok" THEN None ELSE warned[n]]
    /\ UNCHANGED <<data, run, outbox, held>>

---------------------------------------------------------------------------
(* Everyone else. *)

\* rir_status_initial, before a save of copy with the given status.
Saved(n, copy, status) ==
    IF row[n].status = "deleted" /\ status = "ok"
    THEN [copy EXCEPT !.status = "ok", !.rir = "pending", !.age = 0]
    ELSE [copy EXCEPT !.status = status]

\* The whole row is written: an edit, a deletion or an undeletion.
Save(n, copy) ==
    /\ \E status \in {"ok", "deleted"} :
        /\ copy.status = "deleted" /\ status = "ok" => n \in ReAdded
        /\ row' = [row EXCEPT ![n] = Saved(n, copy, status)]
    /\ held' = [held EXCEPT ![n] = None]
    /\ UNCHANGED <<data, run, outbox, warned>>

Load(n) ==
    /\ n \in StaleSavers
    /\ held[n] = None
    /\ held' = [held EXCEPT ![n] = row[n]]
    /\ UNCHANGED <<row, data, run, outbox, warned>>

SaveLoaded(n) == held[n] # None /\ Save(n, held[n])

SaveAtOnce(n) == held[n] = None /\ Save(n, row[n])

\* A new allocation file.
Publish ==
    /\ data' \in SUBSET Networks
    /\ UNCHANGED <<row, run, outbox, held, warned>>

Older(d) == IF d = MaxAge THEN d ELSE d + 1

\* A day passes.  A run takes less than that, and so does a request: what it
\* has not saved by then it never will.
Tick ==
    /\ run = Idle
    /\ outbox = {}
    /\ row' = [n \in Networks |-> [row[n] EXCEPT !.age = Older(row[n].age)]]
    /\ warned' = [n \in Networks |->
                    IF warned[n] = None THEN None ELSE Older(warned[n])]
    /\ held' = [n \in Networks |-> None]
    /\ UNCHANGED <<data, run, outbox>>

CommitSome ==
    run # Idle /\ \E answers \in [Expired(run) -> RdapAnswers] : CommitRun(answers)

Command ==
    \/ \E opts \in Runs : StartRun(opts)
    \/ AbortRun
    \/ CommitSome
    \/ \E n \in Networks : SendWarning(n)
    \/ Kill
    \/ Reset

Users ==
    \E n \in Networks : Load(n) \/ SaveLoaded(n) \/ SaveAtOnce(n)

Next == Command \/ Users \/ Publish \/ Tick

Spec == Init /\ [][Next]_vars

---------------------------------------------------------------------------
(* Properties. *)

\* A stale save can put a cleared marker back, and so can a network that comes
\* back when the cap may keep its flagging from being notified.
Undisturbed ==
    {n \in Networks \ StaleSavers : n \in ReAdded => Cap >= Cardinality(Networks)}

\* Deletion is irreversible for the owner, so the command first writes to the
\* contacts: whenever a run deletes a network, its mail loop has reached that
\* network since it was last flagged, at least KEEP_RIR_STATUS days ago.  This
\* holds for the undisturbed networks, whatever happens to the others.
UndisturbedAreWarned ==
    [][\A n \in Undisturbed :
         run # run' /\ row[n].status = "ok" /\ row'[n].status = "deleted"
            => warned[n] # None /\ warned[n] >= Keep]_vars

\* The job runs daily: it must not write to the same contacts again while the
\* flagging they were warned of lasts.
WarnedOnce ==
    [][\A n \in Undisturbed :
         n \in outbox /\ warned'[n] = 0 => warned[n] = None]_vars

\* "A rollback never warns about a deletion that wasn't recorded": every
\* warning about to be mailed is for a network whose marker is committed.
MailsAreRecorded == \A n \in outbox \cap Undisturbed : row[n].notified

\* The runs of the cron job: no option narrows them.
EveryNetwork == [asn |-> None, limit |-> 0, maxAge |-> 0]

Confirmed == [n \in Expired(run) |-> "not_found"]

DailyRun == run # Idle /\ run.opts = EveryNetwork

\* Cron starts the command again and again, a run is not killed for ever, the
\* registries do answer at times, mails are attempted and days pass.
Fairness ==
    /\ SF_vars(StartRun(EveryNetwork))
    /\ SF_vars(DailyRun /\ CommitRun(Confirmed))
    /\ WF_vars(\E n \in Networks : SendWarning(n))
    /\ SF_vars(Tick)

FairSpec == Spec /\ Fairness

\* The allocation file stops changing, nobody resets the countdowns, no stale
\* row is saved and no network comes back.
SettledDown ==
    <>[][/\ data' = data
         /\ ~Reset
         /\ \A n \in Networks : /\ ~SaveLoaded(n)
                                /\ row[n].status = "deleted" => row'[n].status = "deleted"
        ]_vars

\* A cap on the mails delays removals but starves none: once the allocation
\* file no longer changes and nobody undoes what the runs write, every network
\* it lacks is removed in the end.
ReclaimedAreRemoved ==
    \A n \in Networks :
        SettledDown /\ <>[](n \in data) => <>(row[n].status = "deleted")

\* And every network it lists loses its flag for good, or was removed before;
\* the marker too, unless it came back with it or a stale save put it back.
RestoredAreCleared ==
    \A n \in Networks :
        SettledDown /\ <>[](n \notin data)
            => <>[](\/ row[n].status = "deleted"
                    \/ /\ rir_status_is_ok(row[n])
                       /\ row[n].notified => n \in ReAdded \cup StaleSavers)

---------------------------------------------------------------------------
(* What makes UndisturbedAreWarned hold: an invariant of the table and of  *)
(* the rows a run has read.                                                *)

\* A flagged network is marked only if the warning it waits on was attempted.
MarkedMeansWarned(table) ==
    \A n \in Undisturbed :
        ~rir_status_is_ok(table[n]) /\ table[n].notified /\ n \notin outbox
            => warned[n] # None /\ warned[n] >= table[n].age

\* A good network that never came back carries no marker.
GoodMeansUnmarked(table) ==
    \A n \in Undisturbed \ ReAdded : rir_status_is_ok(table[n]) => ~table[n].notified

CycleInv ==
    /\ MarkedMeansWarned(row)
    /\ GoodMeansUnmarked(row)
    /\ \A n \in outbox \cap Undisturbed : ~rir_status_is_ok(row[n]) => row[n].age = 0
    /\ run # Idle => /\ outbox = {}
                     /\ MarkedMeansWarned(run.rows)
                     /\ GoodMeansUnmarked(run.rows)

===========================================================================
