--------------------------- MODULE IrrAsSetStatus ---------------------------
(***************************************************************************)
(* Re-verification of irr_as_set (pdb_irr_as_set_status.py): a run reads   *)
(* the networks, resolves their values one by one against the index of the *)
(* IRR dumps and the live pool, writes the verdicts in one transaction and *)
(* mails the flagged networks after the commit.  Users save networks and   *)
(* the registries change meanwhile.  Times are ages in days, which stop    *)
(* counting at MaxAge.                                                     *)
(***************************************************************************)
EXTENDS Integers, FiniteSets, Sequences

CONSTANTS
    Networks,      \* their ASNs: a run takes them in this order
    Sources,       \* IRR_SOURCE
    Names,         \* of the objects the values refer to
    Changing,      \* registries where they come and go
    Values,        \* values of irr_as_set
    Pins,          \* the tokens of a value, without repetitions
    Empty,         \* the value ""
    ValuesOf,      \* the values a network may be given
    Deletable,     \* networks that may be deleted and restored
    MaxLookups,    \* --max-lookups
    MaxNotifications,
    RenotifyAfter, \* --renotify-after-days
    MaxAge,        \* where ages stop counting
    NoContacts,    \* networks without a contact of IRR_AS_SET_NOTIFY_ROLES
    Missed,        \* registries a lookup may not reach and yet be ok
    StaleSavers,   \* networks a request may save as it read them some time ago
    Kills,         \* may the command be killed?
    None

\* A token without a registry PeeringDB knows has None for its source.
Tokens == [source : Sources \cup {None}, name : Names]

ASSUME StatusAssumption ==
    /\ Networks \subseteq Nat /\ IsFiniteSet(Networks)
    /\ Pins \in [Values -> Seq(Tokens)]
    /\ Empty \in Values /\ Pins[Empty] = <<>>
    /\ ValuesOf \in [Networks -> SUBSET Values]
    /\ Deletable \subseteq Networks
    /\ MaxLookups \in Nat \ {0} /\ MaxNotifications \in Nat \ {0}
    /\ RenotifyAfter \in Nat /\ MaxAge \in Nat
    /\ RenotifyAfter <= MaxAge
    /\ NoContacts \subseteq Networks /\ StaleSavers \subseteq Networks
    /\ Changing \subseteq Sources /\ Missed \subseteq SUBSET Sources
    /\ Kills \in BOOLEAN
    /\ None \notin Nat /\ None \notin Sources

VARIABLES
    row,      \* the network table
    holders,  \* the registries that hold each name
    index,    \* those whose dump shows it
    run,      \* what the running command has found out
    outbox,   \* networks still to be mailed by the committed run
    held,     \* a network as a request has read it
    mailed    \* days since the mail about the present disappearance (history)

vars == <<row, holders, index, run, outbox, held, mailed>>

Days == 0..MaxAge

\* verdict is irr_as_set_status, missing tells whether irr_as_set_missing_since
\* is set, told counts from irr_as_set_verify_notified.
Row == [status : {"ok", "deleted"}, value : Values,
        verdict : {"unknown", "ok", "moved", "gone"},
        missing : BOOLEAN, told : Days \cup {None}]

\* Outcomes of a run.  "blank" is a network without a value to look at.
Outcomes == {"ok", "skipped", "deferred", "unknown", "moved", "gone", "blank"}

ASSUME NoneAssumption == None \notin Row \cup Outcomes

Idle == [phase |-> "idle"]

Sweeping == [phase : {"sweep"}, rows : [Networks -> Row], todo : SUBSET Networks,
             lookups : Nat, results : [Networks -> Outcomes \cup {None}]]

TypeOK ==
    /\ row \in [Networks -> Row]
    /\ holders \in [Names -> SUBSET Sources]
    /\ index \in [Names -> SUBSET Sources]
    /\ run \in Sweeping \cup {Idle}
    /\ outbox \in SUBSET Networks
    /\ held \in [Networks -> Row \cup {None}]
    /\ mailed \in [Networks -> Days \cup {None}]

Init ==
    /\ row \in [Networks -> [status : {"ok"}, value : Values, verdict : {"unknown"},
                             missing : {FALSE}, told : {None}]]
    /\ \A n \in Networks : row[n].value \in ValuesOf[n]
    /\ holders \in [Names -> SUBSET Sources]
    /\ index = holders
    /\ run = Idle
    /\ outbox = {}
    /\ held = [n \in Networks |-> None]
    /\ mailed = [n \in Networks |-> None]

---------------------------------------------------------------------------
(* verify_network *)

\* What irr.sources_for may answer about a name.
LookupResults(name) ==
    [ok : {TRUE}, sources : {holders[name] \ missed : missed \in Missed \cup {{}}}]
        \cup [ok : {FALSE}, sources : {{}}]

\* Mutant of NeedsLookup: a dump that lacks the name is taken at its word.
DumpDecides(token) == token.source # None /\ index[token.name] = {}

\* Not answered by the index: only then is the live pool asked.
NeedsLookup(token) == token.source # None /\ token.source \notin index[token.name]

\* Mutant of LookupOutcome: the pool's silence is taken for an absence.
LookupOutcomeClosed(token, result) ==
    IF token.source \in result.sources THEN "ok"
    ELSE IF result.sources # {} THEN "moved" ELSE "gone"

LookupOutcome(token, result) ==
    IF ~result.ok THEN "unknown"
    ELSE IF token.source \in result.sources THEN "ok"
    ELSE IF result.sources # {} THEN "moved" ELSE "gone"

_RANK(outcome) ==
    CASE outcome = "ok" -> 0
      [] outcome = "skipped" -> 1
      [] outcome = "deferred" -> 2
      [] outcome = "unknown" -> 3
      [] outcome = "moved" -> 4
      [] outcome = "gone" -> 5

\* The tokens of a value the pool is asked about while the budget lasts.
Live(value) == {i \in DOMAIN Pins[value] : NeedsLookup(Pins[value][i])}

Asked(value, budget) == {i \in Live(value) : Cardinality({j \in Live(value) : j < i}) < budget}

\* What the pool may answer about them.
Answers(value, budget) ==
    {results \in [Asked(value, budget) -> UNION {LookupResults(name) : name \in Names}] :
        \A i \in DOMAIN results : results[i] \in LookupResults(Pins[value][i].name)}

\* _verify_token; a value is as bad as its worst token.
_verify_token(token, i, results) ==
    IF token.source = None THEN "skipped"
    ELSE IF ~NeedsLookup(token) THEN "ok"
    ELSE IF i \notin DOMAIN results THEN "deferred"
    ELSE LookupOutcome(token, results[i])

Worst(outcomes) == CHOOSE o \in outcomes : \A p \in outcomes : _RANK(p) <= _RANK(o)

verify_network(value, results) ==
    Worst({_verify_token(Pins[value][i], i, results) : i \in DOMAIN Pins[value]})

---------------------------------------------------------------------------
(* The command. *)

\* handle() reads the networks and the index.
StartRun ==
    /\ run = Idle
    /\ outbox = {}
    /\ run' = [phase |-> "sweep", rows |-> row,
               todo |-> {n \in Networks : row[n].status = "ok" /\ row[n].value # Empty},
               lookups |-> 0, results |-> [n \in Networks |-> None]]
    /\ UNCHANGED <<row, holders, index, outbox, held, mailed>>

\* The next network.  One without a token is not looked at ("blank"), one
\* whose tokens are all unpinned costs nothing.
Sweep(n) ==
    /\ run # Idle
    /\ n \in run.todo
    /\ \A m \in run.todo : n <= m
    /\ \E results \in Answers(run.rows[n].value, MaxLookups - run.lookups) :
          run' = [run EXCEPT
             !.todo = @ \ {n},
             !.lookups = @ + Cardinality(DOMAIN results),
             !.results[n] = IF Pins[run.rows[n].value] = <<>> THEN "blank"
                            ELSE verify_network(run.rows[n].value, results)]
    /\ UNCHANGED <<row, holders, index, outbox, held, mailed>>

Retracted(r) == [r EXCEPT !.verdict = "unknown", !.missing = FALSE, !.told = None]

NOTIFY_STATUSES == {"moved", "gone"}

\* Mutant of Recorded: a recovery leaves the clock running.
RecordedKeepingClock(r, outcome) ==
    CASE outcome = "ok" -> [r EXCEPT !.verdict = "ok", !.told = None]
      [] outcome \in NOTIFY_STATUSES ->
            [r EXCEPT !.verdict = outcome, !.missing = TRUE]
      [] OTHER -> r

\* Mutant of Recorded: every outcome lands in the column.
RecordedAsFound(r, outcome) ==
    CASE outcome = "ok" -> [r EXCEPT !.verdict = "ok", !.missing = FALSE, !.told = None]
      [] outcome \in NOTIFY_STATUSES -> [r EXCEPT !.verdict = outcome, !.missing = TRUE]
      [] OTHER -> [r EXCEPT !.verdict = outcome]

\* _apply_state, by id and whatever the row holds by now; then every network
\* without a value is retracted.
Recorded(r, outcome) ==
    CASE outcome = "ok" -> [r EXCEPT !.verdict = "ok", !.missing = FALSE, !.told = None]
      [] outcome \in NOTIFY_STATUSES ->
            [r EXCEPT !.verdict = outcome, !.missing = TRUE]
      [] outcome = "unknown" /\ r.verdict \notin NOTIFY_STATUSES ->
            [r EXCEPT !.verdict = "unknown"]
      [] outcome \in {"skipped", "blank"} -> Retracted(r)
      [] OTHER -> r

_apply_state(n) ==
    IF row[n].status = "ok" /\ row[n].value = Empty THEN Retracted(row[n])
    ELSE Recorded(row[n], run.results[n])

\* Mutant of Due: the mark of the last mail is not looked at.
DueAlways(r) == TRUE

Due(r) == r.told = None \/ (RenotifyAfter # 0 /\ r.told >= RenotifyAfter)

\* Does the network still hold the value the run has looked at?
_still_current(n) == row[n].status = "ok" /\ row[n].value = run.rows[n].value

\* _prepare_notifications, in the order of the ASNs and up to the cap.
Eligible ==
    {n \in Networks : /\ run.results[n] \in NOTIFY_STATUSES
                      /\ Due(run.rows[n])
                      /\ n \notin NoContacts
                      /\ _still_current(n)}

Pending == {n \in Eligible : Cardinality({m \in Eligible : m < n}) < MaxNotifications}

\* The transaction: verdicts, then the marks of the mails to be sent.
CommitRun ==
    /\ run # Idle
    /\ run.todo = {}
    /\ outbox' = Pending
    /\ row' = [n \in Networks |-> IF n \in outbox'
                                  THEN [_apply_state(n) EXCEPT !.told = 0]
                                  ELSE _apply_state(n)]
    /\ run' = Idle
    /\ mailed' = [n \in Networks |-> IF ~row'[n].missing THEN None ELSE mailed[n]]
    /\ UNCHANGED <<holders, index, held>>

\* A mail that fails is logged and counts as sent.
SendMail(n) ==
    /\ n \in outbox
    /\ \A m \in outbox : n <= m
    /\ outbox' = outbox \ {n}
    /\ mailed' = [mailed EXCEPT ![n] = 0]
    /\ UNCHANGED <<row, holders, index, run, held>>

Kill ==
    /\ Kills
    /\ run # Idle \/ outbox # {}
    /\ run' = Idle
    /\ outbox' = {}
    /\ UNCHANGED <<row, holders, index, held, mailed>>

---------------------------------------------------------------------------
(* Everyone else. *)

\* A user edits the value, deletes the network or restores it: the whole row
\* is written as it was read.
Save(n, copy) ==
    /\ \E status \in {"ok", "deleted"}, value \in ValuesOf[n] :
          /\ status = "deleted" => n \in Deletable
          /\ row' = [row EXCEPT ![n] = [copy EXCEPT !.status = status, !.value = value]]
    /\ held' = [held EXCEPT ![n] = None]
    /\ UNCHANGED <<holders, index, run, outbox, mailed>>

SaveAtOnce(n) == held[n] = None /\ Save(n, row[n])

\* Only a run in between makes a difference to what is read here.
Load(n) ==
    /\ n \in StaleSavers
    /\ run # Idle
    /\ held[n] = None
    /\ held' = [held EXCEPT ![n] = row[n]]
    /\ UNCHANGED <<row, holders, index, run, outbox, mailed>>

SaveLoaded(n) == held[n] # None /\ Save(n, held[n])

\* An object appears in a registry or disappears from it.
Change(name, s) ==
    /\ holders' = [holders EXCEPT ![name] =
                     IF s \in @ THEN @ \ {s} ELSE @ \cup {s}]
    /\ UNCHANGED <<row, index, run, outbox, held, mailed>>

\* pdb_irr_as_set_fetch renews the dump of one registry.  A run keeps the
\* index it has loaded, so a refresh in its midst is one after its end.
Refresh(s) ==
    /\ run = Idle
    /\ index' = [name \in Names |-> IF s \in holders[name] THEN index[name] \cup {s}
                                                           ELSE index[name] \ {s}]
    /\ UNCHANGED <<row, holders, run, outbox, held, mailed>>

Older(age) == IF age = None \/ age = MaxAge THEN age ELSE age + 1

\* A day passes.  A run and a request take less.
Tick ==
    /\ run = Idle
    /\ outbox = {}
    /\ row' = [n \in Networks |-> [row[n] EXCEPT !.told = Older(@)]]
    /\ mailed' = [n \in Networks |-> Older(mailed[n])]
    /\ held' = [n \in Networks |-> None]
    /\ UNCHANGED <<holders, index, run, outbox>>

Users == \E n \in Networks : SaveAtOnce(n) \/ Load(n) \/ SaveLoaded(n)

Registries == \E s \in Changing : Refresh(s) \/ \E name \in Names : Change(name, s)

Command ==
    \/ StartRun \/ CommitRun
    \/ \E n \in Networks : Sweep(n) \/ SendMail(n)

Next == Command \/ Kill \/ Users \/ Registries \/ Tick

Spec == Init /\ [][Next]_vars

---------------------------------------------------------------------------
(* Properties. *)

Flagged(r) == r.verdict \in NOTIFY_STATUSES

\* A table where the four columns tell one story: the clock runs exactly
\* while the network is flagged, and a mark of a mail goes with a flag.
Consistent(r) ==
    /\ Flagged(r) <=> r.missing
    /\ r.told # None => Flagged(r)

\* missing_histogram and a removal ruling read the clock of flagged networks,
\* the reminders read the mark: outcomes, retractions, outages, kills and
\* stale saves never leave one without the other.
FlagInv ==
    /\ \A n \in Networks : Consistent(row[n])
    /\ \A n \in Networks : held[n] # None => Consistent(held[n])

Pinned(value) == {Pins[value][i] : i \in DOMAIN Pins[value]}

\* "Nothing is ever flagged off a dump miss alone", nor off an outage: a run
\* concludes that a value is wrong only while one of its tokens is absent from
\* the registry it names, or the lookup missed that registry; and the verdict
\* of a network changes to a flag only as a run has concluded.
FlagsAreEarned ==
    [][\A n \in Networks :
         IF run # Idle /\ run' # Idle
         THEN run'.results[n] \in NOTIFY_STATUSES /\ run.results[n] = None =>
                 \E token \in Pinned(run.rows[n].value) :
                    /\ token.source \in Sources
                    /\ \/ token.source \notin holders[token.name]
                       \/ token.source \in UNION Missed
         ELSE row'[n].verdict # row[n].verdict /\ Flagged(row'[n]) /\ run # Idle =>
                 row'[n].verdict = run.results[n]]_vars

\* One mail per disappearance and reminder period, whatever the outages and
\* kills in between; a stale save may bring an old mark back.
MailedOnce ==
    [][\A n \in Networks \ StaleSavers :
         n \in outbox' \ outbox /\ mailed[n] # None
            => RenotifyAfter # 0 /\ mailed[n] >= RenotifyAfter]_vars

Tokenless(n) == row[n].status # "ok" \/ row[n].value = Empty

\* Cron starts the command again and again, and a run goes on to its end.
Fairness == WF_vars(Command)

FairSpec == Spec /\ Fairness

\* Users and registries come to rest, the dumps are renewed, no run is killed
\* any more and the pool answers.
SettledDown ==
    /\ <>[](index = holders)
    /\ <>[][/\ holders' = holders
            /\ run # Idle /\ run' = Idle => CommitRun
            /\ \A n \in Networks :
                  /\ row'[n].status = row[n].status /\ row'[n].value = row[n].value
                  /\ held'[n] = None
                  /\ run # Idle /\ run' # Idle => run'.results[n] # "unknown"
           ]_vars

\* The lookups of the networks up to n fit into one run.
Affordable(n) ==
    Cardinality({token \in (0..n) \X (1..3) :
                   /\ token[1] \in Networks /\ ~Tokenless(token[1])
                   /\ token[2] \in Live(row[token[1]].value)}) <= MaxLookups

Missing(token) == token.source # None /\ token.source \notin holders[token.name]

Dead(n) == \E token \in Pinned(row[n].value) : Missing(token)

\* A verdict about a value the network no longer holds, a lost run or a stale
\* save is repaired: in the end a network is flagged exactly if one of its
\* tokens is missing, provided the budget reaches it.  (A lookup budget spent
\* on the same networks run after run leaves the others where they are.)
VerdictsSettle ==
    \A n \in Networks :
        SettledDown /\ <>[](Affordable(n) /\ ~Tokenless(n))
            => <>[](Flagged(row[n]) <=> Dead(n))
=============================================================================
