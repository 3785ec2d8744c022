------------------------------ MODULE IrrBulk ------------------------------
(***************************************************************************)
(* The cache of IRR dumps (irr_bulk.py, pdb_irr_as_set_fetch.py).  A run   *)
(* takes the sources one by one: it reads the published serial, stages     *)
(* every file of the source, replaces the files in the cache one after the *)
(* other and writes the serial marker.  Runs may overlap and may be        *)
(* killed.  A dump is the serial of the registry it shows; its age counts  *)
(* from its mtime.                                                         *)
(***************************************************************************)
EXTENDS Integers, FiniteSets

CONSTANTS
    Sources,    \* DUMP_SOURCES, numbered in the order a run takes them
    Files,      \* their files, numbered likewise
    SourceOf,   \* the source of a file
    Runs,       \* processes of pdb_irr_as_set_fetch --commit
    Options,    \* their --source and --force
    MaxSerial,  \* bound: the last serial each registry publishes
    MaxAge,     \* IRR_BULK_DUMP_MAX_AGE_HOURS; ages stop counting past it
    Kills,      \* may a run be killed?
    None

ASSUME BulkAssumption ==
    /\ Sources \subseteq Nat /\ IsFiniteSet(Sources)
    /\ Files \subseteq Nat /\ IsFiniteSet(Files)
    /\ SourceOf \in [Files -> Sources]
    /\ \A s \in Sources : \E f \in Files : SourceOf[f] = s
    /\ Options \subseteq [sources : SUBSET Sources, force : BOOLEAN]
    /\ MaxSerial \in [Sources -> Nat]
    /\ MaxAge \in Nat
    /\ Kills \in BOOLEAN
    /\ None \notin Nat /\ None \notin [serial : Nat, age : Nat]

VARIABLES
    published,  \* the serial of each registry, and of the dumps it offers
    file,       \* the dumps in the cache, None when missing or unusable
    marker,     \* the serial marker kept beside them
    temp,       \* .staging: the files each run has put there
    fetch,      \* what each run is doing
    raced       \* sources two runs have refreshed at once (history)

vars == <<published, file, marker, temp, fetch, raced>>

Serials == Nat
Dump == [serial : Serials, age : 0..MaxAge + 1]

\* phase: what comes next for the first source of todo.
Busy == [phase : {"serial", "download", "receive", "promote"},
         todo : SUBSET Sources, force : BOOLEAN, remote : Serials \cup {None},
         left : SUBSET Files, bad : SUBSET Sources,
         all : SUBSET Sources, since : [Sources -> Serials], aged : SUBSET Sources]

Idle == [phase |-> "idle"]

TypeOK ==
    /\ published \in [Sources -> Serials]
    /\ file \in [Files -> Dump \cup {None}]
    /\ marker \in [Sources -> Serials \cup {None}]
    /\ temp \in [Runs -> [Files -> Serials \cup {None}]]
    /\ fetch \in [Runs -> Busy \cup {Idle}]
    /\ raced \in SUBSET Sources

\* Each registry has a file in the cache or not, with or without a marker.
Init ==
    /\ published = [s \in Sources |-> 0]
    /\ file \in [Files -> [serial : {0}, age : {MaxAge + 1}] \cup {None}]
    /\ marker \in [Sources -> {0, None}]
    /\ temp = [r \in Runs |-> [f \in Files |-> None]]
    /\ fetch = [r \in Runs |-> Idle]
    /\ raced = {}

---------------------------------------------------------------------------
(* The cache on disk. *)

First(S) == CHOOSE x \in S : \A y \in S : x <= y

FilesOf(s) == {f \in Files : SourceOf[f] = s}

_all_valid(s) == \A f \in FilesOf(s) : file[f] # None

_all_fresh(s) == _all_valid(s) /\ \A f \in FilesOf(s) : file[f].age <= MaxAge

---------------------------------------------------------------------------
(* A run of pdb_irr_as_set_fetch --commit. *)

Current(r) == First(fetch[r].todo)

Refreshing(r, s) ==
    /\ fetch[r].phase \in {"download", "receive", "promote"}
    /\ Current(r) = s

\* Mutant of Staged: what was staged is taken to be there.
TakenAsStaged(r, f) == TRUE

\* An overlapping run may have cleared the file away.
Staged(r, f) == temp[r][f] # None

\* Two runs at work on one source: what each does to its files is noted.
Races(r, s) == IF \E q \in Runs \ {r} : Refreshing(q, s) THEN raced \cup {s} ELSE raced

\* The outcome of the source at hand is known: the next one, if any.
NextSource(r, failed, aged) ==
    [fetch[r] EXCEPT !.phase = "serial", !.todo = @ \ {Current(r)}, !.left = {},
                     !.remote = None,
                     !.bad = IF failed THEN @ \cup {Current(r)} ELSE @,
                     !.aged = IF aged THEN @ \cup {Current(r)} ELSE @]

\* fetch_dumps begins with _clear_staging, which spares nobody's files.
Start(r) ==
    /\ fetch[r] = Idle
    /\ \E o \in Options :
          fetch' = [fetch EXCEPT ![r] =
              [phase |-> "serial", todo |-> o.sources, force |-> o.force,
               remote |-> None, left |-> {}, bad |-> {}, all |-> o.sources,
               since |-> published, aged |-> {}]]
    /\ temp' = [q \in Runs |-> [f \in Files |-> None]]
    /\ UNCHANGED <<published, file, marker, raced>>

\* Mutant of SerialUnchanged: the files are not looked at.
MarkerMatches(r, remote) ==
    /\ remote # None
    /\ remote = marker[Current(r)]

\* The marker says that the cache holds the published serial.
SerialUnchanged(r, remote) ==
    /\ remote # None
    /\ remote = marker[Current(r)]
    /\ _all_valid(Current(r))

AgeWithinLimit(r, remote) ==
    /\ remote = None
    /\ _all_fresh(Current(r))

\* _fetch_source up to the downloads; the serial may be out of reach.
ReadSerial(r) ==
    /\ fetch[r].phase = "serial"
    /\ fetch[r].todo # {}
    /\ \E remote \in {published[Current(r)], None} :
          fetch' = [fetch EXCEPT ![r] =
              IF ~fetch[r].force /\ SerialUnchanged(r, remote)
              THEN NextSource(r, FALSE, FALSE)
              ELSE IF ~fetch[r].force /\ AgeWithinLimit(r, remote)
              THEN NextSource(r, FALSE, TRUE)
              ELSE [fetch[r] EXCEPT !.phase = "download", !.remote = remote,
                                    !.left = FilesOf(Current(r))]]
    /\ UNCHANGED <<published, file, marker, temp, raced>>

\* _download_to_temp opens the next file and begins to receive it.
Download(r) ==
    /\ fetch[r].phase = "download"
    /\ temp' = [temp EXCEPT ![r][First(fetch[r].left)] = published[Current(r)]]
    /\ fetch' = [fetch EXCEPT ![r].phase = "receive"]
    /\ UNCHANGED <<published, file, marker, raced>>

\* The file is complete and still where it was staged.
Received(r) ==
    /\ fetch[r].phase = "receive"
    /\ Staged(r, First(fetch[r].left))
    /\ LET left == fetch[r].left \ {First(fetch[r].left)}
       IN fetch' = [fetch EXCEPT ![r] =
              IF left # {}
              THEN [fetch[r] EXCEPT !.phase = "download", !.left = left]
              ELSE [fetch[r] EXCEPT !.phase = "promote", !.left = FilesOf(Current(r))]]
    /\ UNCHANGED <<published, file, marker, temp, raced>>

\* An error, or the file was cleared away: what was staged is dropped, the
\* cache stays ("stale" when it is usable, "failed" when not).
DownloadFails(r) ==
    /\ fetch[r].phase = "receive"
    /\ temp' = [temp EXCEPT ![r] =
                  [f \in Files |-> IF SourceOf[f] = Current(r) THEN None ELSE @[f]]]
    /\ fetch' = [fetch EXCEPT ![r] = NextSource(r, TRUE, FALSE)]
    /\ UNCHANGED <<published, file, marker, raced>>

\* os.replace of the next staged file; without it the source has failed with
\* some files replaced, some not.
Promote(r) ==
    /\ fetch[r].phase = "promote"
    /\ fetch[r].left # {}
    /\ LET f == First(fetch[r].left)
       IN IF ~Staged(r, f)
          THEN /\ fetch' = [fetch EXCEPT ![r] = NextSource(r, TRUE, FALSE)]
               /\ UNCHANGED <<file, temp, raced>>
          ELSE /\ file' = [file EXCEPT ![f] = [serial |-> temp[r][f], age |-> 0]]
               /\ temp' = [temp EXCEPT ![r][f] = None]
               /\ fetch' = [fetch EXCEPT ![r].left = @ \ {f}]
               /\ raced' = Races(r, Current(r))
    /\ UNCHANGED <<published, marker>>

\* Mutant of Marked: the marker names the serial offered by now.
MarkedLate(r) == published[Current(r)]

Marked(r) == IF fetch[r].remote = None THEN marker[Current(r)] ELSE fetch[r].remote

\* The serial marker is written after the last file.
Mark(r) ==
    /\ fetch[r].phase = "promote"
    /\ fetch[r].left = {}
    /\ marker' = [marker EXCEPT ![Current(r)] = Marked(r)]
    /\ raced' = Races(r, Current(r))
    /\ fetch' = [fetch EXCEPT ![r] = NextSource(r, FALSE, FALSE)]
    /\ UNCHANGED <<published, file, temp>>

\* The command ends, with an error when a source is stale or failed.
Exit(r) ==
    /\ fetch[r].phase = "serial"
    /\ fetch[r].todo = {}
    /\ fetch' = [fetch EXCEPT ![r] = Idle]
    /\ UNCHANGED <<published, file, marker, temp, raced>>

\* What was staged stays behind.
Kill(r) ==
    /\ Kills
    /\ fetch[r] # Idle
    /\ fetch' = [fetch EXCEPT ![r] = Idle]
    /\ UNCHANGED <<published, file, marker, temp, raced>>

---------------------------------------------------------------------------
(* The world. *)

\* A registry changes: new dumps and a new serial.
Publish(s) ==
    /\ published[s] < MaxSerial[s]
    /\ published' = [published EXCEPT ![s] = @ + 1]
    /\ UNCHANGED <<file, marker, temp, fetch, raced>>

\* Time passes between runs, which take minutes where ages are hours.
Tick ==
    /\ \A r \in Runs : fetch[r] = Idle
    /\ \E f \in Files : file[f] # None /\ file[f].age <= MaxAge
    /\ file' = [f \in Files |->
                  IF file[f] = None \/ file[f].age > MaxAge THEN file[f]
                  ELSE [file[f] EXCEPT !.age = @ + 1]]
    /\ UNCHANGED <<published, marker, temp, fetch, raced>>

Step(r) ==
    \/ ReadSerial(r) \/ Download(r) \/ Received(r) \/ DownloadFails(r)
    \/ Promote(r) \/ Mark(r) \/ Exit(r)

Next ==
    \/ \E r \in Runs : Start(r) \/ Step(r) \/ Kill(r)
    \/ \E s \in Sources : Publish(s)
    \/ Tick

Spec == Init /\ [][Next]_vars

---------------------------------------------------------------------------
(* Properties. *)

\* A marker never runs ahead of a file it stands for: otherwise a run would
\* find the serial unchanged and keep the outdated dump until the registry
\* publishes again.  Kills between two files of one source and failed
\* downloads included; sources two runs have refreshed at once excepted.
MarkerNotAhead ==
    \A f \in Files :
       LET s == SourceOf[f]
       IN s \notin raced /\ marker[s] # None /\ file[f] # None
          => marker[s] <= file[f].serial

\* A run that reports success leaves no registry behind silently: every
\* dump of its sources is usable and shows what the registry published when
\* the run began, or the serial was out of reach and the dump young enough.
SuccessIsCurrent ==
    \A r \in Runs :
       fetch[r] # Idle /\ fetch[r].todo = {} /\ fetch[r].bad = {} =>
          \A s \in fetch[r].all \ (raced \cup fetch[r].aged) :
             \A f \in FilesOf(s) :
                file[f] # None /\ file[f].serial >= fetch[r].since[s]
============================================================================
