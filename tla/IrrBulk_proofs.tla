--------------------------- MODULE IrrBulk_proofs ---------------------------
(***************************************************************************)
(* Proofs about IrrBulk: type correctness; a serial marker never runs      *)
(* ahead of a file it stands for; a run that reports success leaves no     *)
(* outdated dump behind.                                                   *)
(***************************************************************************)
EXTENDS IrrBulk, WellFoundedInduction, TLAPS

---------------------------------------------------------------------------
(* Shapes. *)

LEMMA FirstIsIn ==
    ASSUME NEW S \in SUBSET Nat, S # {}
    PROVE  First(S) \in S
<1> DEFINE R == OpToRel(<, Nat)
<1>1. IsWellFoundedOn(R, Nat)
  BY NatLessThanWellFounded
<1> HIDE DEF R
<1>2. PICK x \in S : \A y \in S : ~(<<y, x>> \in R)
  BY <1>1, WFMin
<1>3. \A a, b \in Nat : a < b => <<a, b>> \in R
  BY DEF R, OpToRel
<1>4. \A y \in S : ~(y < x)
  BY <1>2, <1>3
<1>5. \A y \in S : x <= y
  BY <1>4
<1> QED
  BY <1>5 DEF First

\* The phase of a run tells whether it is under way.
LEMMA RunShape ==
    ASSUME TypeOK, NEW r \in Runs
    PROVE  /\ fetch[r] # Idle => fetch[r] \in Busy
           /\ fetch[r].phase \in {"serial", "download", "receive", "promote"}
                 => fetch[r] \in Busy /\ fetch[r] # Idle
BY DEF TypeOK, Busy, Idle

LEMMA CurrentIsIn ==
    ASSUME TypeOK, NEW r \in Runs, fetch[r] \in Busy, fetch[r].todo # {}
    PROVE  Current(r) \in fetch[r].todo /\ Current(r) \in Sources
BY FirstIsIn, BulkAssumption DEF Busy, Current

LEMMA FilesOfSource ==
    ASSUME NEW s \in Sources
    PROVE  /\ FilesOf(s) \subseteq Files /\ FilesOf(s) \subseteq Nat /\ FilesOf(s) # {}
           /\ \A f \in FilesOf(s) : SourceOf[f] = s
BY BulkAssumption DEF FilesOf

LEMMA NextSourceType ==
    ASSUME TypeOK, NEW r \in Runs, fetch[r] \in Busy, fetch[r].todo # {},
           NEW failed \in BOOLEAN, NEW aged \in BOOLEAN
    PROVE  /\ NextSource(r, failed, aged) \in Busy
           /\ NextSource(r, failed, aged).phase = "serial"
           /\ NextSource(r, failed, aged).todo = fetch[r].todo \ {Current(r)}
           /\ NextSource(r, failed, aged).all = fetch[r].all
           /\ NextSource(r, failed, aged).since = fetch[r].since
           /\ fetch[r].bad \subseteq NextSource(r, failed, aged).bad
           /\ fetch[r].aged \subseteq NextSource(r, failed, aged).aged
           /\ failed => Current(r) \in NextSource(r, failed, aged).bad
           /\ aged => Current(r) \in NextSource(r, failed, aged).aged
<1>1. Current(r) \in Sources
  BY CurrentIsIn
<1>2. /\ fetch[r].bad \cup {Current(r)} \in SUBSET Sources
      /\ fetch[r].aged \cup {Current(r)} \in SUBSET Sources
      /\ fetch[r].todo \ {Current(r)} \in SUBSET Sources
  BY <1>1 DEF Busy
<1> QED
  BY <1>2 DEF NextSource, Busy

---------------------------------------------------------------------------
(* The invariant. *)

\* A registry's serial is published before it is marked.
MarkersKnown == \A s \in Sources : marker[s] # None => marker[s] <= published[s]

\* Nothing is staged of a source a run has yet to take.
Clean(r) ==
    \A f \in Files :
        SourceOf[f] \in fetch[r].todo /\ (fetch[r].phase = "serial" \/ SourceOf[f] # Current(r))
            => temp[r][f] = None

\* Whatever is staged, by whomever, was downloaded after the run began: it
\* cleared the staging area.
SinceStart(r) ==
    /\ \A s \in Sources : fetch[r].since[s] <= published[s]
    /\ \A q \in Runs, f \in Files :
          temp[q][f] # None => fetch[r].since[SourceOf[f]] <= temp[q][f]

AtLeast(n, serial) == serial # None => serial <= n

\* What a run stages is not older than the serial it has read, nor than the
\* marker; and so are the files it has replaced.
RefreshInv(r) ==
    /\ fetch[r].todo # {}
    /\ fetch[r].left \subseteq FilesOf(Current(r))
    /\ fetch[r].phase \in {"download", "receive"} => fetch[r].left # {}
    /\ AtLeast(published[Current(r)], fetch[r].remote)
    /\ \A f \in FilesOf(Current(r)) : temp[r][f] # None =>
          /\ AtLeast(temp[r][f], fetch[r].remote)
          /\ Current(r) \notin raced => AtLeast(temp[r][f], marker[Current(r)])
    /\ fetch[r].phase = "promote" /\ Current(r) \notin raced =>
          \A f \in FilesOf(Current(r)) \ fetch[r].left :
             /\ file[f] # None
             /\ AtLeast(file[f].serial, fetch[r].remote)
             /\ fetch[r].since[Current(r)] <= file[f].serial

\* The sources a run is done with, but those it reports.
Done(r) == fetch[r].all \ (fetch[r].todo \cup fetch[r].bad \cup fetch[r].aged \cup raced)

DoneInv(r) ==
    \A s \in Done(r) : \A f \in FilesOf(s) :
        file[f] # None /\ fetch[r].since[s] <= file[f].serial

RunInv(r) ==
    fetch[r] # Idle =>
        /\ Clean(r)
        /\ SinceStart(r)
        /\ fetch[r].phase # "serial" => RefreshInv(r)
        /\ DoneInv(r)

IInv == TypeOK /\ MarkersKnown /\ MarkerNotAhead /\ \A r \in Runs : RunInv(r)

LEMMA InitInv == Init => IInv
<1> SUFFICES ASSUME Init PROVE IInv
  OBVIOUS
<1>1. TypeOK
  BY BulkAssumption DEF Init, TypeOK, Dump, Serials
<1>2. MarkersKnown
  BY BulkAssumption DEF Init, MarkersKnown
<1>3. MarkerNotAhead
  <2> SUFFICES ASSUME NEW f \in Files, marker[SourceOf[f]] # None, file[f] # None
               PROVE  marker[SourceOf[f]] <= file[f].serial
    BY DEF MarkerNotAhead
  <2>1. marker[SourceOf[f]] = 0
    BY BulkAssumption DEF Init
  <2>2. file[f].serial = 0
    BY DEF Init
  <2> QED
    BY <2>1, <2>2
<1> QED
  BY <1>1, <1>2, <1>3 DEF IInv, RunInv, Init

---------------------------------------------------------------------------
(* What a step of one run leaves of the others, and of a source it ends.   *)

\* A step that changes no file and no marker keeps what is known of a run
\* it does not move, whatever it drops and whatever it stages for another.
LEMMA OthersKeep ==
    ASSUME IInv, NEW q \in Runs, fetch'[q] = fetch[q],
           UNCHANGED <<published, file, marker, raced>>,
           \A f \in Files : temp'[q][f] \in {temp[q][f], None},
           \A p \in Runs, f \in Files :
              temp'[p][f] \in {temp[p][f], None, published[SourceOf[f]]}
    PROVE  RunInv(q)'
<1> SUFFICES ASSUME fetch[q] # Idle PROVE RunInv(q)'
  BY DEF RunInv
<1>1. Clean(q) /\ SinceStart(q) /\ DoneInv(q) /\ TypeOK /\ fetch[q] \in Busy
  BY RunShape DEF IInv, RunInv
<1>2. Current(q)' = Current(q)
  BY DEF Current
<1>3. Clean(q)'
  BY <1>1, <1>2 DEF Clean
<1>4. SinceStart(q)'
  <2>1. \A s \in Sources : fetch[q].since[s] <= published[s]
    BY <1>1 DEF SinceStart
  <2>2. ASSUME NEW p \in Runs, NEW f \in Files, temp'[p][f] # None
        PROVE  fetch[q].since[SourceOf[f]] <= temp'[p][f]
    <3>1. temp'[p][f] = temp[p][f] \/ temp'[p][f] = published[SourceOf[f]]
      BY <2>2
    <3>2. SourceOf[f] \in Sources
      BY BulkAssumption
    <3> QED
      BY <1>1, <2>1, <2>2, <3>1, <3>2 DEF SinceStart
  <2> QED
    BY <2>1, <2>2 DEF SinceStart
<1>5. DoneInv(q)'
  BY <1>1 DEF DoneInv, Done
<1>6. ASSUME fetch[q].phase # "serial" PROVE RefreshInv(q)'
  <2>1. RefreshInv(q)
    BY <1>6 DEF IInv, RunInv
  <2>2. FilesOf(Current(q)) \subseteq Files
    BY DEF FilesOf
  <2> QED
    BY <1>2, <2>1, <2>2 DEF RefreshInv, AtLeast, FilesOf
<1> QED
  BY <1>3, <1>4, <1>5, <1>6 DEF RunInv

\* A run goes to its next source: it has failed at the one at hand, reports
\* it as aged, or leaves its files current.
LEMMA NextSourceInv ==
    ASSUME IInv, NEW r \in Runs, fetch[r] \in Busy, fetch[r].todo # {},
           NEW failed \in BOOLEAN, NEW aged \in BOOLEAN,
           fetch' = [fetch EXCEPT ![r] = NextSource(r, failed, aged)],
           UNCHANGED <<published, file>>, raced \subseteq raced',
           \A p \in Runs, f \in Files : temp'[p][f] \in {temp[p][f], None},
           failed \/ aged \/ Current(r) \in raced'
             \/ \A f \in FilesOf(Current(r)) :
                   file[f] # None /\ fetch[r].since[Current(r)] <= file[f].serial
    PROVE  RunInv(r)'
<1>1. fetch[r] # Idle
  BY RunShape DEF IInv, Busy, Idle
<1>2. TypeOK
  BY DEF IInv
<1>3. Clean(r) /\ SinceStart(r) /\ DoneInv(r)
  BY <1>1 DEF IInv, RunInv
<1> DEFINE n == NextSource(r, failed, aged)
<1>4. fetch'[r] = n
  BY <1>2 DEF TypeOK
<1>5. /\ n.todo = fetch[r].todo \ {Current(r)} /\ n.phase = "serial"
      /\ n.all = fetch[r].all /\ n.since = fetch[r].since
  BY <1>2, NextSourceType
<1>6. /\ fetch[r].bad \subseteq n.bad
      /\ fetch[r].aged \subseteq n.aged
  BY <1>2, NextSourceType
<1>7. failed => Current(r) \in n.bad
  BY <1>2, NextSourceType
<1>8. aged => Current(r) \in n.aged
  BY <1>2, NextSourceType
<1> HIDE DEF n
<1>9. Clean(r)'
  BY <1>3, <1>4, <1>5 DEF Clean
<1>10. SinceStart(r)'
  BY <1>3, <1>4, <1>5 DEF SinceStart
<1>11. \A s \in Done(r)' : s \in Done(r) \/ (s = Current(r) /\ ~failed /\ ~aged /\ s \notin raced')
  BY <1>4, <1>5, <1>6, <1>7, <1>8 DEF Done
<1>12. DoneInv(r)'
  BY <1>3, <1>4, <1>5, <1>11 DEF DoneInv, FilesOf
<1> QED
  BY <1>4, <1>5, <1>9, <1>10, <1>12 DEF RunInv

LEMMA StartInv == ASSUME IInv, NEW r \in Runs, Start(r) PROVE IInv'
<1>1. PICK o \in Options :
        fetch' = [fetch EXCEPT ![r] =
              [phase |-> "serial", todo |-> o.sources, force |-> o.force,
               remote |-> None, left |-> {}, bad |-> {}, all |-> o.sources,
               since |-> published, aged |-> {}]]
  BY DEF Start
<1>2. o \in [sources : SUBSET Sources, force : BOOLEAN]
  BY BulkAssumption
<1>3. TypeOK'
  BY <1>1, <1>2 DEF IInv, Start, TypeOK, Busy, Serials
<1>4. MarkersKnown' /\ MarkerNotAhead'
  BY DEF IInv, MarkersKnown, MarkerNotAhead, Start
<1>5. ASSUME NEW q \in Runs PROVE RunInv(q)'
  <2>1. \A p \in Runs, f \in Files : temp'[p][f] = None
    BY DEF Start
  <2>2. CASE q = r
    <3>1. fetch'[r] = [phase |-> "serial", todo |-> o.sources, force |-> o.force,
               remote |-> None, left |-> {}, bad |-> {}, all |-> o.sources,
               since |-> published, aged |-> {}]
      BY <1>1 DEF IInv, TypeOK
    <3>2. Clean(r)' /\ SinceStart(r)' /\ DoneInv(r)'
      BY <2>1, <3>1 DEF Clean, SinceStart, DoneInv, Done, Start, IInv, TypeOK, Serials
    <3> QED
      BY <2>2, <3>1, <3>2 DEF RunInv
  <2>3. CASE q # r
    BY <1>1, <2>1, <2>3, OthersKeep DEF IInv, TypeOK, Start
  <2> QED
    BY <2>2, <2>3
<1> QED
  BY <1>3, <1>4, <1>5 DEF IInv

LEMMA ReadSerialInv == ASSUME IInv, NEW r \in Runs, ReadSerial(r) PROVE IInv'
<1> DEFINE s == Current(r)
<1>1. /\ TypeOK /\ fetch[r] \in Busy /\ fetch[r] # Idle /\ fetch[r].todo # {} /\ RunInv(r)
      /\ fetch[r].phase = "serial" /\ s \in Sources /\ s \in fetch[r].todo
  BY RunShape, CurrentIsIn DEF IInv, ReadSerial
<1>2. UNCHANGED <<published, file, marker, temp, raced>>
  BY DEF ReadSerial
<1>3. PICK remote \in {published[s], None} :
          fetch' = [fetch EXCEPT ![r] =
              IF ~fetch[r].force /\ SerialUnchanged(r, remote)
              THEN NextSource(r, FALSE, FALSE)
              ELSE IF ~fetch[r].force /\ AgeWithinLimit(r, remote)
              THEN NextSource(r, FALSE, TRUE)
              ELSE [fetch[r] EXCEPT !.phase = "download", !.remote = remote,
                                    !.left = FilesOf(s)]]
  BY DEF ReadSerial
<1>4. ASSUME NEW q \in Runs, q # r PROVE RunInv(q)'
  BY <1>1, <1>2, <1>3, <1>4, OthersKeep DEF TypeOK
<1>5. MarkersKnown' /\ MarkerNotAhead'
  BY <1>2 DEF IInv, MarkersKnown, MarkerNotAhead
<1>6. CASE fetch' = [fetch EXCEPT ![r] = NextSource(r, FALSE, FALSE)] /\ SerialUnchanged(r, remote)
  <2>1. TypeOK'
    BY <1>1, <1>2, <1>6, NextSourceType DEF TypeOK
  <2>2. remote = published[s] /\ marker[s] = remote /\ marker[s] # None /\ _all_valid(s)
    BY <1>6 DEF SerialUnchanged
  <2>3. fetch[r].since[s] <= published[s]
    BY <1>1 DEF RunInv, SinceStart
  <2>4. s \in raced' \/ \A f \in FilesOf(s) : file[f] # None /\ fetch[r].since[s] <= file[f].serial
    <3> SUFFICES ASSUME s \notin raced, NEW f \in FilesOf(s)
                 PROVE  file[f] # None /\ fetch[r].since[s] <= file[f].serial
      BY <1>2
    <3>1. file[f] # None
      BY <2>2 DEF _all_valid
    <3>2. f \in Files /\ SourceOf[f] = s
      BY DEF FilesOf
    <3>3. published[s] <= file[f].serial
      BY <2>2, <3>1, <3>2 DEF IInv, MarkerNotAhead
    <3>4. published[s] \in Nat /\ file[f].serial \in Nat /\ fetch[r].since[s] \in Nat
      BY <1>1, <3>1, <3>2 DEF TypeOK, Busy, Dump, Serials
    <3> QED
      BY <2>3, <3>1, <3>3, <3>4
  <2>5. RunInv(r)'
    BY <1>1, <1>2, <1>6, <2>4, NextSourceInv
  <2> QED
    BY <1>4, <1>5, <2>1, <2>5 DEF IInv
<1>7. CASE fetch' = [fetch EXCEPT ![r] = NextSource(r, FALSE, TRUE)]
  <2>1. TypeOK'
    BY <1>1, <1>2, <1>7, NextSourceType DEF TypeOK
  <2>2. RunInv(r)'
    BY <1>1, <1>2, <1>7, NextSourceInv
  <2> QED
    BY <1>4, <1>5, <2>1, <2>2 DEF IInv
<1>8. CASE fetch' = [fetch EXCEPT ![r] = [fetch[r] EXCEPT !.phase = "download", !.remote = remote,
                                                          !.left = FilesOf(s)]]
  <2> DEFINE n == [fetch[r] EXCEPT !.phase = "download", !.remote = remote, !.left = FilesOf(s)]
  <2>1. /\ fetch'[r] = n /\ n \in Busy /\ n.phase = "download" /\ n.todo = fetch[r].todo
        /\ n.all = fetch[r].all /\ n.since = fetch[r].since /\ n.bad = fetch[r].bad
        /\ n.aged = fetch[r].aged /\ n.left = FilesOf(s) /\ n.remote = remote
    BY <1>1, <1>8, FilesOfSource DEF TypeOK, Busy
  <2> HIDE DEF n
  <2>2. TypeOK'
    BY <1>1, <1>2, <1>8, <2>1 DEF TypeOK, n
  <2>3. s' = s
    BY <2>1 DEF Current
  <2>4. Clean(r)' /\ SinceStart(r)' /\ DoneInv(r)'
    BY <1>1, <1>2, <2>1 DEF RunInv, Clean, SinceStart, DoneInv, Done
  <2>5. \A f \in FilesOf(s) : temp[r][f] = None
    BY <1>1, FilesOfSource DEF RunInv, Clean
  <2>6. FilesOf(s) # {}
    BY <1>1, FilesOfSource
  <2>7. AtLeast(published[s], remote)
    BY <1>1 DEF AtLeast, TypeOK, Serials
  <2>8. RefreshInv(r)'
    BY <1>1, <1>2, <2>1, <2>3, <2>5, <2>6, <2>7 DEF RefreshInv, AtLeast
  <2> QED
    BY <1>4, <1>5, <2>1, <2>2, <2>4, <2>8 DEF IInv, RunInv
<1> QED
  BY <1>3, <1>6, <1>7, <1>8

LEMMA DownloadFailsInv == ASSUME IInv, NEW r \in Runs, DownloadFails(r) PROVE IInv'
<1>1. /\ TypeOK /\ fetch[r] \in Busy /\ fetch[r] # Idle /\ RunInv(r)
  BY RunShape DEF IInv, DownloadFails
<1>2. fetch[r].todo # {}
  BY <1>1 DEF DownloadFails, RunInv, RefreshInv
<1>3. /\ UNCHANGED <<published, file, marker, raced>>
      /\ fetch' = [fetch EXCEPT ![r] = NextSource(r, TRUE, FALSE)]
      /\ temp' = [temp EXCEPT ![r] = [f \in Files |-> IF SourceOf[f] = Current(r) THEN None ELSE @[f]]]
  BY DEF DownloadFails
<1>4. temp' \in [Runs -> [Files -> Serials \cup {None}]]
  BY <1>1, <1>3 DEF TypeOK
<1>5. \A p \in Runs, f \in Files : temp'[p][f] \in {temp[p][f], None}
  BY <1>1, <1>3 DEF TypeOK
<1>6. TypeOK'
  BY <1>1, <1>2, <1>3, <1>4, NextSourceType DEF TypeOK
<1>7. RunInv(r)'
  BY <1>1, <1>2, <1>3, <1>5, NextSourceInv
<1>8. ASSUME NEW q \in Runs, q # r PROVE RunInv(q)'
  BY <1>1, <1>3, <1>5, <1>8, OthersKeep DEF TypeOK
<1> QED
  BY <1>3, <1>6, <1>7, <1>8 DEF IInv, MarkersKnown, MarkerNotAhead

LEMMA DownloadInv == ASSUME IInv, NEW r \in Runs, Download(r) PROVE IInv'
<1> DEFINE s == Current(r)  g == First(fetch[r].left)
<1>1. /\ TypeOK /\ fetch[r] \in Busy /\ fetch[r] # Idle /\ RunInv(r) /\ RefreshInv(r)
  BY RunShape DEF IInv, Download, RunInv
<1>2. s \in Sources /\ FilesOf(s) \subseteq Files /\ FilesOf(s) \subseteq Nat
  BY <1>1, CurrentIsIn, FilesOfSource DEF RefreshInv
<1>3. g \in FilesOf(s) /\ g \in Files /\ SourceOf[g] = s
  <2>1. fetch[r].left \in SUBSET Nat /\ fetch[r].left # {}
    BY <1>1, <1>2 DEF RefreshInv, Download
  <2>2. g \in fetch[r].left
    BY <2>1, FirstIsIn
  <2> QED
    BY <1>1, <1>2, <2>2, FilesOfSource DEF RefreshInv
<1>4. /\ UNCHANGED <<published, file, marker, raced>>
      /\ fetch' = [fetch EXCEPT ![r].phase = "receive"]
      /\ temp' = [temp EXCEPT ![r][g] = published[s]]
      /\ fetch[r].phase = "download"
  BY DEF Download
<1> HIDE DEF g
<1>5. /\ fetch'[r] = [fetch[r] EXCEPT !.phase = "receive"] /\ fetch'[r] \in Busy
  BY <1>1, <1>4 DEF TypeOK, Busy
<1>6. /\ fetch'[r].phase = "receive" /\ fetch'[r].todo = fetch[r].todo
      /\ fetch'[r].all = fetch[r].all /\ fetch'[r].since = fetch[r].since
      /\ fetch'[r].bad = fetch[r].bad /\ fetch'[r].aged = fetch[r].aged
      /\ fetch'[r].left = fetch[r].left /\ fetch'[r].remote = fetch[r].remote
  BY <1>1, <1>5 DEF Busy
<1>7. published[s] \in Serials
  BY <1>1, <1>2 DEF TypeOK
<1>8. TypeOK'
  BY <1>1, <1>3, <1>4, <1>5, <1>7 DEF TypeOK
<1>9. /\ temp'[r][g] = published[s]
      /\ \A f \in Files : f # g => temp'[r][f] = temp[r][f]
      /\ \A p \in Runs : p # r => temp'[p] = temp[p]
  BY <1>1, <1>3, <1>4 DEF TypeOK
<1>10. ASSUME NEW q \in Runs, q # r PROVE RunInv(q)'
  BY <1>1, <1>3, <1>4, <1>9, <1>10, OthersKeep DEF TypeOK
<1>11. s' = s
  BY <1>6 DEF Current
<1>12. RunInv(r)'
  <2>1. Clean(r)'
    BY <1>1, <1>3, <1>4, <1>6, <1>9, <1>11 DEF Clean, RunInv
  <2>2. SinceStart(r)'
    <3>1. \A x \in Sources : fetch[r].since[x] <= published[x]
      BY <1>1 DEF RunInv, SinceStart
    <3>2. ASSUME NEW p \in Runs, NEW f \in Files, temp'[p][f] # None
          PROVE  fetch[r].since[SourceOf[f]] <= temp'[p][f]
      <4>1. temp'[p][f] = temp[p][f] \/ (temp'[p][f] = published[SourceOf[f]] /\ SourceOf[f] \in Sources)
        BY <1>2, <1>3, <1>9
      <4> QED
        BY <1>1, <3>1, <3>2, <4>1 DEF RunInv, SinceStart
    <3> QED
      BY <1>4, <1>6, <3>1, <3>2 DEF SinceStart
  <2>3. DoneInv(r)'
    BY <1>1, <1>4, <1>6 DEF RunInv, DoneInv, Done
  <2>4. RefreshInv(r)'
    <3>1. AtLeast(published[s], fetch[r].remote)
      BY <1>1 DEF RefreshInv
    <3>2. AtLeast(published[s], marker[s])
      BY <1>2 DEF IInv, MarkersKnown, AtLeast
    <3>3. ASSUME NEW f \in FilesOf(s), temp'[r][f] # None
          PROVE  /\ AtLeast(temp'[r][f], fetch[r].remote)
                 /\ s \notin raced => AtLeast(temp'[r][f], marker[s])
      <4>1. CASE f = g
        BY <1>9, <3>1, <3>2, <4>1
      <4>2. CASE f # g
        BY <1>1, <1>2, <1>9, <3>3, <4>2 DEF RefreshInv
      <4> QED
        BY <4>1, <4>2
    <3>4. /\ fetch[r].todo # {} /\ fetch[r].left \subseteq FilesOf(s) /\ fetch[r].left # {}
      BY <1>1, <1>4 DEF RefreshInv
    <3> QED
      BY <1>4, <1>6, <1>11, <3>1, <3>3, <3>4 DEF RefreshInv, AtLeast, FilesOf
  <2> QED
    BY <2>1, <2>2, <2>3, <2>4 DEF RunInv
<1> QED
  BY <1>4, <1>8, <1>10, <1>12 DEF IInv, MarkersKnown, MarkerNotAhead

LEMMA ReceivedInv == ASSUME IInv, NEW r \in Runs, Received(r) PROVE IInv'
<1> DEFINE s == Current(r)  rest == fetch[r].left \ {First(fetch[r].left)}
<1>1. /\ TypeOK /\ fetch[r] \in Busy /\ fetch[r] # Idle /\ RunInv(r) /\ RefreshInv(r)
  BY RunShape DEF IInv, Received, RunInv
<1>2. s \in Sources /\ FilesOf(s) \subseteq Files
  BY <1>1, CurrentIsIn, FilesOfSource DEF RefreshInv
<1>3. /\ UNCHANGED <<published, file, marker, temp, raced>>
      /\ fetch' = [fetch EXCEPT ![r] =
              IF rest # {}
              THEN [fetch[r] EXCEPT !.phase = "download", !.left = rest]
              ELSE [fetch[r] EXCEPT !.phase = "promote", !.left = FilesOf(s)]]
  BY DEF Received
<1>4. rest \subseteq FilesOf(s)
  BY <1>1 DEF RefreshInv
<1> HIDE DEF rest
<1>5. /\ fetch'[r] \in Busy /\ fetch'[r].todo = fetch[r].todo
      /\ fetch'[r].all = fetch[r].all /\ fetch'[r].since = fetch[r].since
      /\ fetch'[r].bad = fetch[r].bad /\ fetch'[r].aged = fetch[r].aged
      /\ fetch'[r].remote = fetch[r].remote
      /\ \/ fetch'[r].phase = "download" /\ fetch'[r].left = rest /\ rest # {}
         \/ fetch'[r].phase = "promote" /\ fetch'[r].left = FilesOf(s)
  <2>1. CASE rest # {}
    BY <1>1, <1>2, <1>3, <1>4, <2>1 DEF TypeOK, Busy
  <2>2. CASE rest = {}
    BY <1>1, <1>2, <1>3, <2>2 DEF TypeOK, Busy
  <2> QED
    BY <2>1, <2>2
<1>6. TypeOK'
  BY <1>1, <1>3, <1>5 DEF TypeOK
<1>7. s' = s
  BY <1>5 DEF Current
<1>8. ASSUME NEW q \in Runs, q # r PROVE RunInv(q)'
  BY <1>1, <1>3, <1>8, OthersKeep DEF TypeOK
<1>9. RunInv(r)'
  <2>1. Clean(r)' /\ SinceStart(r)' /\ DoneInv(r)'
    BY <1>1, <1>3, <1>5, <1>7 DEF RunInv, Clean, SinceStart, DoneInv, Done
  <2>2. RefreshInv(r)'
    BY <1>1, <1>3, <1>4, <1>5, <1>7 DEF RefreshInv, AtLeast, FilesOf
  <2> QED
    BY <2>1, <2>2 DEF RunInv
<1> QED
  BY <1>3, <1>6, <1>8, <1>9 DEF IInv, MarkersKnown, MarkerNotAhead

\* Two runs that work on the same source are noted.
LEMMA RacesNoted ==
    ASSUME NEW r \in Runs, NEW s, raced' = Races(r, s)
    PROVE  /\ raced \subseteq raced' /\ raced' \subseteq raced \cup {s}
           /\ \A q \in Runs \ {r} : Refreshing(q, s) => s \in raced'
BY DEF Races

LEMMA PromoteInv == ASSUME IInv, NEW r \in Runs, Promote(r) PROVE IInv'
<1> DEFINE s == Current(r)  g == First(fetch[r].left)
<1>1. /\ TypeOK /\ fetch[r] \in Busy /\ fetch[r] # Idle /\ RunInv(r) /\ RefreshInv(r)
  BY RunShape DEF IInv, Promote, RunInv
<1>2. s \in Sources /\ s \in fetch[r].todo /\ FilesOf(s) \subseteq Files /\ FilesOf(s) \subseteq Nat
  BY <1>1, CurrentIsIn, FilesOfSource DEF RefreshInv
<1>3. g \in fetch[r].left /\ g \in FilesOf(s) /\ g \in Files /\ SourceOf[g] = s
  <2>1. fetch[r].left \in SUBSET Nat /\ fetch[r].left # {}
    BY <1>1, <1>2 DEF RefreshInv, Promote
  <2>2. g \in fetch[r].left
    BY <2>1, FirstIsIn
  <2> QED
    BY <1>1, <1>2, <2>2, FilesOfSource DEF RefreshInv
<1>4. fetch[r].phase = "promote" /\ UNCHANGED <<published, marker>>
  BY DEF Promote
<1>5. CASE ~Staged(r, g)
  <2>1. /\ fetch' = [fetch EXCEPT ![r] = NextSource(r, TRUE, FALSE)]
        /\ UNCHANGED <<file, temp, raced>>
    BY <1>5 DEF Promote
  <2>2. TypeOK'
    BY <1>1, <1>2, <1>4, <2>1, NextSourceType DEF TypeOK
  <2>3. RunInv(r)'
    BY <1>1, <1>2, <1>4, <2>1, NextSourceInv
  <2>4. ASSUME NEW q \in Runs, q # r PROVE RunInv(q)'
    BY <1>1, <1>4, <2>1, <2>4, OthersKeep DEF TypeOK
  <2> QED
    BY <1>4, <2>1, <2>2, <2>3, <2>4 DEF IInv, MarkersKnown, MarkerNotAhead
<1>6. CASE Staged(r, g)
  <2>1. /\ file' = [file EXCEPT ![g] = [serial |-> temp[r][g], age |-> 0]]
        /\ temp' = [temp EXCEPT ![r][g] = None]
        /\ fetch' = [fetch EXCEPT ![r].left = @ \ {g}]
        /\ raced' = Races(r, s)
    BY <1>6 DEF Promote
  <2> DEFINE n == temp[r][g]
  <2>2. n # None /\ n \in Nat
    BY <1>1, <1>3, <1>6 DEF TypeOK, Staged, Serials
  <2> HIDE DEF g
  <2>3. /\ raced \subseteq raced' /\ raced' \subseteq raced \cup {s}
        /\ \A q \in Runs \ {r} : Refreshing(q, s) => s \in raced'
    BY <2>1, RacesNoted
  <2>4. fetch'[r] = [fetch[r] EXCEPT !.left = @ \ {g}]
    BY <1>1, <2>1 DEF TypeOK
  <2>5. /\ fetch'[r] \in Busy /\ fetch'[r].left = fetch[r].left \ {g}
        /\ fetch'[r].phase = "promote" /\ fetch'[r].todo = fetch[r].todo
        /\ fetch'[r].all = fetch[r].all /\ fetch'[r].since = fetch[r].since
        /\ fetch'[r].bad = fetch[r].bad /\ fetch'[r].aged = fetch[r].aged
        /\ fetch'[r].remote = fetch[r].remote
    BY <1>1, <1>4, <2>4 DEF Busy
  <2>6. \A q \in Runs : q # r => fetch'[q] = fetch[q] /\ temp'[q] = temp[q]
    BY <1>1, <2>1 DEF TypeOK
  <2>7. /\ temp'[r][g] = None
        /\ \A f \in Files : f # g => temp'[r][f] = temp[r][f]
    BY <1>1, <1>3, <2>1 DEF TypeOK
  <2>8. /\ file'[g] = [serial |-> n, age |-> 0]
        /\ file'[g] # None /\ file'[g].serial = n
        /\ \A f \in Files : f # g => file'[f] = file[f]
    <3>1. file'[g] = [serial |-> n, age |-> 0]
      BY <1>1, <1>3, <2>1 DEF TypeOK
    <3>2. [serial |-> n, age |-> 0] # None
      BY <2>2, BulkAssumption
    <3> QED
      BY <1>1, <1>3, <2>1, <3>1, <3>2 DEF TypeOK
  <2>9. TypeOK'
    <3>1. [serial |-> n, age |-> 0] \in Dump
      BY <2>2, BulkAssumption DEF Dump, Serials
    <3>2. file' \in [Files -> Dump \cup {None}]
      BY <1>1, <2>1, <3>1 DEF TypeOK
    <3>3. temp' \in [Runs -> [Files -> Serials \cup {None}]]
      BY <1>1, <2>1 DEF TypeOK
    <3>4. fetch' \in [Runs -> Busy \cup {Idle}]
      BY <1>1, <2>1, <2>4, <2>5 DEF TypeOK
    <3> QED
      BY <1>1, <1>2, <1>4, <2>3, <3>2, <3>3, <3>4 DEF TypeOK
  <2>10. MarkersKnown'
    BY <1>4 DEF IInv, MarkersKnown
  <2>11. MarkerNotAhead'
    <3> SUFFICES ASSUME NEW f \in Files, SourceOf[f] \notin raced', marker[SourceOf[f]] # None, file'[f] # None
                 PROVE  marker[SourceOf[f]] <= file'[f].serial
      BY <1>4 DEF MarkerNotAhead
    <3>1. CASE f = g
      <4>1. AtLeast(n, marker[s])
        BY <1>1, <1>3, <2>2, <2>3, <3>1 DEF RefreshInv
      <4> QED
        BY <1>3, <2>8, <3>1, <4>1 DEF AtLeast
    <3>2. CASE f # g
      BY <2>3, <2>8, <3>2 DEF IInv, MarkerNotAhead
    <3> QED
      BY <3>1, <3>2
  <2>12. ASSUME NEW q \in Runs, fetch[q] # Idle PROVE SinceStart(q)'
    <3>1. SinceStart(q) /\ fetch'[q].since = fetch[q].since
      BY <2>5, <2>6, <2>12 DEF IInv, RunInv
    <3>2. \A p \in Runs, f \in Files : temp'[p][f] # None => temp'[p][f] = temp[p][f]
      BY <2>6, <2>7
    <3> QED
      BY <1>4, <3>1, <3>2 DEF SinceStart
  <2>13. ASSUME NEW q \in Runs, fetch[q] # Idle PROVE DoneInv(q)'
    <3>1. /\ DoneInv(q) /\ SinceStart(q) /\ fetch'[q].since = fetch[q].since
          /\ fetch'[q].all = fetch[q].all /\ fetch'[q].todo = fetch[q].todo
          /\ fetch'[q].bad = fetch[q].bad /\ fetch'[q].aged = fetch[q].aged
      BY <2>5, <2>6, <2>13 DEF IInv, RunInv
    <3>2. SUFFICES ASSUME NEW x \in Done(q), NEW f \in FilesOf(x)
                   PROVE  file'[f] # None /\ fetch[q].since[x] <= file'[f].serial
      BY <2>3, <3>1 DEF DoneInv, Done, FilesOf
    <3>3. f \in Files /\ SourceOf[f] = x
      BY DEF FilesOf
    <3>4. CASE f = g
      BY <2>2, <2>8, <3>1, <3>3, <3>4 DEF SinceStart
    <3>5. CASE f # g
      BY <2>8, <3>1, <3>3, <3>5 DEF DoneInv
    <3> QED
      BY <3>4, <3>5
  <2>14. ASSUME NEW q \in Runs, fetch[q] # Idle PROVE Clean(q)'
    <3>1. Clean(q) /\ fetch'[q].todo = fetch[q].todo /\ fetch'[q].phase = fetch[q].phase
      BY <1>4, <2>5, <2>6, <2>14 DEF IInv, RunInv
    <3>2. Current(q)' = Current(q)
      BY <3>1 DEF Current
    <3>3. \A f \in Files : temp'[q][f] \in {temp[q][f], None}
      BY <2>6, <2>7
    <3> QED
      BY <3>1, <3>2, <3>3 DEF Clean
  <2>15. RefreshInv(r)'
    <3>1. s' = s
      BY <2>5 DEF Current
    <3>2. SinceStart(r)
      BY <1>1 DEF RunInv
    <3>3. ASSUME s \notin raced', NEW f \in FilesOf(s) \ fetch'[r].left
          PROVE  /\ file'[f] # None
                 /\ AtLeast(file'[f].serial, fetch[r].remote)
                 /\ fetch[r].since[s] <= file'[f].serial
      <4>1. CASE f = g
        BY <1>1, <1>3, <2>2, <2>8, <3>2, <4>1 DEF RefreshInv, SinceStart
      <4>2. CASE f # g
        BY <1>1, <1>2, <1>4, <2>3, <2>5, <2>8, <3>3, <4>2 DEF RefreshInv
      <4> QED
        BY <4>1, <4>2
    <3>4. ASSUME NEW f \in FilesOf(s), temp'[r][f] # None
          PROVE  /\ AtLeast(temp'[r][f], fetch[r].remote)
                 /\ s \notin raced' => AtLeast(temp'[r][f], marker[s])
      BY <1>1, <1>2, <2>3, <2>7, <3>4 DEF RefreshInv
    <3>5. /\ fetch[r].todo # {} /\ fetch'[r].left \subseteq FilesOf(s)
          /\ AtLeast(published[s], fetch[r].remote)
      BY <1>1, <2>5 DEF RefreshInv
    <3> QED
      BY <1>4, <2>5, <3>1, <3>3, <3>4, <3>5 DEF RefreshInv, AtLeast, FilesOf
  <2>16. ASSUME NEW q \in Runs, q # r, fetch[q] # Idle, fetch[q].phase # "serial"
         PROVE  RefreshInv(q)'
    <3>1. /\ RefreshInv(q) /\ fetch'[q] = fetch[q] /\ temp'[q] = temp[q] /\ fetch[q] \in Busy
      BY <1>1, <2>6, <2>16, RunShape DEF IInv, RunInv
    <3>2. Current(q)' = Current(q) /\ FilesOf(Current(q)) \subseteq Files
      BY <3>1 DEF Current, FilesOf
    <3>3. Refreshing(q, Current(q))
      BY <2>16, <3>1 DEF Refreshing, Busy
    <3>4. ASSUME Current(q) \notin raced' PROVE \A f \in FilesOf(Current(q)) : f # g
      <4>1. Current(q) # s
        BY <2>3, <2>16, <3>3, <3>4
      <4> QED
        BY <1>3, <4>1 DEF FilesOf
    <3>5. ASSUME Current(q) \notin raced' PROVE \A f \in FilesOf(Current(q)) : file'[f] = file[f]
      BY <2>8, <3>2, <3>4, <3>5
    <3> QED
      BY <1>4, <2>3, <3>1, <3>2, <3>5 DEF RefreshInv, AtLeast, FilesOf
  <2>17. ASSUME NEW q \in Runs, fetch'[q] # Idle PROVE RunInv(q)'
    <3>1. fetch[q] # Idle /\ fetch'[q].phase = fetch[q].phase
      BY <1>1, <1>4, <2>5, <2>6, <2>17
    <3> QED
      BY <2>12, <2>13, <2>14, <2>15, <2>16, <3>1 DEF RunInv
  <2> QED
    BY <2>9, <2>10, <2>11, <2>17 DEF IInv, RunInv
<1> QED
  BY <1>5, <1>6

LEMMA MarkInv == ASSUME IInv, NEW r \in Runs, Mark(r) PROVE IInv'
<1> DEFINE s == Current(r)
<1>1. /\ TypeOK /\ fetch[r] \in Busy /\ fetch[r] # Idle /\ RunInv(r) /\ RefreshInv(r)
      /\ fetch[r].phase = "promote" /\ fetch[r].left = {}
  BY RunShape DEF IInv, Mark, RunInv
<1>2. s \in Sources /\ fetch[r].todo # {} /\ FilesOf(s) \subseteq Files
  BY <1>1, CurrentIsIn, FilesOfSource DEF RefreshInv
<1>3. /\ marker' = [marker EXCEPT ![s] = Marked(r)]
      /\ raced' = Races(r, s)
      /\ fetch' = [fetch EXCEPT ![r] = NextSource(r, FALSE, FALSE)]
      /\ UNCHANGED <<published, file, temp>>
  BY DEF Mark
<1>4. /\ raced \subseteq raced' /\ raced' \subseteq raced \cup {s}
      /\ \A q \in Runs \ {r} : Refreshing(q, s) => s \in raced'
  BY <1>3, RacesNoted
<1>5. Marked(r) \in Serials \cup {None} /\ (Marked(r) = marker[s] \/ Marked(r) = fetch[r].remote)
  BY <1>1, <1>2 DEF Marked, TypeOK, Busy
<1>6. marker'[s] = Marked(r) /\ \A x \in Sources : x # s => marker'[x] = marker[x]
  BY <1>1, <1>2, <1>3 DEF TypeOK
<1>7. TypeOK'
  <2>1. marker' \in [Sources -> Serials \cup {None}]
    BY <1>1, <1>3, <1>5 DEF TypeOK
  <2> QED
    BY <1>1, <1>2, <1>3, <1>4, <2>1, NextSourceType DEF TypeOK
<1>8. MarkersKnown'
  BY <1>1, <1>3, <1>5, <1>6 DEF IInv, MarkersKnown, RefreshInv, AtLeast
<1>9. MarkerNotAhead'
  <2> SUFFICES ASSUME NEW f \in Files, SourceOf[f] \notin raced', marker'[SourceOf[f]] # None, file[f] # None
               PROVE  marker'[SourceOf[f]] <= file[f].serial
    BY <1>3 DEF MarkerNotAhead
  <2>1. SourceOf[f] \in Sources /\ SourceOf[f] \notin raced
    BY <1>4, BulkAssumption
  <2>2. CASE marker'[SourceOf[f]] = marker[SourceOf[f]]
    BY <2>1, <2>2 DEF IInv, MarkerNotAhead
  <2>3. CASE SourceOf[f] = s /\ marker'[s] = fetch[r].remote
    <3>1. f \in FilesOf(s)
      BY <2>3 DEF FilesOf
    <3>2. AtLeast(file[f].serial, fetch[r].remote)
      BY <1>1, <2>1, <2>3, <3>1 DEF RefreshInv
    <3> QED
      BY <2>3, <3>2 DEF AtLeast
  <2> QED
    BY <1>5, <1>6, <2>1, <2>2, <2>3
<1>10. RunInv(r)'
  <2>1. s \in raced' \/ \A f \in FilesOf(s) : file[f] # None /\ fetch[r].since[s] <= file[f].serial
    BY <1>1, <1>4 DEF RefreshInv
  <2> QED
    BY <1>1, <1>2, <1>3, <1>4, <2>1, NextSourceInv
<1>11. ASSUME NEW q \in Runs, q # r, fetch'[q] # Idle PROVE RunInv(q)'
  <2>1. fetch'[q] = fetch[q] /\ fetch[q] # Idle /\ fetch[q] \in Busy
    BY <1>1, <1>3, <1>11, RunShape DEF TypeOK
  <2>2. Clean(q) /\ SinceStart(q) /\ DoneInv(q)
    BY <2>1, <1>11 DEF IInv, RunInv
  <2>3. Current(q)' = Current(q)
    BY <2>1 DEF Current
  <2>4. Clean(q)' /\ SinceStart(q)'
    BY <1>3, <2>1, <2>2, <2>3 DEF Clean, SinceStart
  <2>5. DoneInv(q)'
    BY <1>3, <1>4, <2>1, <2>2 DEF DoneInv, Done, FilesOf
  <2>6. ASSUME fetch[q].phase # "serial" PROVE RefreshInv(q)'
    <3>1. RefreshInv(q)
      BY <2>1, <2>6, <1>11 DEF IInv, RunInv
    <3>2. Current(q) \in Sources
      BY <1>1, <2>1, <3>1, CurrentIsIn DEF RefreshInv
    <3>3. Refreshing(q, Current(q))
      BY <2>1, <2>6 DEF Refreshing, Busy
    <3>4. ASSUME Current(q) \notin raced' PROVE marker'[Current(q)] = marker[Current(q)]
      BY <1>4, <1>6, <1>11, <3>2, <3>3, <3>4
    <3> QED
      BY <1>3, <1>4, <2>1, <2>3, <3>1, <3>4 DEF RefreshInv, AtLeast, FilesOf
  <2> QED
    BY <2>1, <2>4, <2>5, <2>6 DEF RunInv
<1> QED
  BY <1>7, <1>8, <1>9, <1>10, <1>11 DEF IInv, RunInv

\* A run that ends or is killed leaves the others what they know.
LEMMA EndsInv ==
    ASSUME IInv, NEW r \in Runs, fetch' = [fetch EXCEPT ![r] = Idle],
           UNCHANGED <<published, file, marker, temp, raced>>
    PROVE  IInv'
<1>1. TypeOK'
  BY DEF IInv, TypeOK
<1>2. fetch'[r] = Idle
  BY DEF IInv, TypeOK
<1>3. ASSUME NEW q \in Runs, q # r PROVE RunInv(q)'
  BY <1>3, OthersKeep DEF IInv, TypeOK
<1> QED
  BY <1>1, <1>2, <1>3 DEF IInv, RunInv, MarkersKnown, MarkerNotAhead

---------------------------------------------------------------------------
(* The world. *)

LEMMA PublishInv == ASSUME IInv, NEW s \in Sources, Publish(s) PROVE IInv'
<1>1. TypeOK /\ UNCHANGED <<file, marker, temp, fetch, raced>>
  BY DEF IInv, Publish
<1>2. /\ published' \in [Sources -> Serials]
      /\ \A x \in Sources : published[x] <= published'[x] /\ published[x] \in Nat /\ published'[x] \in Nat
  BY <1>1 DEF Publish, TypeOK, Serials
<1>3. TypeOK'
  BY <1>1, <1>2 DEF TypeOK
<1>4. MarkersKnown'
  <2> SUFFICES ASSUME NEW x \in Sources, marker[x] # None PROVE marker[x] <= published'[x]
    BY <1>1 DEF MarkersKnown
  <2>1. marker[x] <= published[x] /\ marker[x] \in Nat
    BY <1>1 DEF IInv, MarkersKnown, TypeOK, Serials
  <2> QED
    BY <1>2, <2>1
<1>5. ASSUME NEW q \in Runs, fetch[q] # Idle PROVE RunInv(q)'
  <2>1. fetch[q] \in Busy /\ Clean(q) /\ SinceStart(q) /\ DoneInv(q)
    BY <1>5, RunShape DEF IInv, RunInv
  <2>2. Current(q)' = Current(q)
    BY <1>1 DEF Current
  <2>3. Clean(q)' /\ DoneInv(q)'
    BY <1>1, <2>1, <2>2 DEF Clean, DoneInv, Done, FilesOf
  <2>4. SinceStart(q)'
    <3>1. ASSUME NEW x \in Sources PROVE fetch[q].since[x] <= published'[x]
      BY <1>2, <2>1 DEF SinceStart, Busy, Serials
    <3> QED
      BY <1>1, <2>1, <3>1 DEF SinceStart
  <2>5. ASSUME fetch[q].phase # "serial" PROVE RefreshInv(q)'
    <3>1. RefreshInv(q) /\ Current(q) \in Sources
      BY <1>1, <1>5, <2>1, <2>5, CurrentIsIn DEF IInv, RunInv, RefreshInv
    <3>2. AtLeast(published'[Current(q)], fetch[q].remote)
      BY <1>2, <2>1, <3>1 DEF RefreshInv, AtLeast, Busy, Serials
    <3> QED
      BY <1>1, <2>2, <3>1, <3>2 DEF RefreshInv, AtLeast, FilesOf
  <2> QED
    BY <1>1, <2>3, <2>4, <2>5 DEF RunInv
<1> QED
  BY <1>1, <1>3, <1>4, <1>5 DEF IInv, MarkerNotAhead, RunInv

LEMMA TickInv == ASSUME IInv, Tick PROVE IInv'
<1>1. TypeOK /\ UNCHANGED <<published, marker, temp, fetch, raced>>
  BY DEF IInv, Tick
<1>2. ASSUME NEW f \in Files
      PROVE  file'[f] \in Dump \cup {None} /\ (file'[f] # None => file[f] # None /\ file'[f].serial = file[f].serial)
  <2>1. file[f] \in Dump \cup {None}
    BY <1>1 DEF TypeOK
  <2>2. CASE file[f] = None \/ file[f].age > MaxAge
    BY <2>1, <2>2 DEF Tick
  <2>3. CASE file[f] # None /\ ~(file[f].age > MaxAge)
    <3>1. file'[f] = [file[f] EXCEPT !.age = @ + 1]
      BY <2>3 DEF Tick
    <3> QED
      BY <2>1, <2>3, <3>1, BulkAssumption DEF Dump
  <2> QED
    BY <2>2, <2>3
<1>3. file' \in [Files -> Dump \cup {None}]
  BY <1>2 DEF Tick
<1>4. TypeOK'
  BY <1>1, <1>3 DEF TypeOK
<1>5. MarkersKnown'
  BY <1>1 DEF IInv, MarkersKnown
<1>6. MarkerNotAhead'
  BY <1>1, <1>2 DEF IInv, MarkerNotAhead
<1>7. \A r \in Runs : fetch'[r] = Idle
  BY <1>1 DEF Tick
<1> QED
  BY <1>4, <1>5, <1>6, <1>7 DEF IInv, RunInv

---------------------------------------------------------------------------
(* Every step keeps the invariant. *)

LEMMA NextInv == IInv /\ [Next]_vars => IInv'
<1> SUFFICES ASSUME IInv, [Next]_vars PROVE IInv'
  OBVIOUS
<1>1. CASE UNCHANGED vars
  BY <1>1 DEF vars, IInv, TypeOK, MarkersKnown, MarkerNotAhead, RunInv, Clean, SinceStart,
              RefreshInv, AtLeast, DoneInv, Done, Current, FilesOf
<1>2. ASSUME NEW r \in Runs, Start(r) PROVE IInv'
  BY <1>2, StartInv
<1>3. ASSUME NEW r \in Runs, Step(r) PROVE IInv'
  <2>1. CASE ReadSerial(r)     BY <2>1, ReadSerialInv
  <2>2. CASE Download(r)       BY <2>2, DownloadInv
  <2>3. CASE Received(r)       BY <2>3, ReceivedInv
  <2>4. CASE DownloadFails(r)  BY <2>4, DownloadFailsInv
  <2>5. CASE Promote(r)        BY <2>5, PromoteInv
  <2>6. CASE Mark(r)           BY <2>6, MarkInv
  <2>7. CASE Exit(r)           BY <2>7, EndsInv DEF Exit
  <2> QED
    BY <1>3, <2>1, <2>2, <2>3, <2>4, <2>5, <2>6, <2>7 DEF Step
<1>4. ASSUME NEW r \in Runs, Kill(r) PROVE IInv'
  BY <1>4, EndsInv DEF Kill
<1>5. ASSUME NEW s \in Sources, Publish(s) PROVE IInv'
  BY <1>5, PublishInv
<1>6. CASE Tick
  BY <1>6, TickInv
<1> QED
  BY <1>1, <1>2, <1>3, <1>4, <1>5, <1>6 DEF Next

LEMMA Invariant == Spec => []IInv
BY InitInv, NextInv, PTL DEF Spec

\* The state keeps its shape: what a run has staged and left to do, the
\* dumps and their ages, whatever runs overlap or are killed.
THEOREM TypeCorrect == Spec => []TypeOK
<1>1. IInv => TypeOK
  BY DEF IInv
<1> QED
  BY <1>1, Invariant, PTL

\* For any number of sources, files and overlapping runs, killed at any
\* point: a marker never runs ahead of a file it stands for, except where
\* two runs refreshed one source at once.
THEOREM MarkerNotAheadHolds == Spec => []MarkerNotAhead
<1>1. IInv => MarkerNotAhead
  BY DEF IInv
<1> QED
  BY <1>1, Invariant, PTL

\* A run that reports success for a source leaves every dump of it usable
\* and no older than what was published when the run began, overlapping
\* runs included, or it reports the source as aged.
THEOREM SuccessIsCurrentHolds == Spec => []SuccessIsCurrent
<1>1. IInv => SuccessIsCurrent
  <2> SUFFICES ASSUME IInv, NEW r \in Runs, fetch[r] # Idle, fetch[r].todo = {}, fetch[r].bad = {},
                      NEW s \in fetch[r].all \ (raced \cup fetch[r].aged), NEW f \in FilesOf(s)
               PROVE  file[f] # None /\ file[f].serial >= fetch[r].since[s]
    BY DEF SuccessIsCurrent
  <2>1. DoneInv(r) /\ fetch[r] \in Busy /\ TypeOK
    BY RunShape DEF IInv, RunInv
  <2>2. file[f] # None /\ fetch[r].since[s] <= file[f].serial
    BY <2>1 DEF DoneInv, Done
  <2>3. f \in Files /\ s \in Sources
    BY <2>1 DEF FilesOf, Busy
  <2>4. fetch[r].since[s] \in Nat /\ file[f].serial \in Nat
    BY <2>1, <2>2, <2>3 DEF TypeOK, Busy, Dump, Serials
  <2> QED
    BY <2>2, <2>4
<1> QED
  BY <1>1, Invariant, PTL

==============================================================================
