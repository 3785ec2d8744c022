----------------------- MODULE IrrAsSetStatus_proofs -----------------------
(***************************************************************************)
(* Proofs about IrrAsSetStatus: type correctness; the columns of a verdict *)
(* agree; a network is only flagged for a token a registry lacks, and only *)
(* mailed once in a reminder period.                                       *)
(***************************************************************************)
EXTENDS IrrAsSetStatus, FiniteSetTheorems, SequenceTheorems, TLAPS

---------------------------------------------------------------------------
(* Outcomes. *)

Verdicts == {"ok", "skipped", "deferred", "unknown", "moved", "gone"}

LEMMA WorstIsOne ==
    ASSUME NEW outcomes \in SUBSET Verdicts, outcomes # {}
    PROVE  Worst(outcomes) \in outcomes
<1>1. \A o \in Verdicts : _RANK(o) \in 0..5
  BY DEF Verdicts, _RANK
<1>2. \E o \in outcomes : \A p \in outcomes : _RANK(p) <= _RANK(o)
  <2>1. \A r \in 0..5 : \A o \in outcomes : _RANK(o) = r /\ (\A p \in outcomes : _RANK(p) <= r)
           => \E q \in outcomes : \A p \in outcomes : _RANK(p) <= _RANK(q)
    BY <1>1
  <2>2. CASE "gone" \in outcomes
    BY <2>2 DEF Verdicts, _RANK
  <2>3. CASE "gone" \notin outcomes /\ "moved" \in outcomes
    BY <2>3 DEF Verdicts, _RANK
  <2>4. CASE outcomes \subseteq {"ok", "skipped", "deferred", "unknown"} /\ "unknown" \in outcomes
    BY <2>4 DEF Verdicts, _RANK
  <2>5. CASE outcomes \subseteq {"ok", "skipped", "deferred"} /\ "deferred" \in outcomes
    BY <2>5 DEF Verdicts, _RANK
  <2>6. CASE outcomes \subseteq {"ok", "skipped"} /\ "skipped" \in outcomes
    BY <2>6 DEF Verdicts, _RANK
  <2>7. CASE outcomes \subseteq {"ok"}
    BY <2>7 DEF Verdicts, _RANK
  <2> QED
    BY <2>2, <2>3, <2>4, <2>5, <2>6, <2>7 DEF Verdicts
<1> QED
  BY <1>2 DEF Worst

LEMMA TokenOutcome ==
    ASSUME NEW token, NEW i, NEW results
    PROVE  _verify_token(token, i, results) \in Verdicts
BY DEF _verify_token, LookupOutcome, Verdicts

LEMMA ValueTokens ==
    ASSUME NEW value \in Values
    PROVE  /\ DOMAIN Pins[value] \in SUBSET Nat /\ IsFiniteSet(DOMAIN Pins[value])
           /\ \A i \in DOMAIN Pins[value] : Pins[value][i] \in Tokens
           /\ Pins[value] # <<>> => DOMAIN Pins[value] # {}
<1>1. Pins[value] \in Seq(Tokens)
  BY StatusAssumption
<1>2. DOMAIN Pins[value] = 1..Len(Pins[value]) /\ Len(Pins[value]) \in Nat
  BY <1>1
<1>3. IsFiniteSet(1..Len(Pins[value]))
  BY <1>2, FS_Interval
<1>4. Pins[value] # <<>> => Len(Pins[value]) # 0
  BY <1>1, EmptySeq
<1>5. Pins[value] # <<>> => 1 \in DOMAIN Pins[value]
  BY <1>2, <1>4
<1>6. \A i \in DOMAIN Pins[value] : Pins[value][i] \in Tokens
  BY <1>1
<1>7. IsFiniteSet(DOMAIN Pins[value]) /\ DOMAIN Pins[value] \in SUBSET Nat
  BY <1>2, <1>3
<1> QED
  BY <1>5, <1>6, <1>7

\* A value is as bad as one of its tokens.
LEMMA ValueOutcome ==
    ASSUME NEW value \in Values, NEW results, Pins[value] # <<>>
    PROVE  \E i \in DOMAIN Pins[value] :
              /\ verify_network(value, results) = _verify_token(Pins[value][i], i, results)
              /\ verify_network(value, results) \in Verdicts
<1> DEFINE outcomes == {_verify_token(Pins[value][i], i, results) : i \in DOMAIN Pins[value]}
<1>1. outcomes \in SUBSET Verdicts /\ outcomes # {}
  BY TokenOutcome, ValueTokens
<1>2. verify_network(value, results) = Worst(outcomes)
  BY DEF verify_network
<1>3. verify_network(value, results) \in outcomes
  BY <1>1, <1>2, WorstIsOne
<1> QED
  BY <1>1, <1>3

---------------------------------------------------------------------------
(* Type correctness. *)

LEMMA ResultsCount ==
    ASSUME NEW value \in Values, NEW budget, NEW results \in Answers(value, budget)
    PROVE  Cardinality(DOMAIN results) \in Nat
<1>1. DOMAIN results = Asked(value, budget) /\ Asked(value, budget) \subseteq DOMAIN Pins[value]
  BY DEF Answers, Asked, Live
<1>2. IsFiniteSet(DOMAIN results)
  BY <1>1, ValueTokens, FS_Subset
<1> QED
  BY <1>2, FS_CardinalityType

LEMMA ApplyType ==
    ASSUME NEW r \in Row, NEW outcome
    PROVE  /\ Retracted(r) \in Row /\ Recorded(r, outcome) \in Row
           /\ \A s \in Row : [s EXCEPT !.told = 0] \in Row
<1>1. 0 \in Days
  BY StatusAssumption DEF Days
<1>2. Retracted(r) \in Row
  BY DEF Row, Retracted
<1>3. Recorded(r, outcome) \in Row
  <2>1. CASE outcome = "ok"
    BY <2>1 DEF Row, Recorded
  <2>2. CASE outcome \in {"moved", "gone"}
    BY <2>2 DEF Row, Recorded, NOTIFY_STATUSES
  <2>3. CASE outcome \notin {"ok", "moved", "gone"}
    BY <1>2, <2>3 DEF Row, Recorded, NOTIFY_STATUSES
  <2> QED
    BY <2>1, <2>2, <2>3
<1>4. \A s \in Row : [s EXCEPT !.told = 0] \in Row
  BY <1>1 DEF Row
<1> QED
  BY <1>2, <1>3, <1>4

LEMMA InitType == Init => TypeOK
BY StatusAssumption DEF Init, TypeOK, Row, Idle, Days

LEMMA SweepResult ==
    ASSUME TypeOK, NEW n \in Networks, Sweep(n)
    PROVE  /\ run' \in Sweeping
           /\ run'.rows = run.rows
           /\ \A m \in Networks : m # n => run'.results[m] = run.results[m]
           /\ run'.results[n] \in NOTIFY_STATUSES => Pins[run.rows[n].value] # <<>>
                /\ \E results \in Answers(run.rows[n].value, MaxLookups - run.lookups) :
                      run'.results[n] = verify_network(run.rows[n].value, results)
<1>1. run \in Sweeping /\ run.rows[n] \in Row /\ run.rows[n].value \in Values
  <2>1. run \in Sweeping
    BY DEF Sweep, TypeOK
  <2>2. run.rows[n] \in Row
    BY <2>1 DEF Sweeping
  <2> QED
    BY <2>1, <2>2 DEF Row
<1>2. PICK results \in Answers(run.rows[n].value, MaxLookups - run.lookups) :
        run' = [run EXCEPT
             !.todo = @ \ {n},
             !.lookups = @ + Cardinality(DOMAIN results),
             !.results[n] = IF Pins[run.rows[n].value] = <<>> THEN "blank"
                            ELSE verify_network(run.rows[n].value, results)]
  BY DEF Sweep
<1> DEFINE outcome == IF Pins[run.rows[n].value] = <<>> THEN "blank"
                      ELSE verify_network(run.rows[n].value, results)
<1>3. outcome \in Outcomes
  BY <1>1, ValueOutcome DEF Outcomes, Verdicts
<1>4. Cardinality(DOMAIN results) \in Nat
  BY <1>1, ResultsCount
<1>5. run' = [run EXCEPT !.todo = @ \ {n}, !.lookups = @ + Cardinality(DOMAIN results),
                         !.results[n] = outcome]
  BY <1>2
<1>6. outcome \in NOTIFY_STATUSES
        => Pins[run.rows[n].value] # <<>> /\ outcome = verify_network(run.rows[n].value, results)
  BY DEF NOTIFY_STATUSES
<1> DEFINE spent == Cardinality(DOMAIN results)
<1> HIDE DEF outcome, spent
<1>7. /\ run.todo \in SUBSET Networks /\ run.lookups \in Nat
      /\ run.results \in [Networks -> Outcomes \cup {None}]
  BY <1>1 DEF Sweeping
<1>8. /\ run.todo \ {n} \in SUBSET Networks /\ run.lookups + spent \in Nat
      /\ [run.results EXCEPT ![n] = outcome] \in [Networks -> Outcomes \cup {None}]
  BY <1>3, <1>4, <1>7 DEF spent
<1>9. run' = [phase |-> "sweep", rows |-> run.rows, todo |-> run.todo \ {n},
              lookups |-> run.lookups + spent, results |-> [run.results EXCEPT ![n] = outcome]]
  BY <1>1, <1>5 DEF Sweeping, spent
<1>10. run' \in Sweeping
  BY <1>1, <1>8, <1>9 DEF Sweeping
<1>11. run'.rows = run.rows /\ run'.results = [run.results EXCEPT ![n] = outcome]
  BY <1>9
<1>12. run'.results[n] = outcome /\ \A m \in Networks : m # n => run'.results[m] = run.results[m]
  BY <1>7, <1>11
<1> QED
  BY <1>6, <1>10, <1>11, <1>12

LEMMA OlderType ==
    ASSUME NEW age \in Days \cup {None}
    PROVE  Older(age) \in Days \cup {None} /\ (Older(age) = None <=> age = None)
BY StatusAssumption DEF Older, Days

LEMMA SaveType ==
    ASSUME TypeOK, NEW n \in Networks, NEW copy \in Row, Save(n, copy)
    PROVE  TypeOK'
<1>1. PICK status \in {"ok", "deleted"}, value \in ValuesOf[n] :
        row' = [row EXCEPT ![n] = [copy EXCEPT !.status = status, !.value = value]]
  BY DEF Save
<1>2. value \in Values
  BY StatusAssumption
<1>3. [copy EXCEPT !.status = status, !.value = value] \in Row
  BY <1>2 DEF Row
<1>4. row' \in [Networks -> Row]
  BY <1>1, <1>3 DEF TypeOK
<1>5. held' \in [Networks -> Row \cup {None}]
  BY DEF Save, TypeOK
<1> QED
  BY <1>4, <1>5 DEF Save, TypeOK

LEMMA CommitType == TypeOK /\ CommitRun => TypeOK'
<1> SUFFICES ASSUME TypeOK, CommitRun
             PROVE  TypeOK'
  OBVIOUS
<1>1. outbox' \in SUBSET Networks
  BY DEF CommitRun, Pending, Eligible
<1>2. \A n \in Networks : row[n] \in Row /\ _apply_state(n) \in Row
  <2>1. \A n \in Networks : row[n] \in Row
    BY DEF TypeOK
  <2> QED
    BY <2>1, ApplyType DEF _apply_state
<1>3. \A n \in Networks : [_apply_state(n) EXCEPT !.told = 0] \in Row
  BY <1>2, ApplyType
<1>4. row' \in [Networks -> Row]
  BY <1>2, <1>3 DEF CommitRun
<1>5. mailed' \in [Networks -> Days \cup {None}]
  BY DEF CommitRun, TypeOK
<1> QED
  BY <1>1, <1>4, <1>5 DEF CommitRun, TypeOK

LEMMA NextType == TypeOK /\ [Next]_vars => TypeOK'
<1> SUFFICES ASSUME TypeOK, [Next]_vars
             PROVE  TypeOK'
  OBVIOUS
<1>1. CASE StartRun
  <2>1. run' \in Sweeping
    BY <1>1 DEF StartRun, Sweeping, TypeOK
  <2> QED
    BY <1>1, <2>1 DEF StartRun, TypeOK
<1>2. CASE CommitRun
  BY <1>2, CommitType
<1>3. ASSUME NEW n \in Networks, Sweep(n)
      PROVE  TypeOK'
  <2>1. run' \in Sweeping
    BY <1>3, SweepResult
  <2> QED
    BY <1>3, <2>1 DEF Sweep, TypeOK
<1>4. ASSUME NEW n \in Networks, SendMail(n)
      PROVE  TypeOK'
  <2>1. 0 \in Days
    BY StatusAssumption DEF Days
  <2> QED
    BY <1>4, <2>1 DEF SendMail, TypeOK
<1>5. CASE Kill
  BY <1>5 DEF Kill, TypeOK
<1>6. ASSUME NEW n \in Networks, SaveAtOnce(n)
      PROVE  TypeOK'
  <2>1. row[n] \in Row
    BY DEF TypeOK
  <2> QED
    BY <1>6, <2>1, SaveType DEF SaveAtOnce
<1>7. ASSUME NEW n \in Networks, Load(n)
      PROVE  TypeOK'
  <2>1. row[n] \in Row
    BY DEF TypeOK
  <2> QED
    BY <1>7, <2>1 DEF Load, TypeOK
<1>8. ASSUME NEW n \in Networks, SaveLoaded(n)
      PROVE  TypeOK'
  <2>1. held[n] \in Row
    BY <1>8 DEF SaveLoaded, TypeOK
  <2> QED
    BY <1>8, <2>1, SaveType DEF SaveLoaded
<1>9. ASSUME NEW s \in Changing, NEW name \in Names, Change(name, s)
      PROVE  TypeOK'
  <2>1. s \in Sources
    BY StatusAssumption
  <2>2. holders' \in [Names -> SUBSET Sources]
    BY <1>9, <2>1 DEF Change, TypeOK
  <2> QED
    BY <1>9, <2>2 DEF Change, TypeOK
<1>10. ASSUME NEW s \in Changing, Refresh(s)
       PROVE  TypeOK'
  <2>1. s \in Sources
    BY StatusAssumption
  <2>2. index' \in [Names -> SUBSET Sources]
    BY <1>10, <2>1 DEF Refresh, TypeOK
  <2> QED
    BY <1>10, <2>2 DEF Refresh, TypeOK
<1>11. CASE Tick
  <2>1. \A n \in Networks : [row[n] EXCEPT !.told = Older(@)] \in Row
    <3> SUFFICES ASSUME NEW n \in Networks
                 PROVE  [row[n] EXCEPT !.told = Older(@)] \in Row
      OBVIOUS
    <3>1. row[n] \in Row
      BY DEF TypeOK
    <3>2. Older(row[n].told) \in Days \cup {None}
      BY <3>1, OlderType DEF Row
    <3> QED
      BY <3>1, <3>2 DEF Row
  <2>2. row' \in [Networks -> Row]
    BY <1>11, <2>1 DEF Tick
  <2>3. mailed' \in [Networks -> Days \cup {None}]
    BY <1>11, OlderType DEF Tick, TypeOK
  <2> QED
    BY <1>11, <2>2, <2>3 DEF Tick, TypeOK
<1>12. CASE UNCHANGED vars
  BY <1>12 DEF vars, TypeOK
<1> QED
  BY <1>1, <1>2, <1>3, <1>4, <1>5, <1>6, <1>7, <1>8, <1>9, <1>10, <1>11, <1>12
     DEF Next, Command, Users, Registries

\* The variables keep their types, for any registries, networks and values.
THEOREM TypeCorrect == Spec => []TypeOK
<1>1. Init => TypeOK
  BY InitType
<1>2. TypeOK /\ [Next]_vars => TypeOK'
  BY NextType
<1> QED
  BY <1>1, <1>2, PTL DEF Spec

---------------------------------------------------------------------------
(* The columns of a verdict agree. *)

\* A run does not conclude anything bad about a network without a value.
Grounded ==
    run # Idle => \A n \in Networks :
        run.results[n] \in NOTIFY_STATUSES => run.rows[n].value # Empty

IInv == TypeOK /\ FlagInv /\ Grounded

LEMMA GroundedHolds == TypeOK /\ Grounded /\ [Next]_vars => Grounded'
<1> SUFFICES ASSUME TypeOK, Grounded, [Next]_vars
             PROVE  Grounded'
  OBVIOUS
<1>1. ASSUME NEW n \in Networks, Sweep(n)
      PROVE  Grounded'
  <2>1. run # Idle
    BY <1>1 DEF Sweep
  <2>2. /\ run'.rows = run.rows
        /\ \A m \in Networks : m # n => run'.results[m] = run.results[m]
        /\ run'.results[n] \in NOTIFY_STATUSES => Pins[run.rows[n].value] # <<>>
    BY <1>1, SweepResult
  <2>3. Pins[Empty] = <<>>
    BY StatusAssumption
  <2> QED
    BY <2>1, <2>2, <2>3 DEF Grounded
<1>2. CASE StartRun
  <2>1. \A n \in Networks : run'.results[n] = None
    BY <1>2 DEF StartRun
  <2> QED
    BY <2>1, NoneAssumption DEF Grounded, NOTIFY_STATUSES, Outcomes
<1>3. CASE run' = Idle
  BY <1>3 DEF Grounded
<1>4. CASE run' = run
  BY <1>4 DEF Grounded
<1>5. \/ \E n \in Networks : Sweep(n)
      \/ StartRun \/ run' = Idle \/ run' = run
  BY DEF Next, Command, Users, Registries, CommitRun, SendMail, Kill, SaveAtOnce, SaveLoaded,
         Save, Load, Change, Refresh, Tick, vars
<1> QED
  BY <1>1, <1>2, <1>3, <1>4, <1>5

LEMMA RecordedConsistent ==
    ASSUME NEW r \in Row, Consistent(r), NEW outcome
    PROVE  /\ Consistent(Retracted(r)) /\ Consistent(Recorded(r, outcome))
           /\ outcome \in NOTIFY_STATUSES
                => /\ Consistent([Recorded(r, outcome) EXCEPT !.told = 0])
                   /\ Recorded(r, outcome).verdict = outcome
           /\ outcome \notin NOTIFY_STATUSES /\ Flagged(Recorded(r, outcome))
                => Recorded(r, outcome).verdict = r.verdict
           /\ ~Flagged(Retracted(r))
<1>1. Consistent(Retracted(r)) /\ ~Flagged(Retracted(r))
  BY DEF Row, Retracted, Consistent, Flagged, NOTIFY_STATUSES
<1>2. CASE outcome = "ok"
  BY <1>1, <1>2 DEF Row, Recorded, Consistent, Flagged, NOTIFY_STATUSES
<1>3. CASE outcome \in NOTIFY_STATUSES
  <2>1. Recorded(r, outcome) = [r EXCEPT !.verdict = outcome, !.missing = TRUE]
    BY <1>3 DEF Recorded, NOTIFY_STATUSES
  <2> QED
    BY <1>1, <1>3, <2>1 DEF Row, Consistent, Flagged, NOTIFY_STATUSES
<1>4. CASE outcome \in {"skipped", "blank"}
  <2>1. Recorded(r, outcome) = Retracted(r)
    BY <1>4 DEF Recorded, NOTIFY_STATUSES
  <2> QED
    BY <1>1, <1>4, <2>1 DEF NOTIFY_STATUSES
<1>5. CASE outcome = "unknown"
  BY <1>1, <1>5 DEF Row, Recorded, Consistent, Flagged, NOTIFY_STATUSES
<1>6. CASE outcome \notin {"ok", "unknown", "skipped", "blank"} \cup NOTIFY_STATUSES
  <2>1. Recorded(r, outcome) = r
    BY <1>6 DEF Recorded
  <2> QED
    BY <1>1, <1>6, <2>1
<1> QED
  BY <1>2, <1>3, <1>4, <1>5, <1>6

LEMMA CommitConsistent == IInv /\ CommitRun => FlagInv'
<1> SUFFICES ASSUME IInv, CommitRun
             PROVE  FlagInv'
  OBVIOUS
<1>1. ASSUME NEW n \in Networks
      PROVE  Consistent(row'[n])
  <2>1. row[n] \in Row /\ Consistent(row[n])
    BY DEF IInv, TypeOK, FlagInv
  <2>2. Consistent(_apply_state(n))
    BY <2>1, RecordedConsistent DEF _apply_state
  <2>3. CASE n \in outbox'
    <3>1. n \in Eligible
      BY <2>3 DEF CommitRun, Pending
    <3>2. run.results[n] \in NOTIFY_STATUSES /\ run.rows[n].value # Empty
      BY <3>1 DEF Eligible, CommitRun, IInv, Grounded
    <3>3. _apply_state(n) = Recorded(row[n], run.results[n])
      BY <3>1, <3>2 DEF Eligible, _still_current, _apply_state
    <3>4. Consistent([Recorded(row[n], run.results[n]) EXCEPT !.told = 0])
      BY <2>1, <3>2, RecordedConsistent
    <3> QED
      BY <2>3, <3>3, <3>4 DEF CommitRun
  <2>4. CASE n \notin outbox'
    BY <2>2, <2>4 DEF CommitRun
  <2> QED
    BY <2>3, <2>4
<1>2. \A n \in Networks : held'[n] # None => Consistent(held'[n])
  BY DEF CommitRun, IInv, FlagInv
<1> QED
  BY <1>1, <1>2 DEF FlagInv

LEMMA SaveConsistent ==
    ASSUME IInv, NEW n \in Networks, NEW copy \in Row, Consistent(copy), Save(n, copy)
    PROVE  FlagInv'
<1>1. PICK status \in {"ok", "deleted"}, value \in ValuesOf[n] :
        row' = [row EXCEPT ![n] = [copy EXCEPT !.status = status, !.value = value]]
  BY DEF Save
<1>2. Consistent([copy EXCEPT !.status = status, !.value = value])
  BY DEF Row, Consistent, Flagged
<1>3. \A m \in Networks : Consistent(row'[m])
  <2>1. row'[n] = [copy EXCEPT !.status = status, !.value = value]
    BY <1>1 DEF IInv, TypeOK
  <2>2. \A m \in Networks \ {n} : row'[m] = row[m]
    BY <1>1 DEF IInv, TypeOK
  <2> QED
    BY <1>2, <2>1, <2>2 DEF IInv, FlagInv
<1>4. \A m \in Networks : held'[m] # None => Consistent(held'[m])
  BY DEF Save, IInv, TypeOK, FlagInv
<1> QED
  BY <1>3, <1>4 DEF FlagInv

LEMMA FlagStep == IInv /\ [Next]_vars => FlagInv'
<1> SUFFICES ASSUME IInv, [Next]_vars
             PROVE  FlagInv'
  OBVIOUS
<1>1. CASE CommitRun
  BY <1>1, CommitConsistent
<1>2. ASSUME NEW n \in Networks, SaveAtOnce(n)
      PROVE  FlagInv'
  <2>1. row[n] \in Row /\ Consistent(row[n])
    BY DEF IInv, TypeOK, FlagInv
  <2> QED
    BY <1>2, <2>1, SaveConsistent DEF SaveAtOnce
<1>3. ASSUME NEW n \in Networks, SaveLoaded(n)
      PROVE  FlagInv'
  <2>1. held[n] \in Row /\ Consistent(held[n])
    BY <1>3 DEF SaveLoaded, IInv, TypeOK, FlagInv
  <2> QED
    BY <1>3, <2>1, SaveConsistent DEF SaveLoaded
<1>4. ASSUME NEW n \in Networks, Load(n)
      PROVE  FlagInv'
  BY <1>4 DEF Load, IInv, TypeOK, FlagInv
<1>5. CASE Tick
  <2>1. ASSUME NEW n \in Networks
        PROVE  Consistent(row'[n])
    <3>1. row[n] \in Row /\ Consistent(row[n])
      BY DEF IInv, TypeOK, FlagInv
    <3>2. row'[n] = [row[n] EXCEPT !.told = Older(row[n].told)]
      BY <1>5 DEF Tick
    <3>3. Older(row[n].told) = None <=> row[n].told = None
      BY <3>1, OlderType DEF Row
    <3> QED
      BY <3>1, <3>2, <3>3 DEF Consistent, Flagged, Row
  <2>2. \A n \in Networks : held'[n] = None
    BY <1>5 DEF Tick
  <2> QED
    BY <2>1, <2>2 DEF FlagInv
<1>6. CASE row' = row /\ held' = held
  BY <1>6 DEF IInv, FlagInv
<1>7. \/ CommitRun \/ Tick \/ (row' = row /\ held' = held)
      \/ \E n \in Networks : SaveAtOnce(n) \/ SaveLoaded(n) \/ Load(n)
  BY DEF Next, Command, Users, Registries, StartRun, Sweep, SendMail, Kill, Change, Refresh, vars
<1> QED
  BY <1>1, <1>2, <1>3, <1>4, <1>5, <1>6, <1>7

LEMMA InitConsistent == Init => FlagInv /\ Grounded
<1> SUFFICES ASSUME Init
             PROVE  FlagInv /\ Grounded
  OBVIOUS
<1>1. \A n \in Networks : row[n].verdict = "unknown" /\ row[n].missing = FALSE /\ row[n].told = None
  BY DEF Init
<1>2. \A n \in Networks : Consistent(row[n])
  BY <1>1 DEF Consistent, Flagged, NOTIFY_STATUSES
<1> QED
  BY <1>2 DEF Init, FlagInv, Grounded

LEMMA InductiveHolds == Spec => []IInv
<1>1. Init => IInv
  BY InitType, InitConsistent DEF IInv
<1>2. IInv /\ [Next]_vars => IInv'
  BY NextType, GroundedHolds, FlagStep DEF IInv
<1> QED
  BY <1>1, <1>2, PTL DEF Spec

\* The clock of a disappearance runs exactly while the network is flagged and
\* the mark of a mail goes with a flag, whatever is saved, killed or answered
\* in between.
THEOREM FlagInvHolds == Spec => []FlagInv
<1>1. IInv => FlagInv
  BY DEF IInv
<1> QED
  BY <1>1, InductiveHolds, PTL

---------------------------------------------------------------------------
(* Flags are earned. *)

\* A bad outcome comes from a token its registry lacks, or from a lookup that
\* could not reach that registry.
LEMMA BadOutcome ==
    ASSUME NEW value \in Values, Pins[value] # <<>>, NEW budget,
           NEW results \in Answers(value, budget),
           verify_network(value, results) \in NOTIFY_STATUSES
    PROVE  \E token \in Pinned(value) :
              /\ token.source \in Sources
              /\ token.source \notin holders[token.name] \/ token.source \in UNION Missed
<1>1. PICK i \in DOMAIN Pins[value] :
        _verify_token(Pins[value][i], i, results) \in NOTIFY_STATUSES
  BY ValueOutcome
<1> DEFINE token == Pins[value][i]
<1>2. token \in Tokens /\ token \in Pinned(value)
  BY ValueTokens DEF Pinned
<1> HIDE DEF token
<1>3. /\ token.source # None /\ i \in DOMAIN results
      /\ LookupOutcome(token, results[i]) \in NOTIFY_STATUSES
  BY <1>1 DEF token, _verify_token, NOTIFY_STATUSES
<1>4. results[i].ok /\ token.source \notin results[i].sources
  BY <1>3 DEF LookupOutcome, NOTIFY_STATUSES
<1>5. results[i] \in LookupResults(token.name)
  BY <1>3 DEF Answers, token
<1>6. \E missed \in Missed \cup {{}} : results[i].sources = holders[token.name] \ missed
  BY <1>4, <1>5 DEF LookupResults
<1>7. token.source \notin holders[token.name] \/ token.source \in UNION Missed
  BY <1>4, <1>6
<1>8. token.source \in Sources
  BY <1>2, <1>3 DEF Tokens
<1> QED
  BY <1>2, <1>7, <1>8

Earned ==
    \A n \in Networks :
         IF run # Idle /\ run' # Idle
         THEN run'.results[n] \in NOTIFY_STATUSES /\ run.results[n] = None =>
                 \E token \in Pinned(run.rows[n].value) :
                    /\ token.source \in Sources
                    /\ \/ token.source \notin holders[token.name]
                       \/ token.source \in UNION Missed
         ELSE row'[n].verdict # row[n].verdict /\ Flagged(row'[n]) /\ run # Idle =>
                 row'[n].verdict = run.results[n]

LEMMA EarnedStep == IInv /\ [Next]_vars => Earned
<1> SUFFICES ASSUME IInv, [Next]_vars
             PROVE  Earned
  OBVIOUS
<1>1. ASSUME NEW n \in Networks, Sweep(n)
      PROVE  Earned
  <2>1. run # Idle /\ run' # Idle /\ run.rows[n].value \in Values
    <3>1. run \in Sweeping
      BY <1>1 DEF Sweep, IInv, TypeOK
    <3>2. run.rows[n] \in Row
      BY <3>1 DEF Sweeping
    <3>3. run' \in Sweeping
      BY <1>1, SweepResult DEF IInv
    <3>4. Idle \notin Sweeping
      BY DEF Idle, Sweeping
    <3> QED
      BY <3>1, <3>2, <3>3, <3>4 DEF Row
  <2>2. \A m \in Networks : m # n => run'.results[m] = run.results[m]
    BY <1>1, SweepResult DEF IInv
  <2>3. None \notin NOTIFY_STATUSES
    BY NoneAssumption DEF Outcomes, NOTIFY_STATUSES
  <2>4. ASSUME run'.results[n] \in NOTIFY_STATUSES
        PROVE  \E token \in Pinned(run.rows[n].value) :
                  /\ token.source \in Sources
                  /\ token.source \notin holders[token.name] \/ token.source \in UNION Missed
    <3>1. PICK results \in Answers(run.rows[n].value, MaxLookups - run.lookups) :
            run'.results[n] = verify_network(run.rows[n].value, results)
      BY <1>1, <2>4, SweepResult DEF IInv
    <3>2. Pins[run.rows[n].value] # <<>>
      BY <1>1, <2>4, SweepResult DEF IInv
    <3> QED
      BY <2>1, <2>4, <3>1, <3>2, BadOutcome
  <2> QED
    BY <2>1, <2>2, <2>3, <2>4 DEF Earned
<1>2. CASE CommitRun
  <2>1. run' = Idle
    BY <1>2 DEF CommitRun
  <2>2. ASSUME NEW n \in Networks, row'[n].verdict # row[n].verdict, Flagged(row'[n])
        PROVE  row'[n].verdict = run.results[n]
    <3>1. row[n] \in Row /\ Consistent(row[n])
      BY DEF IInv, TypeOK, FlagInv
    <3>2. row'[n].verdict = _apply_state(n).verdict
      <4>1. _apply_state(n) \in Row
        BY <3>1, ApplyType DEF _apply_state
      <4>2. [_apply_state(n) EXCEPT !.told = 0].verdict = _apply_state(n).verdict
        BY <4>1 DEF Row
      <4> QED
        BY <1>2, <4>2 DEF CommitRun
    <3>3. Flagged(_apply_state(n)) /\ _apply_state(n).verdict # row[n].verdict
      BY <2>2, <3>2 DEF Flagged
    <3>4. _apply_state(n) = Recorded(row[n], run.results[n])
      BY <3>1, <3>3, RecordedConsistent DEF _apply_state
    <3> DEFINE recorded == Recorded(row[n], run.results[n])
    <3>5. run.results[n] \in NOTIFY_STATUSES
      <4>1. Flagged(recorded) /\ recorded.verdict # row[n].verdict
        BY <3>3, <3>4
      <4>2. run.results[n] \notin NOTIFY_STATUSES /\ Flagged(recorded) => recorded.verdict = row[n].verdict
        BY <3>1, RecordedConsistent
      <4> QED
        BY <4>1, <4>2
    <3>6. recorded.verdict = run.results[n]
      BY <3>1, <3>5, RecordedConsistent
    <3> QED
      BY <3>2, <3>4, <3>6
  <2> QED
    BY <2>1, <2>2 DEF Earned
<1>3. CASE run = Idle
  BY <1>3 DEF Earned
<1>4. CASE run' = run
  <2>1. None \notin NOTIFY_STATUSES
    BY NoneAssumption DEF Outcomes, NOTIFY_STATUSES
  <2> QED
    BY <1>3, <1>4, <2>1 DEF Earned
<1>5. CASE Kill
  BY <1>5 DEF Kill, Earned
<1>6. \/ CommitRun \/ run = Idle \/ run' = run \/ Kill
      \/ \E n \in Networks : Sweep(n)
  BY DEF Next, Command, Users, Registries, StartRun, SendMail, SaveAtOnce, SaveLoaded, Save, Load,
         Change, Refresh, Tick, vars
<1> QED
  BY <1>1, <1>2, <1>3, <1>4, <1>5, <1>6

\* A run concludes that a value is wrong only while one of its tokens is
\* absent from the registry it names, or the lookup missed that registry, and
\* a network is flagged only as a run has concluded: for any registries,
\* values, budgets and caps.
THEOREM FlagsAreEarnedHolds == Spec => FlagsAreEarned
<1>1. IInv /\ [Next]_vars => [Earned]_vars
  BY EarnedStep
<1>2. [][Earned]_vars => FlagsAreEarned
  BY DEF Earned, FlagsAreEarned
<1> QED
  BY <1>1, <1>2, InductiveHolds, PTL DEF Spec

---------------------------------------------------------------------------
(* One mail in a reminder period. *)

\* The mark in the row is as young as the last mail, and the one the run has
\* read is the one in the row.  A mark without a mail is left by a kill.
MailInv ==
    /\ run # Idle => outbox = {}
    /\ \A n \in Networks \ StaleSavers :
          /\ held[n] = None
          /\ mailed[n] # None => row[n].told # None /\ row[n].told <= mailed[n]
          /\ run # Idle => run.rows[n].told = row[n].told
          /\ n \in outbox => row[n].told = 0

LEMMA InitMail == Init => MailInv
BY DEF Init, MailInv

\* Only the command and the days touch the marks.
LEMMA SaveKeepsTold ==
    ASSUME TypeOK, NEW n \in Networks, NEW copy \in Row, Save(n, copy)
    PROVE  /\ \A m \in Networks : m # n => row'[m] = row[m]
           /\ row'[n].told = copy.told
           /\ held' = [held EXCEPT ![n] = None]
           /\ UNCHANGED <<run, outbox, mailed>>
<1>1. PICK status \in {"ok", "deleted"}, value \in ValuesOf[n] :
        row' = [row EXCEPT ![n] = [copy EXCEPT !.status = status, !.value = value]]
  BY DEF Save
<1>2. [copy EXCEPT !.status = status, !.value = value].told = copy.told
  BY DEF Row
<1> QED
  BY <1>1, <1>2 DEF Save, TypeOK

LEMMA RecordedTold ==
    ASSUME NEW r \in Row, NEW outcome
    PROVE  /\ Retracted(r).missing = FALSE
           /\ Recorded(r, outcome).missing => Recorded(r, outcome).told = r.told
<1>1. Retracted(r).missing = FALSE
  BY DEF Row, Retracted
<1>2. CASE outcome = "ok"
  BY <1>1, <1>2 DEF Row, Recorded
<1>3. CASE outcome \in NOTIFY_STATUSES
  BY <1>1, <1>3 DEF Row, Recorded, NOTIFY_STATUSES
<1>4. CASE outcome \notin {"ok"} \cup NOTIFY_STATUSES
  BY <1>1, <1>4 DEF Row, Recorded
<1> QED
  BY <1>2, <1>3, <1>4

LEMMA CommitMail == TypeOK /\ MailInv /\ CommitRun => MailInv'
<1> SUFFICES ASSUME TypeOK, MailInv, CommitRun
             PROVE  MailInv'
  OBVIOUS
<1>1. run' = Idle /\ held' = held
  BY DEF CommitRun
<1>2. ASSUME NEW n \in Networks \ StaleSavers
      PROVE  /\ mailed'[n] # None => row'[n].told # None /\ row'[n].told <= mailed'[n]
             /\ n \in outbox' => row'[n].told = 0
  <2>1. row[n] \in Row /\ _apply_state(n) \in Row
    BY ApplyType DEF TypeOK, _apply_state
  <2>2. CASE n \in outbox'
    <3>1. row'[n] = [_apply_state(n) EXCEPT !.told = 0]
      BY <2>2 DEF CommitRun
    <3>2. row'[n].told = 0
      BY <2>1, <3>1 DEF Row
    <3>3. mailed'[n] # None => mailed'[n] \in Days
      BY DEF CommitRun, TypeOK
    <3> QED
      BY <3>2, <3>3, StatusAssumption DEF Days
  <2>3. CASE n \notin outbox'
    <3>1. row'[n] = _apply_state(n)
      BY <2>3 DEF CommitRun
    <3>2. mailed'[n] # None => row'[n].missing /\ mailed'[n] = mailed[n]
      BY DEF CommitRun
    <3>3. row'[n].missing => row'[n].told = row[n].told
      <4>1. CASE _apply_state(n) = Retracted(row[n])
        BY <2>1, <3>1, <4>1, RecordedTold
      <4>2. CASE _apply_state(n) = Recorded(row[n], run.results[n])
        <5>1. Recorded(row[n], run.results[n]).missing
                 => Recorded(row[n], run.results[n]).told = row[n].told
          BY <2>1, RecordedTold, Zenon
        <5>2. row'[n] = Recorded(row[n], run.results[n])
          BY <3>1, <4>2
        <5> QED
          BY <5>1, <5>2, Zenon
      <4> QED
        BY <4>1, <4>2 DEF _apply_state
    <3> QED
      BY <2>3, <3>2, <3>3 DEF MailInv
  <2> QED
    BY <2>2, <2>3
<1> QED
  BY <1>1, <1>2 DEF MailInv

LEMMA MailStep == TypeOK /\ MailInv /\ [Next]_vars => MailInv'
<1> SUFFICES ASSUME TypeOK, MailInv, [Next]_vars
             PROVE  MailInv'
  OBVIOUS
<1>1. CASE StartRun
  BY <1>1 DEF StartRun, MailInv, Idle
<1>2. CASE CommitRun
  BY <1>2, CommitMail
<1>3. ASSUME NEW n \in Networks, Sweep(n)
      PROVE  MailInv'
  <2>1. run'.rows = run.rows
    BY <1>3, SweepResult
  <2> QED
    BY <1>3, <2>1 DEF Sweep, MailInv
<1>4. ASSUME NEW n \in Networks, SendMail(n)
      PROVE  MailInv'
  <2>1. mailed'[n] = 0 /\ \A m \in Networks : m # n => mailed'[m] = mailed[m]
    BY <1>4 DEF SendMail, TypeOK
  <2>2. n \notin StaleSavers => row[n].told = 0
    BY <1>4 DEF SendMail, MailInv
  <2>3. None # 0
    BY StatusAssumption
  <2> QED
    BY <1>4, <2>1, <2>2, <2>3 DEF SendMail, MailInv
<1>5. CASE Kill
  BY <1>5 DEF Kill, MailInv
<1>6. ASSUME NEW n \in Networks, SaveAtOnce(n)
      PROVE  MailInv'
  <2>1. row[n] \in Row
    BY DEF TypeOK
  <2>2. /\ \A m \in Networks : row'[m].told = row[m].told
        /\ held' = [held EXCEPT ![n] = None]
        /\ UNCHANGED <<run, outbox, mailed>>
    BY <1>6, <2>1, SaveKeepsTold DEF SaveAtOnce
  <2>3. \A m \in Networks : held[m] = None => held'[m] = None
    BY <2>2 DEF TypeOK
  <2> QED
    BY <2>2, <2>3 DEF MailInv
<1>7. ASSUME NEW n \in Networks, Load(n)
      PROVE  MailInv'
  <2>1. \A m \in Networks \ StaleSavers : held'[m] = held[m]
    BY <1>7 DEF Load, TypeOK
  <2> QED
    BY <1>7, <2>1 DEF Load, MailInv
<1>8. ASSUME NEW n \in Networks, SaveLoaded(n)
      PROVE  MailInv'
  <2>1. held[n] \in Row /\ n \in StaleSavers
    BY <1>8 DEF SaveLoaded, TypeOK, MailInv
  <2>2. /\ \A m \in Networks \ StaleSavers : row'[m] = row[m]
        /\ held' = [held EXCEPT ![n] = None]
        /\ UNCHANGED <<run, outbox, mailed>>
    BY <1>8, <2>1, SaveKeepsTold DEF SaveLoaded
  <2>3. \A m \in Networks : held[m] = None => held'[m] = None
    BY <2>2 DEF TypeOK
  <2> QED
    BY <2>2, <2>3 DEF MailInv
<1>9. ASSUME NEW s \in Changing, NEW name \in Names, Change(name, s)
      PROVE  MailInv'
  BY <1>9 DEF Change, MailInv
<1>10. ASSUME NEW s \in Changing, Refresh(s)
       PROVE  MailInv'
  BY <1>10 DEF Refresh, MailInv
<1>11. CASE Tick
  <2>1. ASSUME NEW n \in Networks \ StaleSavers, mailed'[n] # None
        PROVE  row'[n].told # None /\ row'[n].told <= mailed'[n]
    <3>1. row[n] \in Row /\ mailed[n] \in Days \cup {None}
      BY DEF TypeOK
    <3>2. row'[n].told = Older(row[n].told) /\ mailed'[n] = Older(mailed[n])
      BY <1>11, <3>1 DEF Tick, Row
    <3>3. /\ mailed[n] \in Days /\ row[n].told \in Days /\ row[n].told <= mailed[n]
      BY <2>1, <3>1, <3>2 DEF MailInv, Older, Row
    <3> QED
      BY <3>2, <3>3, StatusAssumption DEF Older, Days
  <2>2. \A n \in Networks : held'[n] = None
    BY <1>11 DEF Tick
  <2> QED
    BY <1>11, <2>1, <2>2 DEF Tick, MailInv
<1>12. CASE UNCHANGED vars
  BY <1>12 DEF vars, MailInv
<1> QED
  BY <1>1, <1>2, <1>3, <1>4, <1>5, <1>6, <1>7, <1>8, <1>9, <1>10, <1>11, <1>12
     DEF Next, Command, Users, Registries

Once ==
    \A n \in Networks \ StaleSavers :
       n \in outbox' \ outbox /\ mailed[n] # None
          => RenotifyAfter # 0 /\ mailed[n] >= RenotifyAfter

LEMMA OnceStep == TypeOK /\ MailInv /\ [Next]_vars => Once
<1> SUFFICES ASSUME TypeOK, MailInv, [Next]_vars,
                    NEW n \in Networks \ StaleSavers, n \in outbox', n \notin outbox, mailed[n] # None
             PROVE  RenotifyAfter # 0 /\ mailed[n] >= RenotifyAfter
  BY DEF Once
<1>1. CommitRun
  BY DEF Next, Command, Users, Registries, StartRun, Sweep, SendMail, Kill, SaveAtOnce, SaveLoaded,
         Save, Load, Change, Refresh, Tick, vars
<1>2. Due(run.rows[n])
  BY <1>1 DEF CommitRun, Pending, Eligible
<1>3. run.rows[n].told = row[n].told /\ row[n].told # None /\ row[n].told <= mailed[n]
  BY <1>1 DEF CommitRun, MailInv
<1>4. row[n] \in Row /\ mailed[n] \in Days
  BY DEF TypeOK
<1>5. row[n].told \in Days
  BY <1>3, <1>4 DEF Row
<1> QED
  BY <1>2, <1>3, <1>4, <1>5, StatusAssumption DEF Due, Days

\* A network that has been mailed about its disappearance is not mailed again
\* before the reminder period is over, whatever was killed, edited or out of
\* reach in between and however many runs there were; those whose row a
\* request may save as it read it some time ago excepted.
THEOREM MailedOnceHolds == Spec => MailedOnce
<1>1. Init => MailInv
  BY InitMail
<1>2. TypeOK /\ MailInv /\ [Next]_vars => MailInv'
  BY MailStep
<1>3. TypeOK /\ MailInv /\ [Next]_vars => [Once]_vars
  BY OnceStep
<1>4. [][Once]_vars => MailedOnce
  BY DEF Once, MailedOnce
<1> QED
  BY <1>1, <1>2, <1>3, <1>4, TypeCorrect, PTL DEF Spec
===========================================================================
