-------------------------- MODULE RirStatus_proofs --------------------------
(***************************************************************************)
(* Proofs about RirStatus: type correctness; that only recorded warnings   *)
(* are mailed, and an undisturbed network once per flagging, whether       *)
(* commands are killed or not; and that a run removes an undisturbed       *)
(* network only if it was warned KEEP_RIR_STATUS days before.  The last    *)
(* needs a command that is not killed among its mails.                     *)
(***************************************************************************)
EXTENDS RirStatus, FiniteSetTheorems, TLAPS

---------------------------------------------------------------------------
(* The sets a run computes. *)

LEMMA ScopeIsOfNetworks ==
    ASSUME NEW r
    PROVE  Scope(r) \subseteq Networks
BY DEF Scope, First

LEMMA DecisionsAreOfNetworks ==
    ASSUME NEW r
    PROVE  /\ Flagged(r) \subseteq Networks
           /\ Recovered(r) \subseteq Networks
           /\ Unwarned(r) \subseteq Networks
           /\ ToNotify(r) \subseteq Flagged(r) \cup Unwarned(r)
           /\ ToNotify(r) \subseteq Networks
BY ScopeIsOfNetworks DEF Flagged, Recovered, StillBad, Unwarned, ToNotify, First

\* The cases a run tells apart exclude each other.
LEMMA DecisionsAreDisjoint ==
    ASSUME NEW r
    PROVE  /\ Flagged(r) \cap (Unwarned(r) \cup Settled(r) \cup Recovered(r)) = {}
           /\ Unwarned(r) \cap (Settled(r) \cup Recovered(r)) = {}
           /\ Settled(r) \cap Recovered(r) = {}
BY DEF Flagged, StillBad, Unwarned, Settled, Recovered, rir_status_is_ok

\* A cap that covers all networks cuts nothing off.
LEMMA WideCap ==
    ASSUME NEW S \in SUBSET Networks, NEW k \in Nat, k >= Cardinality(Networks)
    PROVE  First(S, k) = S
<1> SUFFICES ASSUME NEW n \in S
             PROVE  Cardinality({m \in S : m <= n}) <= k
  BY DEF First
<1> DEFINE Upto == {m \in S : m <= n}
<1>1. Upto \subseteq Networks
  OBVIOUS
<1>2. IsFiniteSet(Networks)
  BY RirAssumption
<1>3. IsFiniteSet(Upto) /\ Cardinality(Upto) <= Cardinality(Networks)
  BY <1>1, <1>2, FS_Subset
<1>4. Cardinality(Upto) \in Nat /\ Cardinality(Networks) \in Nat
  BY <1>2, <1>3, FS_CardinalityType
<1> QED
  BY <1>3, <1>4

---------------------------------------------------------------------------
(* Type correctness. *)

LEMMA UpdatedIsRow ==
    ASSUME TypeOK, run \in Running, NEW n \in Networks
    PROVE  Updated(run, n) \in Row
<1>1. row[n] \in Row /\ run.rows[n] \in Row
  BY DEF TypeOK, Running
<1>2. 0 \in Days
  BY RirAssumption DEF Days
<1> QED
  BY <1>1, <1>2 DEF Updated, Row

LEMMA OlderIsDay ==
    ASSUME NEW d \in Days
    PROVE  Older(d) \in Days /\ Older(d) >= d
BY RirAssumption DEF Days, Older

LEMMA InitTypeOK == Init => TypeOK
<1> SUFFICES ASSUME Init
             PROVE  TypeOK
  OBVIOUS
<1>1. {0, MaxAge} \subseteq Days
  BY RirAssumption DEF Days
<1>2. row \in [Networks -> Row]
  <2>1. [status : {"ok"}, rir : {"assigned", "bad"},
         age : {0, MaxAge}, notified : {FALSE}] \subseteq Row
    BY <1>1 DEF Row
  <2> QED
    BY <2>1 DEF Init
<1> QED
  BY <1>2 DEF Init, TypeOK

LEMMA NextTypeOK == TypeOK /\ [Next]_vars => TypeOK'
<1> SUFFICES ASSUME TypeOK, [Next]_vars
             PROVE  TypeOK'
  OBVIOUS
<1>0. 0 \in Days
  BY RirAssumption DEF Days
<1>1. ASSUME NEW opts \in Runs, StartRun(opts)
      PROVE  TypeOK'
  BY <1>1 DEF TypeOK, StartRun, Running
<1>2. CASE AbortRun
  BY <1>2 DEF TypeOK, AbortRun
<1>3. CASE CommitSome
  <2>0. PICK answers \in [Expired(run) -> RdapAnswers] : CommitRun(answers)
    BY <1>3 DEF CommitSome
  <2>1. run \in Running
    BY <2>0 DEF CommitRun, TypeOK
  <2>2. \A n \in Networks : [run.rows[n] EXCEPT !.status = "deleted"] \in Row
    BY <2>1 DEF Running, Row
  <2>3. row' \in [Networks -> Row]
    BY <2>0, <2>1, <2>2, UpdatedIsRow DEF CommitRun
  <2>4. warned' \in [Networks -> Days \cup {None}]
    BY <2>0 DEF CommitRun, TypeOK
  <2>5. outbox' \in SUBSET Networks
    BY <2>0, DecisionsAreOfNetworks DEF CommitRun
  <2> QED
    BY <2>0, <2>3, <2>4, <2>5 DEF CommitRun, TypeOK
<1>4. ASSUME NEW n \in Networks, SendWarning(n)
      PROVE  TypeOK'
  BY <1>0, <1>4 DEF TypeOK, SendWarning
<1>5. CASE Kill
  BY <1>5 DEF TypeOK, Kill
<1>6. CASE Reset
  <2>1. row' \in [Networks -> Row]
    BY <1>0, <1>6 DEF TypeOK, Reset, Row
  <2> QED
    BY <1>6, <2>1 DEF TypeOK, Reset
<1>7. ASSUME NEW n \in Networks, Load(n)
      PROVE  TypeOK'
  BY <1>7 DEF TypeOK, Load
<1>8. ASSUME NEW n \in Networks, NEW copy \in Row, Save(n, copy)
      PROVE  TypeOK'
  <2>1. \A status \in {"ok", "deleted"} : Saved(n, copy, status) \in Row
    BY <1>0, <1>8 DEF Saved, Row
  <2>2. row' \in [Networks -> Row]
    BY <1>8, <2>1 DEF Save, TypeOK
  <2> QED
    BY <1>8, <2>2 DEF Save, TypeOK
<1>9. ASSUME NEW n \in Networks, SaveLoaded(n) \/ SaveAtOnce(n)
      PROVE  TypeOK'
  <2>1. CASE SaveLoaded(n)
    BY <1>8, <2>1 DEF SaveLoaded, TypeOK
  <2>2. CASE SaveAtOnce(n)
    BY <1>8, <2>2 DEF SaveAtOnce, TypeOK
  <2> QED
    BY <1>9, <2>1, <2>2
<1>10. CASE Publish
  BY <1>10 DEF TypeOK, Publish
<1>11. CASE Tick
  <2>1. \A n \in Networks : [row[n] EXCEPT !.age = Older(row[n].age)] \in Row
    BY OlderIsDay DEF TypeOK, Row
  <2>2. row' \in [Networks -> Row]
    BY <1>11, <2>1 DEF Tick
  <2>3. warned' \in [Networks -> Days \cup {None}]
    BY <1>11, OlderIsDay DEF Tick, TypeOK
  <2> QED
    BY <1>11, <2>2, <2>3 DEF TypeOK, Tick
<1>12. CASE UNCHANGED vars
  BY <1>12 DEF TypeOK, vars
<1> QED
  BY <1>1, <1>2, <1>3, <1>4, <1>5, <1>6, <1>7, <1>9, <1>10, <1>11, <1>12
     DEF Next, Command, Users

\* Every reachable state is well typed.
THEOREM TypeCorrect == Spec => []TypeOK
BY InitTypeOK, NextTypeOK, PTL DEF Spec

---------------------------------------------------------------------------
(* The flagging cycle. *)

IInv == TypeOK /\ (\A n \in Networks \ StaleSavers : held[n] = None) /\ CycleInv

\* A flagged network that is not to be notified leaves the run unmarked.
LEMMA FlaggedBeyondCap ==
    ASSUME IInv, run # Idle,
           NEW n \in Flagged(run) \cap Undisturbed, n \notin ToNotify(run)
    PROVE  ~run.rows[n].notified
<1>1. n \in Networks /\ rir_status_is_ok(run.rows[n])
  BY DecisionsAreOfNetworks DEF Flagged
<1>2. n \notin ReAdded
  <2> SUFFICES ASSUME n \in ReAdded
               PROVE  FALSE
    OBVIOUS
  <2>1. Flagged(run) \cup Unwarned(run) \in SUBSET Networks
    BY DecisionsAreOfNetworks
  <2>2. Cap \in Nat /\ Cap >= Cardinality(Networks)
    BY RirAssumption DEF Undisturbed
  <2>3. ToNotify(run) = Flagged(run) \cup Unwarned(run)
    BY <2>1, <2>2, WideCap DEF ToNotify
  <2> QED
    BY <2>3
<1> QED
  BY <1>1, <1>2 DEF IInv, CycleInv, GoodMeansUnmarked

LEMMA InitIInv == Init => IInv
<1> SUFFICES ASSUME Init
             PROVE  IInv
  OBVIOUS
<1>1. Undisturbed \subseteq Networks
  BY DEF Undisturbed
<1>2. \A n \in Networks : ~row[n].notified
  BY DEF Init
<1>3. run = Idle /\ outbox = {} /\ \A n \in Networks : held[n] = None
  BY DEF Init
<1>4. CycleInv
  BY <1>1, <1>2, <1>3 DEF CycleInv, MarkedMeansWarned, GoodMeansUnmarked
<1> QED
  BY <1>3, <1>4, InitTypeOK DEF IInv

LEMMA CommitKeepsCycle ==
    ASSUME IInv,
           NEW answers \in [Expired(run) -> RdapAnswers], CommitRun(answers)
    PROVE  CycleInv'
<1> DEFINE flagged == Flagged(run)
           recovered == Recovered(run)
           notify == ToNotify(run)
           removed == Removed(run, answers)
<1>1. run \in Running /\ run # Idle
  BY DEF CommitRun, IInv, TypeOK
<1>2. /\ row \in [Networks -> Row] /\ run.rows \in [Networks -> Row]
      /\ MarkedMeansWarned(row) /\ GoodMeansUnmarked(row)
      /\ MarkedMeansWarned(run.rows) /\ GoodMeansUnmarked(run.rows)
      /\ outbox = {}
  BY <1>1 DEF IInv, TypeOK, CycleInv, Running
<1>3. /\ run' = Idle /\ outbox' = notify
      /\ \A n \in Networks :
           /\ row'[n] = IF n \in removed
                        THEN [run.rows[n] EXCEPT !.status = "deleted"]
                        ELSE Updated(run, n)
           /\ warned'[n] = IF n \in flagged \cup recovered THEN None ELSE warned[n]
  BY DEF CommitRun
<1>4. \A n \in removed : n \in StillBad(run) /\ n \notin flagged /\ n \notin recovered
                         /\ n \notin Settled(run) /\ n \notin notify
  BY DEF Removed, Expired, StillBad, Flagged, Recovered, Settled, ToNotify,
         Unwarned, First, rir_status_is_ok
<1>5. \A n \in Networks : n \in removed =>
         /\ rir_status_is_ok(row'[n]) <=> rir_status_is_ok(run.rows[n])
         /\ row'[n].notified = run.rows[n].notified
         /\ row'[n].age = run.rows[n].age
  BY <1>2, <1>3 DEF Row, rir_status_is_ok
<1>6. ASSUME NEW n \in Networks, n \notin removed
      PROVE  \/ /\ n \in flagged
                /\ ~rir_status_is_ok(row'[n]) /\ row'[n].age = 0
                /\ n \notin notify => n \notin Undisturbed \/ ~row'[n].notified
             \/ /\ n \in Unwarned(run) \cap notify
                /\ ~rir_status_is_ok(row'[n]) /\ row'[n].age = 0
             \/ /\ n \notin flagged \cup recovered /\ n \in Settled(run)
                /\ rir_status_is_ok(row'[n])
                /\ row'[n].notified = run.rows[n].notified
             \/ /\ rir_status_is_ok(row'[n]) /\ ~row'[n].notified
             \/ /\ n \notin flagged \cup recovered \cup notify
                /\ row'[n] = row[n]
  <2>1. row'[n] = Updated(run, n) /\ row[n] \in Row
    BY <1>2, <1>3, <1>6
  <2>2. CASE n \in flagged
    <3>1. row'[n] = [row[n] EXCEPT !.rir = "bad", !.age = 0,
                        !.notified = IF n \in notify THEN TRUE
                                     ELSE run.rows[n].notified]
      BY <2>1, <2>2, DecisionsAreDisjoint DEF Updated
    <3>2. n \notin notify => n \notin Undisturbed \/ ~run.rows[n].notified
      BY <1>1, <2>2, FlaggedBeyondCap
    <3>3. row'[n].rir = "bad" /\ row'[n].age = 0
      BY <2>1, <3>1 DEF Row
    <3>4. n \notin notify => n \notin Undisturbed \/ ~row'[n].notified
      BY <2>1, <3>1, <3>2 DEF Row
    <3>5. ~rir_status_is_ok(row'[n])
      BY <3>3 DEF rir_status_is_ok
    <3> QED
      BY <2>2, <3>3, <3>4, <3>5
  <2>3. CASE n \in Unwarned(run) \cap notify /\ n \notin flagged
    <3>1. row'[n] = [row[n] EXCEPT !.rir = "bad", !.age = 0, !.notified = TRUE]
      BY <2>1, <2>3, DecisionsAreDisjoint DEF Updated
    <3>2. row'[n].rir = "bad" /\ row'[n].age = 0
      BY <2>1, <3>1 DEF Row
    <3> QED
      BY <2>3, <3>2 DEF rir_status_is_ok
  <2>4. CASE n \in Settled(run) /\ n \notin flagged /\ n \notin Unwarned(run) \cap notify
    <3>1. n \notin recovered
      BY <2>4 DEF Settled, Recovered, rir_status_is_ok
    <3> QED
      BY <2>1, <2>4, <3>1 DEF Updated, Row, rir_status_is_ok
  <2>5. CASE n \in recovered /\ n \notin Settled(run) /\ n \notin flagged
             /\ n \notin Unwarned(run) \cap notify
    BY <2>1, <2>5 DEF Updated, Row, rir_status_is_ok
  <2>6. CASE n \notin recovered /\ n \notin Settled(run) /\ n \notin flagged
             /\ n \notin Unwarned(run) \cap notify
    BY <2>1, <2>6, DecisionsAreOfNetworks DEF Updated
  <2> QED
    BY <2>2, <2>3, <2>4, <2>5, <2>6
<1>7. MarkedMeansWarned(row)'
  <2> SUFFICES ASSUME NEW n \in Undisturbed, ~rir_status_is_ok(row'[n]),
                      row'[n].notified, n \notin notify
               PROVE  warned'[n] # None /\ warned'[n] >= row'[n].age
    BY <1>3 DEF MarkedMeansWarned
  <2>0. n \in Networks
    BY DEF Undisturbed
  <2>1. CASE n \in removed
    BY <1>2, <1>3, <1>4, <1>5, <2>0, <2>1 DEF MarkedMeansWarned
  <2>2. CASE n \notin removed
    BY <1>2, <1>3, <1>6, <2>0, <2>2 DEF MarkedMeansWarned
  <2> QED
    BY <2>1, <2>2
<1>8. GoodMeansUnmarked(row)'
  <2> SUFFICES ASSUME NEW n \in Undisturbed \ ReAdded, rir_status_is_ok(row'[n])
               PROVE  ~row'[n].notified
    BY DEF GoodMeansUnmarked
  <2>0. n \in Networks
    BY DEF Undisturbed
  <2>1. CASE n \in removed
    BY <1>2, <1>5, <2>0, <2>1 DEF GoodMeansUnmarked
  <2>2. CASE n \notin removed
    BY <1>2, <1>6, <2>0, <2>2 DEF GoodMeansUnmarked, Settled, rir_status_is_ok
  <2> QED
    BY <2>1, <2>2
<1>9. \A n \in outbox' \cap Undisturbed : ~rir_status_is_ok(row'[n]) => row'[n].age = 0
  BY <1>3, <1>4, <1>6, DecisionsAreOfNetworks
<1> QED
  BY <1>3, <1>7, <1>8, <1>9 DEF CycleInv

LEMMA NextIInv ==
    ASSUME ~Kills
    PROVE  IInv /\ [Next]_vars => IInv'
<1> DEFINE HeldInv == \A n \in Networks \ StaleSavers : held[n] = None
<1> SUFFICES ASSUME IInv, [Next]_vars
             PROVE  HeldInv' /\ CycleInv'
  BY NextTypeOK DEF IInv
<1> USE DEF IInv
<1>0. Undisturbed \subseteq Networks
  BY DEF Undisturbed
<1>1. ASSUME NEW opts \in Runs, StartRun(opts)
      PROVE  HeldInv' /\ CycleInv'
  BY <1>1 DEF StartRun, CycleInv, MarkedMeansWarned, GoodMeansUnmarked
<1>2. CASE AbortRun
  BY <1>2 DEF AbortRun, CycleInv, MarkedMeansWarned, GoodMeansUnmarked
<1>3. CASE CommitSome
  <2>1. PICK answers \in [Expired(run) -> RdapAnswers] : CommitRun(answers)
    BY <1>3 DEF CommitSome
  <2> QED
    BY <2>1, CommitKeepsCycle DEF CommitRun
<1>4. ASSUME NEW n \in Networks, SendWarning(n)
      PROVE  HeldInv' /\ CycleInv'
  <2>1. run = Idle /\ run' = Idle /\ row' = row /\ held' = held
    BY <1>4 DEF SendWarning, CycleInv
  <2>2. warned'[n] = 0 /\ None # 0
    BY <1>4, RirAssumption DEF SendWarning, TypeOK
  <2>3. \A m \in Networks \ {n} : warned'[m] = warned[m] /\ (m \in outbox' <=> m \in outbox)
    BY <1>4 DEF SendWarning, TypeOK
  <2>4. n \in Undisturbed /\ ~rir_status_is_ok(row[n]) => row[n].age = 0
    BY <1>4 DEF SendWarning, CycleInv
  <2>5. MarkedMeansWarned(row)'
    BY <1>0, <2>1, <2>2, <2>3, <2>4 DEF CycleInv, MarkedMeansWarned, rir_status_is_ok
  <2> QED
    BY <1>4, <2>1, <2>5 DEF SendWarning, CycleInv, GoodMeansUnmarked, rir_status_is_ok
<1>5. CASE Kill
  BY <1>5 DEF Kill
<1>6. CASE Reset
  <2>1. run' = Idle /\ outbox' = outbox /\ held' = held /\ outbox = {}
    BY <1>6 DEF Reset
  <2>2. ASSUME NEW n \in Networks
        PROVE  \/ row'[n] = row[n] /\ warned'[n] = warned[n]
               \/ ~row'[n].notified
    BY <1>6 DEF Reset, TypeOK, Row
  <2>3. MarkedMeansWarned(row)' /\ GoodMeansUnmarked(row)'
    BY <1>0, <2>1, <2>2 DEF CycleInv, MarkedMeansWarned, GoodMeansUnmarked, rir_status_is_ok
  <2> QED
    BY <2>1, <2>3 DEF CycleInv
<1>7. ASSUME NEW n \in Networks, Load(n)
      PROVE  HeldInv' /\ CycleInv'
  <2>1. HeldInv'
    BY <1>7 DEF Load, TypeOK
  <2> QED
    BY <1>7, <2>1 DEF Load, CycleInv, MarkedMeansWarned, GoodMeansUnmarked
<1>8. ASSUME NEW n \in Networks, SaveLoaded(n) \/ SaveAtOnce(n)
      PROVE  HeldInv' /\ CycleInv'
  <2>1. PICK r \in Row : Save(n, r) /\ (n \in StaleSavers \/ r = row[n])
    BY <1>8 DEF SaveLoaded, SaveAtOnce, TypeOK
  <2>2. PICK status \in {"ok", "deleted"} :
             /\ r.status = "deleted" /\ status = "ok" => n \in ReAdded
             /\ row' = [row EXCEPT ![n] = Saved(n, r, status)]
    BY <2>1 DEF Save
  <2>3. UNCHANGED <<data, run, outbox, warned>> /\ HeldInv'
    BY <2>1 DEF Save, TypeOK
  <2>4. \A m \in Networks : m # n => row'[m] = row[m]
    BY <2>2 DEF TypeOK
  <2>5. n \in Undisturbed =>
          \/ rir_status_is_ok(row'[n]) /\ n \in ReAdded
          \/ /\ rir_status_is_ok(row'[n]) <=> rir_status_is_ok(row[n])
             /\ row'[n].notified = row[n].notified
             /\ row'[n].age = row[n].age
    BY <2>1, <2>2 DEF Undisturbed, Saved, TypeOK, Row, rir_status_is_ok
  <2>6. MarkedMeansWarned(row)' /\ GoodMeansUnmarked(row)'
    BY <1>0, <2>3, <2>4, <2>5 DEF CycleInv, MarkedMeansWarned, GoodMeansUnmarked, rir_status_is_ok
  <2>7. \A m \in outbox' \cap Undisturbed : ~rir_status_is_ok(row'[m]) => row'[m].age = 0
    BY <1>0, <2>3, <2>4, <2>5 DEF CycleInv, TypeOK, rir_status_is_ok
  <2> QED
    BY <2>3, <2>6, <2>7 DEF CycleInv, MarkedMeansWarned, GoodMeansUnmarked
<1>9. CASE Publish
  BY <1>9 DEF Publish, CycleInv, MarkedMeansWarned, GoodMeansUnmarked, rir_status_is_ok
<1>10. CASE Tick
  <2>1. run' = Idle /\ outbox' = outbox /\ outbox = {} /\ HeldInv'
    BY <1>10 DEF Tick
  <2>2. ASSUME NEW n \in Networks
        PROVE  /\ rir_status_is_ok(row'[n]) <=> rir_status_is_ok(row[n])
               /\ row'[n].notified = row[n].notified
               /\ row'[n].age = Older(row[n].age)
               /\ warned'[n] = IF warned[n] = None THEN None ELSE Older(warned[n])
    BY <1>10 DEF Tick, TypeOK, Row, rir_status_is_ok
  <2>3. ASSUME NEW c \in Days, NEW d \in Days, c >= d
        PROVE  Older(c) # None /\ Older(c) >= Older(d)
    BY <2>3, RirAssumption DEF Older, Days
  <2>4. \A n \in Networks : row[n].age \in Days /\ warned[n] \in Days \cup {None}
    BY DEF TypeOK, Row
  <2>5. MarkedMeansWarned(row)' /\ GoodMeansUnmarked(row)'
    BY <1>0, <2>1, <2>2, <2>3, <2>4 DEF CycleInv, MarkedMeansWarned, GoodMeansUnmarked
  <2> QED
    BY <2>1, <2>5 DEF CycleInv
<1>11. CASE UNCHANGED vars
  BY <1>11 DEF vars, CycleInv, MarkedMeansWarned, GoodMeansUnmarked, rir_status_is_ok
<1> QED
  BY <1>1, <1>2, <1>3, <1>4, <1>5, <1>6, <1>7, <1>8, <1>9, <1>10, <1>11
     DEF Next, Command, Users

\* If the command is never killed: in every reachable state a marked network
\* that is not disturbed was warned when its countdown began, or is about to be.
THEOREM CycleInvHolds ==
    ASSUME ~Kills
    PROVE  Spec => []CycleInv
<1>1. Init => IInv
  BY InitIInv
<1>2. IInv /\ [Next]_vars => IInv'
  BY NextIInv
<1>3. IInv => CycleInv
  BY DEF IInv
<1> QED
  BY <1>1, <1>2, <1>3, PTL DEF Spec

LEMMA StepWarnsFirst ==
    ASSUME IInv, [Next]_vars, NEW n \in Undisturbed,
           run # run', row[n].status = "ok", row'[n].status = "deleted"
    PROVE  warned[n] # None /\ warned[n] >= Keep
<1>0. n \in Networks
  BY DEF Undisturbed
<1>1. PICK answers \in [Expired(run) -> RdapAnswers] : CommitRun(answers)
  BY DEF Next, Command, CommitSome, Users, StartRun, AbortRun, SendWarning, Kill, Reset, Load,
         Save, SaveLoaded, SaveAtOnce, Publish, Tick, vars
<1>2. run \in Running /\ row \in [Networks -> Row] /\ run # Idle
  BY <1>1 DEF CommitRun, IInv, TypeOK
<1>3. n \in Removed(run, answers)
  <2> SUFFICES ASSUME row'[n] = Updated(run, n)
               PROVE  row'[n].status = "ok"
    BY <1>0, <1>1 DEF CommitRun
  <2> QED
    BY <1>0, <1>2, DecisionsAreDisjoint DEF Updated, Row
<1>4. ~rir_status_is_ok(run.rows[n]) /\ run.rows[n].notified /\ run.rows[n].age >= Keep
  BY <1>3 DEF Removed, Expired, StillBad
<1>5. warned[n] # None /\ warned[n] >= run.rows[n].age
  BY <1>2, <1>4 DEF IInv, CycleInv, MarkedMeansWarned
<1>6. warned[n] \in Nat /\ run.rows[n].age \in Nat /\ Keep \in Nat
  BY <1>0, <1>2, <1>5, RirAssumption DEF IInv, TypeOK, Running, Row, Days
<1> QED
  BY <1>4, <1>5, <1>6

\* If the command is never killed, no run removes an undisturbed network that
\* was not warned at least KEEP_RIR_STATUS days before, since it was last
\* flagged, whatever stale saves and returns do to the other networks.
THEOREM UndisturbedAreWarnedHolds ==
    ASSUME ~Kills
    PROVE  Spec => UndisturbedAreWarned
<1>1. Init => IInv
  BY InitIInv
<1>2. IInv /\ [Next]_vars => IInv'
  BY NextIInv
<1>3. IInv /\ [Next]_vars =>
        [\A n \in Undisturbed :
           run # run' /\ row[n].status = "ok" /\ row'[n].status = "deleted"
              => warned[n] # None /\ warned[n] >= Keep]_vars
  BY StepWarnsFirst
<1> QED
  BY <1>1, <1>2, <1>3, PTL DEF Spec, UndisturbedAreWarned

---------------------------------------------------------------------------
(* Mails: recorded before they go, and not repeated.  A command killed     *)
(* among its mails changes nothing here.                                   *)

\* A flagged network without a marker was not warned of this flagging.
UnmarkedMeansUnwarned(table) ==
    \A n \in Undisturbed :
        ~rir_status_is_ok(table[n]) /\ ~table[n].notified => warned[n] = None

MailInv ==
    /\ TypeOK
    /\ \A n \in Networks \ StaleSavers : held[n] = None
    /\ MailsAreRecorded
    /\ \A n \in outbox \cap Undisturbed : warned[n] = None
    /\ UnmarkedMeansUnwarned(row)
    /\ run # Idle => outbox = {} /\ UnmarkedMeansUnwarned(run.rows)

LEMMA InitMailInv == Init => MailInv
<1> SUFFICES ASSUME Init
             PROVE  MailInv
  OBVIOUS
<1>1. Undisturbed \subseteq Networks
  BY DEF Undisturbed
<1> QED
  BY <1>1, InitTypeOK DEF Init, MailInv, MailsAreRecorded, UnmarkedMeansUnwarned

LEMMA CommitKeepsMailInv ==
    ASSUME MailInv,
           NEW answers \in [Expired(run) -> RdapAnswers], CommitRun(answers)
    PROVE  /\ MailsAreRecorded' /\ UnmarkedMeansUnwarned(row)'
           /\ \A n \in outbox' \cap Undisturbed : warned'[n] = None
<1> DEFINE notify == ToNotify(run)
           removed == Removed(run, answers)
<1>1. run \in Running /\ run # Idle /\ row \in [Networks -> Row] /\ run.rows \in [Networks -> Row]
  BY DEF CommitRun, MailInv, TypeOK, Running
<1>2. UnmarkedMeansUnwarned(row) /\ UnmarkedMeansUnwarned(run.rows)
  BY <1>1 DEF MailInv
<1>3. /\ outbox' = notify
      /\ \A n \in Networks :
           /\ row'[n] = IF n \in removed
                        THEN [run.rows[n] EXCEPT !.status = "deleted"]
                        ELSE Updated(run, n)
           /\ warned'[n] = IF n \in Flagged(run) \cup Recovered(run) THEN None ELSE warned[n]
  BY DEF CommitRun
<1>4. \A n \in removed : n \notin notify /\ run.rows[n].notified
  BY DEF Removed, Expired, StillBad, Flagged, ToNotify, Unwarned, First
<1>5. notify \subseteq Flagged(run) \cup Unwarned(run)
  BY DecisionsAreOfNetworks
<1>6. ASSUME NEW n \in Undisturbed
      PROVE  /\ n \in notify => row'[n].notified /\ warned'[n] = None
             /\ ~rir_status_is_ok(row'[n]) /\ ~row'[n].notified => warned'[n] = None
  <2>0. n \in Networks /\ row[n] \in Row /\ run.rows[n] \in Row
    BY <1>1 DEF Undisturbed
  <2>a. n \notin removed => row'[n] = Updated(run, n)
    BY <1>3, <2>0
  <2>1. CASE n \in removed
    BY <1>3, <1>4, <2>0, <2>1 DEF Row
  <2>2. CASE n \notin removed /\ n \in Flagged(run)
    <3>1. row'[n] = [row[n] EXCEPT !.rir = "bad", !.age = 0,
                        !.notified = IF n \in notify THEN TRUE
                                     ELSE run.rows[n].notified]
      BY <2>0, <2>2, <2>a, DecisionsAreDisjoint DEF Updated
    <3>2. n \in notify => row'[n].notified
      BY <2>0, <3>1 DEF Row
    <3> QED
      BY <1>3, <2>0, <2>2, <3>2
  <2>3. CASE n \notin removed /\ n \notin Flagged(run) /\ n \in Unwarned(run) \cap notify
    <3>1. row'[n] = [row[n] EXCEPT !.rir = "bad", !.age = 0, !.notified = TRUE]
      BY <2>0, <2>3, <2>a, DecisionsAreDisjoint DEF Updated
    <3>2. row'[n].notified
      BY <2>0, <3>1 DEF Row
    <3>3. ~rir_status_is_ok(run.rows[n]) /\ ~run.rows[n].notified
      BY <2>3 DEF Unwarned, StillBad
    <3>4. warned[n] = None
      BY <1>2, <3>3 DEF UnmarkedMeansUnwarned
    <3> QED
      BY <1>3, <2>0, <3>2, <3>4
  <2>4. CASE n \notin removed \cup Flagged(run) \cup notify /\ n \in Settled(run) \cup Recovered(run)
    <3>1. row'[n] = Updated(run, n)
      BY <1>3, <2>0, <2>4
    <3>2. row'[n].rir = "assigned"
      BY <2>0, <2>4, <3>1 DEF Updated, Row
    <3> QED
      BY <2>4, <3>2 DEF rir_status_is_ok
  <2>5. CASE n \notin removed \cup Flagged(run) \cup notify \cup Settled(run) \cup Recovered(run)
    <3>1. row'[n] = row[n]
      BY <1>3, <2>0, <2>5 DEF Updated
    <3>2. warned'[n] = warned[n]
      BY <1>3, <2>0, <2>5
    <3> QED
      BY <1>2, <2>5, <3>1, <3>2 DEF UnmarkedMeansUnwarned
  <2> QED
    BY <1>5, <2>1, <2>2, <2>3, <2>4, <2>5
<1> QED
  BY <1>3, <1>6 DEF MailsAreRecorded, UnmarkedMeansUnwarned

LEMMA NextMailInv == MailInv /\ [Next]_vars => MailInv'
<1> SUFFICES ASSUME MailInv, [Next]_vars
             PROVE  MailInv'
  OBVIOUS
<1> USE DEF MailInv
<1>a. TypeOK'
  BY NextTypeOK
<1>0. Undisturbed \subseteq Networks /\ Undisturbed \cap StaleSavers = {}
  BY DEF Undisturbed
<1>1. ASSUME NEW opts \in Runs, StartRun(opts)
      PROVE  MailInv'
  BY <1>a, <1>1 DEF StartRun, MailsAreRecorded, UnmarkedMeansUnwarned
<1>2. CASE AbortRun \/ Kill
  BY <1>a, <1>2 DEF AbortRun, Kill, MailsAreRecorded, UnmarkedMeansUnwarned
<1>3. CASE CommitSome
  <2>1. PICK answers \in [Expired(run) -> RdapAnswers] : CommitRun(answers)
    BY <1>3 DEF CommitSome
  <2>2. run' = Idle /\ held' = held
    BY <2>1 DEF CommitRun
  <2> QED
    BY <1>a, <2>1, <2>2, CommitKeepsMailInv
<1>4. ASSUME NEW n \in Networks, SendWarning(n)
      PROVE  MailInv'
  <2>1. run = Idle /\ run' = Idle /\ row' = row /\ held' = held /\ outbox' = outbox \ {n}
    BY <1>4 DEF SendWarning
  <2>2. \A m \in Networks \ {n} : warned'[m] = warned[m]
    BY <1>4 DEF SendWarning, TypeOK
  <2>3. n \in Undisturbed => row[n].notified
    BY <1>4 DEF SendWarning, MailsAreRecorded
  <2>4. UnmarkedMeansUnwarned(row)'
    BY <1>0, <2>1, <2>2, <2>3 DEF UnmarkedMeansUnwarned
  <2> QED
    BY <1>a, <1>0, <2>1, <2>2, <2>4 DEF MailsAreRecorded
<1>5. CASE Reset
  <2>1. run' = Idle /\ outbox' = {} /\ held' = held
    BY <1>5 DEF Reset
  <2>2. \A n \in Networks : \/ row'[n] = row[n] /\ warned'[n] = warned[n]
                            \/ warned'[n] = None
    BY <1>5 DEF Reset
  <2>3. UnmarkedMeansUnwarned(row)'
    BY <1>0, <2>2 DEF UnmarkedMeansUnwarned
  <2> QED
    BY <1>a, <2>1, <2>3 DEF MailsAreRecorded
<1>6. ASSUME NEW n \in Networks, Load(n)
      PROVE  MailInv'
  <2>1. \A m \in Networks \ StaleSavers : held'[m] = None
    BY <1>6 DEF Load, TypeOK
  <2> QED
    BY <1>a, <1>6, <2>1 DEF Load, MailsAreRecorded, UnmarkedMeansUnwarned
<1>7. ASSUME NEW n \in Networks, SaveLoaded(n) \/ SaveAtOnce(n)
      PROVE  MailInv'
  <2>1. PICK r \in Row : Save(n, r) /\ (n \in StaleSavers \/ r = row[n])
    BY <1>7 DEF SaveLoaded, SaveAtOnce, TypeOK
  <2>2. PICK status \in {"ok", "deleted"} : row' = [row EXCEPT ![n] = Saved(n, r, status)]
    BY <2>1 DEF Save
  <2>3. UNCHANGED <<run, outbox, warned>> /\ \A m \in Networks \ StaleSavers : held'[m] = None
    BY <2>1 DEF Save, TypeOK
  <2>4. \A m \in Networks : m # n => row'[m] = row[m]
    BY <2>2 DEF TypeOK
  <2>5. n \in Undisturbed =>
          /\ row'[n].notified = row[n].notified
          /\ rir_status_is_ok(row'[n]) \/ row'[n].rir = row[n].rir
    BY <1>0, <2>1, <2>2 DEF Saved, TypeOK, Row, rir_status_is_ok
  <2>6. UnmarkedMeansUnwarned(row)'
    BY <1>0, <2>3, <2>4, <2>5 DEF UnmarkedMeansUnwarned, rir_status_is_ok
  <2>7. MailsAreRecorded'
    BY <1>0, <2>3, <2>4, <2>5 DEF MailsAreRecorded
  <2> QED
    BY <1>a, <2>3, <2>6, <2>7 DEF UnmarkedMeansUnwarned
<1>8. CASE Publish
  BY <1>a, <1>8 DEF Publish, MailsAreRecorded, UnmarkedMeansUnwarned
<1>9. CASE Tick
  <2>1. run' = Idle /\ outbox' = {} /\ \A n \in Networks : held'[n] = None
    BY <1>9 DEF Tick
  <2>2. ASSUME NEW n \in Networks
        PROVE  /\ rir_status_is_ok(row'[n]) <=> rir_status_is_ok(row[n])
               /\ row'[n].notified = row[n].notified
               /\ warned[n] = None => warned'[n] = None
    BY <1>9 DEF Tick, TypeOK, Row, rir_status_is_ok
  <2>3. UnmarkedMeansUnwarned(row)'
    BY <1>0, <2>2 DEF UnmarkedMeansUnwarned
  <2> QED
    BY <1>a, <2>1, <2>3 DEF MailsAreRecorded
<1>10. CASE UNCHANGED vars
  BY <1>a, <1>10 DEF vars, MailsAreRecorded, UnmarkedMeansUnwarned
<1> QED
  BY <1>1, <1>2, <1>3, <1>4, <1>5, <1>6, <1>7, <1>8, <1>9, <1>10 DEF Next, Command, Users

\* Every warning about to be mailed to an undisturbed network is recorded,
\* killed commands included.
THEOREM MailsAreRecordedHolds == Spec => []MailsAreRecorded
<1>1. MailInv => MailsAreRecorded
  BY DEF MailInv
<1> QED
  BY <1>1, InitMailInv, NextMailInv, PTL DEF Spec

\* No run writes to an undisturbed network again while the flagging it was
\* warned of lasts, killed commands included.
THEOREM WarnedOnceHolds == Spec => WarnedOnce
<1>1. MailInv => \A n \in Undisturbed : n \in outbox /\ warned'[n] = 0 => warned[n] = None
  BY DEF MailInv
<1>2. MailInv /\ [Next]_vars
        => [\A n \in Undisturbed : n \in outbox /\ warned'[n] = 0 => warned[n] = None]_vars
  BY <1>1
<1> QED
  BY <1>2, InitMailInv, NextMailInv, PTL DEF Spec, WarnedOnce

===========================================================================
