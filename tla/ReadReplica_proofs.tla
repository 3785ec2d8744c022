------------------------ MODULE ReadReplica_proofs ------------------------
(* The theorems about ReadReplica, for every number of browsers, requests  *)
(* and writes, and every lag shorter than the life of the cookie.          *)
EXTENDS ReadReplica, TLAPS

LEMMA CommitType ==
    ASSUME TypeOK, Commit
    PROVE  /\ primary + 1 \in Versions
           /\ primary' \in Versions
           /\ committedAt' \in [Versions -> Nat]
<1>1. primary + 1 \in Versions
  BY ReplicaAssumption DEF TypeOK, Commit, Versions
<1>2. QED BY <1>1 DEF TypeOK, Commit

LEMMA TypeStep == TypeOK /\ [Next]_vars => TypeOK'
<1> SUFFICES ASSUME TypeOK, [Next]_vars PROVE TypeOK'
  OBVIOUS
<1> USE ReplicaAssumption DEF TypeOK, Versions, RequestState, Idle, Active
<1>1. ASSUME NEW r \in Requests, NEW c \in Clients, NEW safe \in BOOLEAN,
             Begin(r, c, safe)
      PROVE  TypeOK'
  <2>1. [phase |-> "active", client |-> c, safe |-> safe,
         useReplica |-> safe /\ clock >= pinnedUntil[c],
         wrote |-> FALSE, written |-> 0,
         owed |-> acked[c], saw |-> acked[c]] \in RequestState
    OBVIOUS
  <2>2. QED BY <1>1, <2>1 DEF Begin
<1>2. ASSUME NEW r \in Requests, Write(r) PROVE TypeOK'
  <2>0. primary + 1 \in Versions
    BY <1>2 DEF Write, Commit
  <2>1. req[r] \in RequestState
    BY <1>2 DEF Write
  <2>2. [req[r] EXCEPT !.wrote = TRUE, !.written = primary + 1] \in RequestState
    BY <2>0, <2>1
  <2>3. req' \in [Requests -> RequestState \cup {Idle}]
    BY <1>2, <2>1, <2>2 DEF Write
  <2>4. QED BY <1>2, <2>3, CommitType DEF Write
<1>3. CASE UndetectedWrite
  BY <1>3, CommitType DEF UndetectedWrite
<1>4. ASSUME NEW r \in Requests, Read(r) \/ ReadPrimary(r) PROVE TypeOK'
  <2>1. PICK v \in Versions : req' = [req EXCEPT ![r].saw = v]
    BY <1>4 DEF Read, ReadPrimary, ReadFrom
  <2>2. req[r] \in RequestState
    BY <1>4 DEF Read, ReadPrimary
  <2>3. QED BY <1>4, <2>1, <2>2 DEF Read, ReadPrimary
<1>5. ASSUME NEW r \in Requests, Respond(r) PROVE TypeOK'
  <2>1. req[r] \in RequestState
    BY <1>5 DEF Respond
  <2>2. /\ UNCHANGED <<clock, primary, replica, committedAt>>
        /\ req' = [req EXCEPT ![r] = Idle]
    BY <1>5 DEF Respond
  <2>3. pinnedUntil' \in [Clients -> Nat]
    <3>1. CASE req[r].wrote
      <4>1. pinnedUntil' = [pinnedUntil EXCEPT ![req[r].client] = clock + PinMaxAge]
        BY <1>5, <3>1 DEF Respond
      <4>2. clock + PinMaxAge \in Nat
        OBVIOUS
      <4>3. QED BY <2>1, <4>1, <4>2
    <3>2. QED BY <1>5, <3>1 DEF Respond
  <2>4. acked' \in [Clients -> Versions]
    <3>1. CASE req[r].wrote
      <4>1. PICK v \in Versions : acked' = [acked EXCEPT ![req[r].client] = v]
        <5>1. acked' = [acked EXCEPT ![req[r].client] =
                          IF req[r].written > @ THEN req[r].written ELSE @]
          BY <1>5, <3>1 DEF Respond
        <5>2. req[r].written \in Versions /\ acked[req[r].client] \in Versions
          BY <2>1
        <5>3. CASE req[r].written > acked[req[r].client]
          BY <5>1, <5>2, <5>3
        <5>4. CASE ~(req[r].written > acked[req[r].client])
          BY <5>1, <5>2, <5>4
        <5>5. QED BY <5>3, <5>4
      <4>2. QED BY <2>1, <4>1
    <3>2. QED BY <1>5, <3>1 DEF Respond
  <2>5. QED BY <2>2, <2>3, <2>4
<1>6. ASSUME NEW r \in Requests, LoseResponse(r) PROVE TypeOK'
  BY <1>6 DEF LoseResponse
<1>7. CASE Replicate
  BY <1>7 DEF Replicate
<1>8. CASE Tick
  BY <1>8 DEF Tick
<1>9. CASE UNCHANGED vars
  BY <1>9 DEF vars
<1>10. QED
  BY <1>1, <1>2, <1>3, <1>4, <1>5, <1>6, <1>7, <1>8, <1>9 DEF Next

(* Every state of the routing middleware's model is well typed. *)
THEOREM TypeCorrect == Spec => []TypeOK
<1>1. Init => TypeOK
  BY ReplicaAssumption DEF Init, TypeOK, Versions, Idle
<1>2. QED
  BY <1>1, TypeStep, PTL DEF Spec

-----------------------------------------------------------------------------
LEMMA InitInv == Init => IInv
  BY ReplicaAssumption
     DEF Init, IInv, TypeOK, Versions, Idle, LagBounded, PinCoversAcked,
         RoutedSafely, ReadYourWrites, Active

(* A pin that has expired is older than any write the replica may lack. *)
LEMMA ExpiredPin ==
    ASSUME TypeOK, LagBounded, PinCoversAcked
    PROVE  ExpiredPinIsReplicated
<1> SUFFICES ASSUME NEW c \in Clients, clock >= pinnedUntil[c],
                    acked[c] > replica
             PROVE  FALSE
  BY DEF TypeOK, Versions, ExpiredPinIsReplicated
<1>1. /\ acked[c] \in Versions
      /\ acked[c] > 0
      /\ committedAt[acked[c]] \in Nat
  BY DEF TypeOK, Versions
<1>2. clock <= committedAt[acked[c]] + MaxLag
  BY <1>1 DEF LagBounded, PinCoversAcked
<1>3. clock >= committedAt[acked[c]] + PinMaxAge
  BY <1>1, ReplicaAssumption DEF PinCoversAcked, TypeOK
<1>4. QED BY <1>1, <1>2, <1>3, ReplicaAssumption DEF TypeOK

LEMMA CommitInv ==
    ASSUME IInv, Commit, UNCHANGED <<clock, replica, pinnedUntil, acked>>
    PROVE  replica' <= primary' /\ LagBounded' /\ PinCoversAcked'
<1> USE ReplicaAssumption DEF IInv, TypeOK
<1>1. /\ primary' = primary + 1
      /\ committedAt' = [committedAt EXCEPT ![primary + 1] = clock]
      /\ primary + 1 \in Versions
  BY CommitType DEF Commit
<1>2. replica' <= primary'
  BY <1>1 DEF Versions
<1>3. LagBounded'
  <2> SUFFICES ASSUME NEW v \in Versions, v <= primary'
               PROVE  /\ committedAt'[v] <= clock
                      /\ v > replica => clock <= committedAt'[v] + MaxLag
    BY DEF LagBounded, Versions
  <2>1. CASE v = primary + 1
    BY <2>1, <1>1
  <2>2. CASE v # primary + 1
    BY <2>2, <1>1 DEF LagBounded, Versions
  <2>3. QED BY <2>1, <2>2
<1>4. PinCoversAcked'
  <2> SUFFICES ASSUME NEW c \in Clients
               PROVE  /\ acked[c] <= primary'
                      /\ acked[c] > 0 => pinnedUntil[c] >= committedAt'[acked[c]] + PinMaxAge
    BY DEF PinCoversAcked
  <2>1. acked[c] # primary + 1 /\ acked[c] \in Versions
    BY DEF PinCoversAcked, Versions
  <2>2. QED BY <1>1, <2>1 DEF PinCoversAcked, Versions
<1>5. QED BY <1>2, <1>3, <1>4

LEMMA StepInv == IInv /\ [Next]_vars => IInv'
<1> SUFFICES ASSUME IInv, [Next]_vars PROVE IInv'
  OBVIOUS
<1>t. TypeOK /\ TypeOK'
  BY TypeStep DEF IInv
<1> USE ReplicaAssumption
<1>1. ASSUME NEW r \in Requests, NEW c \in Clients, NEW safe \in BOOLEAN,
             Begin(r, c, safe)
      PROVE  IInv'
  <2>1. /\ UNCHANGED <<clock, primary, replica, committedAt, pinnedUntil, acked>>
        /\ replica' <= primary' /\ LagBounded' /\ PinCoversAcked'
    BY <1>1 DEF Begin, IInv, LagBounded, PinCoversAcked
  <2>2. clock >= pinnedUntil[c] => acked[c] <= replica
    BY ExpiredPin DEF IInv, ExpiredPinIsReplicated
  <2>3. acked[c] \in Versions /\ acked[c] <= primary
    BY DEF IInv, PinCoversAcked, TypeOK
  <2>4. RoutedSafely' /\ ReadYourWrites'
    <3> SUFFICES ASSUME NEW q \in Requests, Active(q)'
                 PROVE  /\ req'[q].written <= primary
                        /\ req'[q].owed <= primary
                        /\ req'[q].useReplica => req'[q].owed <= replica
                        /\ req'[q].saw >= req'[q].owed
      BY <2>1 DEF RoutedSafely, ReadYourWrites
    <3>1. CASE q = r
      <4>1. req'[q] = [phase |-> "active", client |-> c, safe |-> safe,
                       useReplica |-> safe /\ clock >= pinnedUntil[c],
                       wrote |-> FALSE, written |-> 0,
                       owed |-> acked[c], saw |-> acked[c]]
        BY <1>1, <1>t, <3>1 DEF Begin, TypeOK
      <4>2. primary \in Nat /\ acked[c] \in Nat
        BY <1>t, <2>3 DEF TypeOK, Versions
      <4>3. /\ req'[q].written = 0
            /\ req'[q].owed = acked[c]
            /\ req'[q].saw = acked[c]
        BY <4>1
      <4>4. req'[q].useReplica => clock >= pinnedUntil[c]
        <5> DEFINE flag == safe /\ clock >= pinnedUntil[c]
        <5>1. req'[q] = [phase |-> "active", client |-> c, safe |-> safe,
                         useReplica |-> flag, wrote |-> FALSE, written |-> 0,
                         owed |-> acked[c], saw |-> acked[c]]
          BY <4>1
        <5> HIDE DEF flag
        <5>2. req'[q].useReplica = flag
          BY <5>1
        <5>3. QED BY <5>2 DEF flag
      <4>5. QED BY <2>2, <2>3, <4>2, <4>3, <4>4
    <3>2. CASE q # r
      <4>1. req'[q] = req[q]
        BY <1>1, <1>t, <3>2 DEF Begin, TypeOK
      <4>2. QED BY <4>1 DEF IInv, RoutedSafely, ReadYourWrites, Active
    <3>3. QED BY <3>1, <3>2
  <2>5. QED BY <1>t, <2>1, <2>4 DEF IInv
<1>2. ASSUME NEW r \in Requests, Write(r) PROVE IInv'
  <2>1. /\ Commit
        /\ UNCHANGED <<clock, replica, pinnedUntil, acked>>
        /\ Active(r)
    BY <1>2 DEF Write
  <2>2. replica' <= primary' /\ LagBounded' /\ PinCoversAcked'
    BY <2>1, CommitInv
  <2>3. req[r] \in RequestState
    BY <2>1 DEF IInv, TypeOK, Active, Idle
  <2>4. RoutedSafely' /\ ReadYourWrites'
    <3>0. /\ primary \in Nat
          /\ primary' = primary + 1
          /\ req' = [req EXCEPT ![r].wrote = TRUE, ![r].written = primary + 1]
      BY <1>2, <1>t, <2>1 DEF Write, Commit, TypeOK, Versions
    <3> SUFFICES ASSUME NEW q \in Requests, Active(q)'
                 PROVE  /\ req'[q].written <= primary + 1
                        /\ req'[q].owed <= primary + 1
                        /\ req'[q].useReplica => req'[q].owed <= replica
                        /\ req'[q].saw >= req'[q].owed
      BY <2>1, <3>0 DEF RoutedSafely, ReadYourWrites
    <3>1. CASE q = r
      <4>1. req'[q] = [req[q] EXCEPT !.wrote = TRUE, !.written = primary + 1]
        BY <1>t, <2>3, <3>0, <3>1 DEF TypeOK
      <4>2. /\ req'[q].written = primary + 1
            /\ req'[q].owed = req[q].owed
            /\ req'[q].saw = req[q].saw
            /\ req'[q].useReplica = req[q].useReplica
        BY <2>3, <3>1, <4>1 DEF RequestState
      <4>3. req[q].owed \in Nat
        BY <2>3, <3>1 DEF RequestState, Versions
      <4>4. QED
        BY <2>1, <3>0, <3>1, <4>2, <4>3 DEF IInv, RoutedSafely, ReadYourWrites
    <3>2. CASE q # r
      <4>1. req'[q] = req[q]
        BY <1>t, <3>0, <3>2 DEF TypeOK
      <4>2. Active(q)
        BY <4>1 DEF Active
      <4>3. req[q] \in RequestState
        BY <1>t, <4>2 DEF TypeOK, Active, Idle
      <4>4. req[q].owed \in Nat /\ req[q].written \in Nat
        BY <4>3 DEF RequestState, Versions
      <4>5. QED
        BY <3>0, <4>1, <4>2, <4>4 DEF IInv, RoutedSafely, ReadYourWrites
    <3>3. QED BY <3>1, <3>2
  <2>5. QED BY <1>t, <2>2, <2>4 DEF IInv
<1>3. CASE UndetectedWrite
  <2>1. Commit /\ UNCHANGED <<clock, replica, pinnedUntil, acked, req>>
    BY <1>3 DEF UndetectedWrite
  <2>2. replica' <= primary' /\ LagBounded' /\ PinCoversAcked'
    BY <2>1, CommitInv
  <2>3. RoutedSafely' /\ ReadYourWrites'
    BY <1>t, <2>1 DEF Commit, IInv, RoutedSafely, ReadYourWrites, Active,
                      TypeOK, Versions, RequestState, Idle
  <2>4. QED BY <1>t, <2>2, <2>3 DEF IInv
<1>4. ASSUME NEW r \in Requests, Read(r) \/ ReadPrimary(r) PROVE IInv'
  <2>1. /\ Active(r)
        /\ UNCHANGED <<clock, primary, replica, committedAt, pinnedUntil, acked>>
        /\ req' = [req EXCEPT ![r].saw = ReadFrom(r)] \/ req' = [req EXCEPT ![r].saw = primary]
    BY <1>4 DEF Read, ReadPrimary
  <2>2. replica' <= primary' /\ LagBounded' /\ PinCoversAcked'
    BY <2>1 DEF IInv, LagBounded, PinCoversAcked
  <2>3. req[r] \in RequestState
    BY <2>1 DEF IInv, TypeOK, Active, Idle
  <2>4. ReadFrom(r) >= req[r].owed /\ primary >= req[r].owed
    BY <2>1, <2>3 DEF ReadFrom, IInv, RoutedSafely, TypeOK, Versions, RequestState
  <2>5. RoutedSafely' /\ ReadYourWrites'
    BY <1>t, <2>1, <2>3, <2>4
       DEF IInv, RoutedSafely, ReadYourWrites, Active, TypeOK, RequestState, Idle
  <2>6. QED BY <1>t, <2>2, <2>5 DEF IInv
<1>5. ASSUME NEW r \in Requests, Respond(r) PROVE IInv'
  <2> DEFINE c == req[r].client
  <2>1. /\ Active(r)
        /\ UNCHANGED <<clock, primary, replica, committedAt>>
        /\ req' = [req EXCEPT ![r] = Idle]
    BY <1>5 DEF Respond
  <2>2. req[r] \in RequestState
    BY <2>1 DEF IInv, TypeOK, Active, Idle
  <2>3. replica' <= primary' /\ LagBounded'
    BY <2>1 DEF IInv, LagBounded
  <2>4. PinCoversAcked'
    <3>1. CASE ~req[r].wrote
      BY <1>5, <2>1, <3>1 DEF Respond, IInv, PinCoversAcked
    <3>2. CASE req[r].wrote
      <4>1. /\ pinnedUntil' = [pinnedUntil EXCEPT ![c] = clock + PinMaxAge]
            /\ acked' = [acked EXCEPT ![c] =
                            IF req[r].written > @ THEN req[r].written ELSE @]
        BY <1>5, <3>2 DEF Respond
      <4>2. acked'[c] \in Versions /\ acked'[c] <= primary
        BY <2>1, <2>2, <4>1
           DEF IInv, RoutedSafely, PinCoversAcked, TypeOK, RequestState, Versions
      <4>3. committedAt[acked'[c]] <= clock /\ committedAt[acked'[c]] \in Nat
        BY <4>2 DEF IInv, LagBounded, TypeOK
      <4>4. pinnedUntil'[c] >= committedAt[acked'[c]] + PinMaxAge
        BY <2>2, <4>1, <4>3 DEF IInv, TypeOK, RequestState
      <4>5. ASSUME NEW d \in Clients, d # c
            PROVE  acked'[d] = acked[d] /\ pinnedUntil'[d] = pinnedUntil[d]
        BY <2>2, <4>1, <4>5 DEF IInv, TypeOK
      <4>6. QED
        BY <2>1, <4>2, <4>4, <4>5 DEF IInv, PinCoversAcked
    <3>3. QED BY <3>1, <3>2
  <2>5. RoutedSafely' /\ ReadYourWrites'
    BY <2>1 DEF IInv, RoutedSafely, ReadYourWrites, Active, TypeOK, Idle
  <2>6. QED BY <1>t, <2>3, <2>4, <2>5 DEF IInv
<1>6. ASSUME NEW r \in Requests, LoseResponse(r) PROVE IInv'
  BY <1>6, <1>t DEF LoseResponse, IInv, LagBounded, PinCoversAcked, RoutedSafely,
                   ReadYourWrites, Active, TypeOK, Idle
<1>7. CASE Replicate
  BY <1>7, <1>t DEF Replicate, IInv, LagBounded, PinCoversAcked, RoutedSafely,
                   ReadYourWrites, Active, TypeOK, Versions, RequestState, Idle
<1>8. CASE Tick
  <2>1. LagBounded'
    BY <1>8, <1>t DEF Tick, IInv, LagBounded, TypeOK, Versions
  <2>2. QED
    BY <1>8, <1>t, <2>1 DEF Tick, IInv, PinCoversAcked, RoutedSafely,
                   ReadYourWrites, Active
<1>9. CASE UNCHANGED vars
  BY <1>9 DEF vars, IInv, TypeOK, LagBounded, PinCoversAcked, RoutedSafely,
              ReadYourWrites, Active
<1>10. QED
  BY <1>1, <1>2, <1>3, <1>4, <1>5, <1>6, <1>7, <1>8, <1>9 DEF Next

(* The pin cookie gives every browser read-your-own-writes, whatever the   *)
(* number of workers, as long as the replica lags by less than its life.   *)
THEOREM ReadYourWritesHolds == Spec => []ReadYourWrites
<1>1. IInv => ReadYourWrites
  BY DEF IInv
<1>2. QED BY <1>1, InitInv, StepInv, PTL DEF Spec

(* A browser whose cookie has expired finds all its writes on the replica. *)
THEOREM ExpiredPinIsReplicatedHolds == Spec => []ExpiredPinIsReplicated
<1>1. IInv => ExpiredPinIsReplicated
  BY ExpiredPin DEF IInv
<1>2. QED BY <1>1, InitInv, StepInv, PTL DEF Spec
=============================================================================
