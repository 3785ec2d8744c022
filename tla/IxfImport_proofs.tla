-------------------------- MODULE IxfImport_proofs --------------------------
(***************************************************************************)
(* The theorems about the IX-F importer: about a run, for every set of     *)
(* networks and addresses, every feed, every protocol support and every    *)
(* bound (IxfImport), and about the jobs that runs are part of, for every  *)
(* set of exchanges, every number of workers and every limit               *)
(* (IxfImportJobs).                                                        *)
(***************************************************************************)
EXTENDS IxfImport, IxfImportJobs, FiniteSetTheorems, WellFoundedInduction,
        TLAPS

-----------------------------------------------------------------------------
(* Steps taken one after the other.                                        *)

(* Induction over the natural numbers, for a set. *)
LEMMA SetInduction ==
    ASSUME NEW S, S \subseteq Nat, 0 \in S, \A n \in S : n + 1 \in S
    PROVE  S = Nat
<1> DEFINE T == Nat \ S
<1>1. SUFFICES ASSUME T # {} PROVE FALSE
  OBVIOUS
<1>2. \E x \in T : \A y \in T : ~ (<<y, x>> \in OpToRel(<, Nat))
  BY <1>1, NatLessThanWellFounded, WFMin
<1>3. \E x \in T : \A y \in T : ~ (y < x)
  BY <1>2 DEF OpToRel
<1>4. PICK x \in T : \A y \in T : ~ (y < x)
  BY <1>3
<1>5. x - 1 \in T
  BY <1>4
<1>6. QED BY <1>4, <1>5

(* G[n] is the n-th step.  When the steps are functions on X, they can be  *)
(* taken one after the other ...                                           *)
Iterates(f, s, L, G) == f = [n \in 0..L |-> IF n = 0 THEN s ELSE G[n][f[n - 1]]]

LEMMA IterationExists ==
    ASSUME NEW X, NEW s \in X, NEW L \in Nat,
           NEW G, \A n \in 1..L, x \in X : G[n][x] \in X
    PROVE  \E f : Iterates(f, s, L, G)
<1> DEFINE Good(n, f) == /\ f \in [0..n -> X]
                         /\ f[0] = s
                         /\ \A i \in 1..n : f[i] = G[i][f[i - 1]]
           S == {n \in Nat : n <= L => \E f : Good(n, f)}
<1>1. 0 \in S
  <2>1. Good(0, [n \in 0..0 |-> s])
    OBVIOUS
  <2>2. QED BY <2>1
<1>2. ASSUME NEW n \in S PROVE n + 1 \in S
  <2>1. SUFFICES ASSUME n + 1 <= L PROVE \E f : Good(n + 1, f)
    BY <1>2
  <2>2. PICK f : Good(n, f)
    BY <1>2, <2>1
  <2>3. f[n] \in X /\ n + 1 \in 1..L
    BY <1>2, <2>1, <2>2
  <2>4. G[n + 1][f[n]] \in X
    BY <2>3
  <2> DEFINE g == [i \in 0..(n + 1) |-> IF i = n + 1 THEN G[n + 1][f[n]] ELSE f[i]]
  <2>5. \A i \in 0..n : g[i] = f[i] /\ f[i] \in X
    BY <1>2, <2>2
  <2>6. g[n + 1] = G[n + 1][f[n]]
    BY <1>2
  <2>7. g \in [0..(n + 1) -> X]
    BY <1>2, <2>2, <2>4
  <2>8. ASSUME NEW i \in 1..(n + 1) PROVE g[i] = G[i][g[i - 1]]
    <3>1. CASE i = n + 1
      BY <3>1, <2>5, <2>6, <1>2
    <3>2. CASE i # n + 1
      <4>1. i \in 1..n /\ i - 1 \in 0..n /\ i \in 0..n
        BY <3>2, <1>2
      <4>2. QED BY <4>1, <2>2, <2>5
    <3>3. QED BY <3>1, <3>2
  <2>9. g[0] = s
    BY <1>2, <2>2, <2>5
  <2>10. Good(n + 1, g)
    BY <2>7, <2>8, <2>9
  <2>11. QED BY <2>10
<1>3. L \in S
  <2> HIDE DEF S
  <2>1. S \subseteq Nat
    BY DEF S
  <2>2. QED BY <1>1, <1>2, <2>1, SetInduction
<1>4. PICK f : Good(L, f)
  BY <1>3
<1>5. Iterates(f, s, L, G)
  <2>1. f = [n \in 0..L |-> f[n]]
    BY <1>4
  <2>2. ASSUME NEW n \in 0..L PROVE f[n] = IF n = 0 THEN s ELSE G[n][f[n - 1]]
    BY <1>4
  <2>3. QED BY <2>1, <2>2 DEF Iterates
<1>6. QED BY <1>5

(* ... and they do not leave X.                                            *)
LEMMA IterationStays ==
    ASSUME NEW X, NEW L \in Nat, NEW f, f[0] \in X,
           \A n \in 1..L : f[n - 1] \in X => f[n] \in X
    PROVE  f[L] \in X
<1> DEFINE S == {n \in Nat : n <= L => f[n] \in X}
<1>1. 0 \in S
  OBVIOUS
<1>2. ASSUME NEW n \in S PROVE n + 1 \in S
  <2>1. SUFFICES ASSUME n + 1 <= L PROVE f[n + 1] \in X
    BY <1>2
  <2>2. f[n] \in X /\ n + 1 \in 1..L /\ (n + 1) - 1 = n
    BY <1>2, <2>1
  <2>3. QED BY <2>2
<1>3. QED
  <2> HIDE DEF S
  <2>1. S \subseteq Nat
    BY DEF S
  <2>2. L \in S
    BY <1>1, <1>2, <2>1, SetInduction
  <2>3. QED BY <2>2 DEF S

-----------------------------------------------------------------------------
(* The rows, and what applying one proposal makes of them.                 *)

LEMMA KeysFinite == IsFiniteSet(Key)
<1> DEFINE T == Asns \X ((V4 \cup {None}) \X (V6 \cup {None}))
           f == [k \in Key |-> <<k.asn, <<k.v4, k.v6>>>>]
<1>1. IsFiniteSet(Asns) /\ IsFiniteSet(V4 \cup {None}) /\ IsFiniteSet(V6 \cup {None})
  BY ImportAssumption, FS_AddElement
<1>2. IsFiniteSet(T)
  BY <1>1, FS_Product
<1>3. f \in [Key -> T]
  BY DEF Key
<1>4. ASSUME NEW k \in Key, NEW l \in Key, f[k] = f[l] PROVE k = l
  BY <1>4 DEF Key
<1> HIDE DEF f, T
<1>5. f \in Injection(Key, T)
  BY <1>3, <1>4 DEF Injection, IsInjective
<1>6. QED BY <1>2, <1>5, FS_Injection

(* The table of netixlans. *)
Table == Seq(Netixlan)

LEMMA KeyOfType ==
    ASSUME NEW r, r.asn \in Asns, r.v4 \in V4 \cup {None}, r.v6 \in V6 \cup {None}
    PROVE  KeyOf(r) \in Key
  BY DEF KeyOf, Key

LEMMA RowType == ASSUME NEW R \in Table, NEW i \in DOMAIN R PROVE R[i] \in Netixlan
  BY DEF Table

LEMMA MapRows ==
    ASSUME NEW R \in Table, NEW f, f = [i \in DOMAIN R |-> f[i]],
           \A i \in DOMAIN R : f[i] \in Netixlan
    PROVE  f \in Table
<1>1. DOMAIN R = 1..Len(R) /\ Len(R) \in Nat
  BY DEF Table
<1>2. f \in [1..Len(R) -> Netixlan]
  BY <1>1
<1>3. QED BY <1>1, <1>2 DEF Table

LEMMA SetRow ==
    ASSUME NEW R \in Table, NEW i \in DOMAIN R, NEW r \in Netixlan
    PROVE  [R EXCEPT ![i] = r] \in Table
  BY DEF Table

LEMMA AddRow ==
    ASSUME NEW R \in Table, NEW r \in Netixlan
    PROVE  Append(R, r) \in Table
  BY DEF Table

LEMMA PutType ==
    ASSUME NEW R \in Table, NEW i, NEW r \in Netixlan
    PROVE  Put(R, i, r) \in Table
  BY SetRow, AddRow DEF Put

LEMMA NoAddress ==
    ASSUME NEW r \in Netixlan
    PROVE  /\ [r EXCEPT !.v4 = None] \in Netixlan
           /\ [r EXCEPT !.v6 = None] \in Netixlan
           /\ [r EXCEPT !.status = "deleted"] \in Netixlan
  BY DEF Netixlan

LEMMA ClaimTypes ==
    ASSUME NEW R \in Table, NEW a, NEW v
    PROVE  Claim4(R, a, v) \in Table /\ Claim6(R, a, v) \in Table
<1>1. \A i \in DOMAIN R : R[i] \in Netixlan
  BY RowType
<1>2. Claim4(R, a, v) \in Table
  <2> DEFINE f == Claim4(R, a, v)
  <2>1. f = [i \in DOMAIN R |-> f[i]] /\ \A i \in DOMAIN R : f[i] \in Netixlan
    BY <1>1, NoAddress DEF Claim4
  <2> HIDE DEF f
  <2>2. QED BY <2>1, MapRows DEF f
<1>3. Claim6(R, a, v) \in Table
  <2> DEFINE f == Claim6(R, a, v)
  <2>1. f = [i \in DOMAIN R |-> f[i]] /\ \A i \in DOMAIN R : f[i] \in Netixlan
    BY <1>1, NoAddress DEF Claim6
  <2> HIDE DEF f
  <2>2. QED BY <2>1, MapRows DEF f
<1>4. QED BY <1>2, <1>3

LEMMA ClaimedType ==
    ASSUME NEW R \in Table, NEW info
    PROVE  Claimed(R, info) \in Table
<1> DEFINE i == Target(R, info)
           reset == [j \in DOMAIN R |->
                       IF Holder4(R, info.v4) # {} /\ j \in Holder6(R, info.v6) \ {i}
                         THEN [R[j] EXCEPT !.v6 = None] ELSE R[j]]
           claimed4 == IF info.v4 = None \/ i \in Holder4(R, info.v4) THEN reset
                       ELSE Claim4(reset, info.asn, info.v4)
<1>1. reset \in Table
  <2> HIDE DEF i
  <2>1. \A j \in DOMAIN R : R[j] \in Netixlan
    BY RowType
  <2>2. reset = [j \in DOMAIN R |-> reset[j]] /\ \A j \in DOMAIN R : reset[j] \in Netixlan
    BY <2>1, NoAddress
  <2> HIDE DEF reset
  <2>3. QED BY <2>2, MapRows
<1> HIDE DEF reset, i
<1>2. claimed4 \in Table
  BY <1>1, ClaimTypes
<1> HIDE DEF claimed4
<1>3. Claim6(claimed4, info.asn, info.v6) \in Table
  BY <1>2, ClaimTypes
<1>4. Claimed(R, info) = IF info.v6 = None \/ i \in Holder6(R, info.v6) THEN claimed4
                         ELSE Claim6(claimed4, info.asn, info.v6)
  BY DEF Claimed, claimed4, reset, i
<1>5. QED BY <1>2, <1>3, <1>4

(* What applying a proposal may come to. *)
Verdicts == {"noop", "add", "modify", "delete", "invalid", "crash"}
Outcome == [rows : Table, verdict : Verdicts]

LEMMA AddNetixlanType ==
    ASSUME NEW R \in Table, NEW info \in Netixlan
    PROVE  AddNetixlan(R, info) \in Outcome
<1>1. Claimed(R, info) \in Table
  BY ClaimedType
<1>2. Put(Claimed(R, info), Target(R, info), info) \in Table
  BY <1>1, PutType
<1>3. QED BY <1>1, <1>2 DEF AddNetixlan, Outcome, Verdicts

LEMMA AddInfoType ==
    ASSUME NEW R \in Table, NEW m \in Instance, NEW found, found \subseteq DOMAIN R
    PROVE  AddInfo(R, m, found) \in Netixlan
<1> DEFINE from == IF found = {} THEN m.key ELSE KeyOf(R[CHOOSE i \in found : TRUE])
<1>1. m.key \in Key /\ m.now.oper \in Operational
  BY DEF Instance, Proposal
<1>2. from \in Key
  <2>1. CASE found # {}
    <3>1. (CHOOSE i \in found : TRUE) \in DOMAIN R
      BY <2>1
    <3>2. R[CHOOSE i \in found : TRUE] \in Netixlan
      BY <3>1, RowType
    <3>3. QED BY <2>1, <3>2, KeyOfType DEF Netixlan
  <2>2. QED BY <1>1, <2>1
<1>3. from.v4 \in V4 \cup {None} /\ from.v6 \in V6 \cup {None} /\ m.key.asn \in Asns
  BY <1>1, <1>2 DEF Key
<1> HIDE DEF from
<1>4. AddInfo(R, m, found) =
        [asn |-> m.key.asn,
         v4 |-> IF net[m.key.asn].p4 THEN from.v4 ELSE None,
         v6 |-> IF net[m.key.asn].p6 THEN from.v6 ELSE None,
         oper |-> m.now.oper, here |-> TRUE, status |-> "ok"]
  BY DEF AddInfo, from
<1>5. QED BY <1>1, <1>3, <1>4 DEF Netixlan

LEMMA InsertDeletedType ==
    ASSUME NEW R \in Table, NEW m \in Instance
    PROVE  InsertDeleted(R, m) \in Outcome
<1> DEFINE r == [asn |-> m.key.asn, v4 |-> m.key.v4, v6 |-> m.key.v6,
                 oper |-> m.now.oper, here |-> TRUE, status |-> "deleted"]
<1>1. r \in Netixlan
  BY DEF Instance, Key, Proposal, Netixlan
<1>2. Append(R, r) \in Table
  BY <1>1, AddRow
<1> HIDE DEF r
<1>3. InsertDeleted(R, m) = IF Collides(R, 0, r) THEN [rows |-> R, verdict |-> "crash"]
                            ELSE [rows |-> Append(R, r), verdict |-> "delete"]
  BY DEF InsertDeleted, r
<1>4. QED BY <1>2, <1>3 DEF Outcome, Verdicts

LEMMA ApplyOneType ==
    ASSUME NEW R \in Table, NEW m \in Instance, NEW reassigned
    PROVE  ApplyOne(R, m, reassigned) \in Outcome
<1> DEFINE found == Matching(R, m.key, m.now.data = "gone")
           i == CHOOSE i \in found : TRUE
           info == AddInfo(R, m, found)
           absent == IF found = {} THEN TRUE ELSE ~Active(R[i])
<1>1. found \subseteq DOMAIN R
  BY DEF Matching
<1>2. info \in Netixlan
  BY <1>1, AddInfoType
<1>3. AddNetixlan(R, info) \in Outcome
  BY <1>2, AddNetixlanType
<1>4. InsertDeleted(R, m) \in Outcome
  BY InsertDeletedType
<1>5. ASSUME ~absent
      PROVE  /\ [R EXCEPT ![i].status = "deleted"] \in Table
             /\ [R EXCEPT ![i].oper = m.now.oper] \in Table
  <2>1. i \in DOMAIN R
    BY <1>1, <1>5
  <2>2. R[i] \in Netixlan
    BY <2>1, RowType
  <2>3. m.now.oper \in Operational
    BY DEF Instance, Proposal
  <2> HIDE DEF i
  <2>4. /\ [R[i] EXCEPT !.status = "deleted"] \in Netixlan
        /\ [R[i] EXCEPT !.oper = m.now.oper] \in Netixlan
    BY <2>2, <2>3 DEF Netixlan
  <2>5. QED BY <2>1, <2>4, SetRow
<1>6. m.now.data \in {"member", "gone"}
  BY DEF Instance, Proposal
<1>7. ApplyOne(R, m, reassigned) =
        IF Cardinality(found) > 1 THEN [rows |-> R, verdict |-> "crash"] ELSE
        CASE found = {} /\ m.now.data = "gone" /\ reassigned -> InsertDeleted(R, m)
          [] absent /\ m.now.data = "gone" /\ ~(found = {} /\ reassigned) ->
               [rows |-> R, verdict |-> "noop"]
          [] ~absent /\ m.now.data = "gone" ->
               [rows |-> [R EXCEPT ![i].status = "deleted"], verdict |-> "delete"]
          [] absent /\ m.now.data = "member" ->
               IF info.v4 = None /\ info.v6 = None
                 THEN [rows |-> R, verdict |-> "noop"]
                 ELSE AddNetixlan(R, info)
          [] ~absent /\ m.now.data = "member" ->
               [rows |-> [R EXCEPT ![i].oper = m.now.oper], verdict |-> "modify"]
  BY DEF ApplyOne
<1> HIDE DEF found, i, info, absent
<1>8. QED BY <1>3, <1>4, <1>5, <1>6, <1>7 DEF Outcome, Verdicts

-----------------------------------------------------------------------------
(* Applying a proposal with its requirements.                              *)

(* A table of proposals. *)
ProposalTable(P) == DOMAIN P \subseteq Key /\ \A k \in DOMAIN P : P[k] \in Proposal

LEMMA FromTableType ==
    ASSUME NEW P, ProposalTable(P), NEW k \in DOMAIN P
    PROVE  FromTable(P, k) \in Instance
  BY DEF ProposalTable, FromTable, Instance, Key

LEMMA DependentsThere == \A P, K : Dependents(P, K) \subseteq DOMAIN P
  BY DEF Dependents

LEMMA ApplyNextType ==
    ASSUME NEW P, ProposalTable(P), NEW m \in Instance, NEW reassigned,
           NEW all, all \subseteq DOMAIN P \cup {m.key},
           NEW s \in [rows : Table, verdict : Verdicts, left : SUBSET all]
    PROVE  ApplyNext(P, m, reassigned, s) \in
             [rows : Table, verdict : Verdicts, left : SUBSET all]
<1> DEFINE ready == {k \in s.left : \A j \in s.left \cap DOMAIN P : P[j].req # k}
           k == CHOOSE k \in ready : TRUE
           done == IF k = m.key THEN ApplyOne(s.rows, m, reassigned)
                   ELSE ApplyOne(s.rows, FromTable(P, k), FALSE)
<1>1. s.rows \in Table /\ s.left \subseteq all
  OBVIOUS
<1>2. ASSUME ready # {} PROVE done \in Outcome
  <2>1. k \in ready
    BY <1>2
  <2>2. k \in DOMAIN P \cup {m.key}
    BY <1>1, <2>1
  <2> HIDE DEF k, ready
  <2>3. CASE k = m.key
    BY <1>1, <2>3, ApplyOneType
  <2>4. CASE k # m.key
    <3>1. FromTable(P, k) \in Instance
      BY <2>2, <2>4, FromTableType
    <3>2. ApplyOne(s.rows, FromTable(P, k), FALSE) \in Outcome
      BY <1>1, <3>1, ApplyOneType
    <3>3. QED BY <2>4, <3>2
  <2>5. QED BY <2>3, <2>4
<1>3. ApplyNext(P, m, reassigned, s) =
        CASE Stopped(s) -> s
          [] ~Stopped(s) /\ ready = {} -> [s EXCEPT !.verdict = "crash"]
          [] ~Stopped(s) /\ ready # {} ->
               [rows |-> done.rows, verdict |-> done.verdict, left |-> s.left \ {k}]
  BY DEF ApplyNext
<1> HIDE DEF ready, k, done
<1>4. QED BY <1>1, <1>2, <1>3 DEF Outcome, Verdicts

(* The proposals that are applied with an object. *)
Applied(P, m) == {m.key} \cup (IF m.saved THEN Dependents(P, {m.key}) ELSE {})

(* The proposals are applied one after the other ...                       *)
LEMMA ApplySteps ==
    ASSUME NEW R, NEW P, ProposalTable(P), NEW m \in Instance, NEW reassigned,
           NEW X, [rows |-> R, verdict |-> "noop", left |-> Applied(P, m)] \in X,
           \A s \in X : ApplyNext(P, m, reassigned, s) \in X
    PROVE  \E applied :
              /\ applied[0] = [rows |-> R, verdict |-> "noop", left |-> Applied(P, m)]
              /\ \A n \in 1..Cardinality(Applied(P, m)) :
                    applied[n] = ApplyNext(P, m, reassigned, applied[n - 1])
              /\ Apply(R, P, m, reassigned) = applied[Cardinality(Applied(P, m))]
              /\ Cardinality(Applied(P, m)) \in Nat /\ IsFiniteSet(Applied(P, m))
<1> DEFINE L == Cardinality(Applied(P, m))
           start == [rows |-> R, verdict |-> "noop", left |-> Applied(P, m)]
           G == [n \in 1..L |-> [s \in X |-> ApplyNext(P, m, reassigned, s)]]
           applied == CHOOSE f : f = [n \in 0..L |-> IF n = 0 THEN start
                                        ELSE ApplyNext(P, m, reassigned, f[n - 1])]
<1>1. L \in Nat /\ IsFiniteSet(Applied(P, m))
  <2>1. Applied(P, m) \subseteq Key
    BY DependentsThere DEF Applied, ProposalTable, Instance
  <2>2. IsFiniteSet(Applied(P, m))
    BY <2>1, KeysFinite, FS_Subset
  <2>3. QED BY <2>2, FS_CardinalityType
<1>2. start \in X
  OBVIOUS
<1> HIDE DEF L, start
<1>3. \A n \in 1..L, s \in X : G[n][s] \in X
  OBVIOUS
<1>4. PICK f : Iterates(f, start, L, G)
  <2> HIDE DEF G
  <2>1. QED BY <1>1, <1>2, <1>3, IterationExists
<1>5. ASSUME NEW n \in 0..L PROVE f[n] \in X
  <2>1. ASSUME NEW i \in 1..n, f[i - 1] \in X PROVE f[i] \in X
    <3> HIDE DEF G
    <3>1. f[i] = G[i][f[i - 1]] /\ i \in 1..L
      BY <1>1, <1>4 DEF Iterates
    <3>2. QED BY <1>3, <2>1, <3>1
  <2>2. f[0] \in X
    BY <1>1, <1>2, <1>4 DEF Iterates
  <2>3. n \in Nat
    BY <1>1
  <2> QED BY <2>1, <2>2, <2>3, IterationStays
<1>6. f = [n \in 0..L |-> IF n = 0 THEN start
                          ELSE ApplyNext(P, m, reassigned, f[n - 1])]
  <2>1. ASSUME NEW n \in 0..L, n # 0
        PROVE  G[n][f[n - 1]] = ApplyNext(P, m, reassigned, f[n - 1])
    BY <1>1, <1>5, <2>1
  <2>2. QED BY <1>4, <2>1 DEF Iterates
<1>7. applied = [n \in 0..L |-> IF n = 0 THEN start
                                ELSE ApplyNext(P, m, reassigned, applied[n - 1])]
  BY <1>6
<1>8. Apply(R, P, m, reassigned) = applied[L]
  BY DEF Apply, applied, L, start, Applied
<1> HIDE DEF applied
<1>9. applied[0] = start
  BY <1>1, <1>7
<1>10. \A n \in 1..L : applied[n] = ApplyNext(P, m, reassigned, applied[n - 1])
  BY <1>1, <1>7
<1>11. QED BY <1>1, <1>8, <1>9, <1>10 DEF L, start

(* ... and what each of the single applications preserves, all of them do. *)
LEMMA ApplyStays ==
    ASSUME NEW R, NEW P, ProposalTable(P), NEW m \in Instance, NEW reassigned,
           NEW X, [rows |-> R, verdict |-> "noop", left |-> Applied(P, m)] \in X,
           \A s \in X : ApplyNext(P, m, reassigned, s) \in X
    PROVE  Apply(R, P, m, reassigned) \in X
<1> DEFINE L == Cardinality(Applied(P, m))
<1>1. PICK applied :
         /\ applied[0] = [rows |-> R, verdict |-> "noop", left |-> Applied(P, m)]
         /\ \A n \in 1..L : applied[n] = ApplyNext(P, m, reassigned, applied[n - 1])
         /\ Apply(R, P, m, reassigned) = applied[L]
         /\ L \in Nat
  BY ApplySteps
<1> HIDE DEF L
<1>2. ASSUME NEW i \in 1..L, applied[i - 1] \in X PROVE applied[i] \in X
  BY <1>1, <1>2
<1>3. applied[0] \in X
  BY <1>1
<1>4. applied[L] \in X
  BY <1>1, <1>2, <1>3, IterationStays
<1>5. QED BY <1>1, <1>4

LEMMA ApplyType ==
    ASSUME NEW R \in Table, NEW P, ProposalTable(P), NEW m \in Instance, NEW reassigned
    PROVE  /\ Apply(R, P, m, reassigned).rows \in Table
           /\ Apply(R, P, m, reassigned).verdict \in Verdicts
           /\ Apply(R, P, m, reassigned) \in
                [rows : Table, verdict : Verdicts, left : SUBSET Key]
<1> DEFINE X == [rows : Table, verdict : Verdicts, left : SUBSET Applied(P, m)]
<1>1. Applied(P, m) \subseteq DOMAIN P \cup {m.key}
  BY DependentsThere DEF Applied
<1>2. [rows |-> R, verdict |-> "noop", left |-> Applied(P, m)] \in X
  BY DEF Verdicts
<1>3. \A s \in X : ApplyNext(P, m, reassigned, s) \in X
  BY <1>1, ApplyNextType
<1> HIDE DEF X
<1>4. Apply(R, P, m, reassigned) \in X
  BY <1>2, <1>3, ApplyStays
<1>5. Applied(P, m) \subseteq Key
  BY <1>1 DEF ProposalTable, Instance
<1>6. QED BY <1>4, <1>5 DEF X

-----------------------------------------------------------------------------
(* What becomes of the proposals that are not applied.                     *)

LEMMA WithoutType ==
    ASSUME NEW P, ProposalTable(P), NEW K
    PROVE  ProposalTable(Without(P, K)) /\ DOMAIN Without(P, K) \subseteq DOMAIN P
  BY DEF ProposalTable, Without, Restrict

LEMMA StoreType ==
    ASSUME NEW P, ProposalTable(P), NEW m \in Instance
    PROVE  ProposalTable(Store(P, m))
  BY DEF ProposalTable, Store, Instance

LEMMA DedupedType ==
    ASSUME NEW P, ProposalTable(P), NEW k
    PROVE  ProposalTable(Deduped(P, k))
  BY WithoutType DEF Deduped

LEMMA ResolveType ==
    ASSUME NEW P, ProposalTable(P), NEW m
    PROVE  ProposalTable(Resolve(P, m))
  BY WithoutType DEF Resolve

LEMMA InstantiateType ==
    ASSUME NEW P, ProposalTable(P), NEW k \in Key, NEW data \in {"member", "gone"},
           NEW oper \in Operational
    PROVE  Instantiate(P, k, data, oper) \in Instance
<1>1. k.asn \in Asns /\ k.v4 \in V4 \cup {None} /\ k.v6 \in V6 \cup {None}
  BY DEF Key
<1>2. CASE Candidates(P, k) # {}
  <2> DEFINE j == CHOOSE j \in Candidates(P, k) : TRUE
  <2>1. j \in DOMAIN P
    BY <1>2 DEF Candidates
  <2> HIDE DEF j
  <2>2. j \in Key /\ P[j] \in Proposal
    BY <2>1 DEF ProposalTable
  <2>3. [P[j] EXCEPT !.data = data, !.oper = oper] \in Proposal
    BY <2>2 DEF Proposal
  <2>4. Instantiate(P, k, data, oper) =
          [key |-> j, i4 |-> k.v4, i6 |-> k.v6, saved |-> TRUE,
           now |-> [P[j] EXCEPT !.data = data, !.oper = oper], was |-> P[j]]
    BY <1>2 DEF Instantiate, j
  <2>5. QED BY <1>1, <2>2, <2>3, <2>4 DEF Instance
<1>3. CASE Candidates(P, k) = {}
  <2> DEFINE new == [data |-> data, oper |-> oper, req |-> None, error |-> FALSE]
             key == [asn |-> k.asn,
                     v4 |-> IF net[k.asn].p4 \/ data = "gone" THEN k.v4 ELSE None,
                     v6 |-> IF net[k.asn].p6 \/ data = "gone" THEN k.v6 ELSE None]
  <2>1. new \in Proposal
    BY DEF Proposal
  <2>2. key \in Key
    BY <1>1 DEF Key
  <2> HIDE DEF new, key
  <2>3. Instantiate(P, k, data, oper) =
          [key |-> key, i4 |-> k.v4, i6 |-> k.v6, saved |-> FALSE,
           now |-> new, was |-> new]
    BY <1>3 DEF Instantiate, new, key
  <2>4. QED BY <1>1, <2>1, <2>2, <2>3 DEF Instance
<1>4. QED BY <1>2, <1>3

LEMMA WithError ==
    ASSUME NEW m \in Instance, NEW e \in BOOLEAN
    PROVE  [m EXCEPT !.now.error = e] \in Instance
<1>1. [m.now EXCEPT !.error = e] \in Proposal
  BY DEF Instance, Proposal
<1>2. QED BY <1>1 DEF Instance

LEMMA SetConflictType ==
    ASSUME NEW P, ProposalTable(P), NEW m \in Instance
    PROVE  ProposalTable(SetConflict(P, m))
  BY StoreType, WithError DEF SetConflict

LEMMA SetUpdateType ==
    ASSUME NEW P, ProposalTable(P), NEW m \in Instance
    PROVE  ProposalTable(SetUpdate(P, m))
  BY StoreType DEF SetUpdate

LEMMA SetRemoveType ==
    ASSUME NEW R, NEW P, ProposalTable(P), NEW m \in Instance
    PROVE  ProposalTable(SetRemove(R, P, m))
  BY StoreType DEF SetRemove

LEMMA FreeGhostsType ==
    ASSUME NEW R \in Table, NEW m
    PROVE  FreeGhosts(R, m) \in Table
<1> DEFINE f == FreeGhosts(R, m)
<1>1. ASSUME NEW i \in DOMAIN R PROVE f[i] \in Netixlan
  <2> DEFINE r == R[i]
             ghost == Active(r) /\ r.asn # m.key.asn
             v4 == IF ghost /\ r.v4 = m.key.v4 THEN None ELSE r.v4
             v6 == IF ghost /\ r.v6 = m.key.v6 THEN None ELSE r.v6
             status == IF <<v4, v6>> # <<r.v4, r.v6>> /\ v4 = None /\ v6 = None
                         THEN "deleted" ELSE r.status
  <2>1. r \in Netixlan
    BY RowType
  <2>2. v4 \in V4 \cup {None} /\ v6 \in V6 \cup {None} /\ status \in {"ok", "deleted"}
    BY <2>1 DEF Netixlan
  <2>3. f[i] = [r EXCEPT !.v4 = v4, !.v6 = v6, !.status = status]
    BY DEF FreeGhosts
  <2> HIDE DEF r, v4, v6, status
  <2>4. QED BY <2>1, <2>2, <2>3 DEF Netixlan
<1>2. f = [i \in DOMAIN R |-> f[i]]
  BY DEF FreeGhosts
<1> HIDE DEF f
<1>3. f \in Table
  BY <1>1, <1>2, MapRows
<1>4. QED BY <1>3 DEF f

LEMMA SetAddType ==
    ASSUME NEW R \in Table, NEW P, ProposalTable(P), NEW m \in Instance
    PROVE  /\ SetAdd(R, P, m).rows \in Table
           /\ ProposalTable(SetAdd(R, P, m).props)
           /\ SetAdd(R, P, m).verdict = "noop"
<1> DEFINE isNew == Matching(R, m.key, FALSE) = {}
           outside == Outside(m.key.v4) \/ Outside(m.key.v6)
           freed == IF isNew /\ ~outside THEN FreeGhosts(R, m) ELSE R
           invalid == isNew /\ (outside \/ Collides(freed, 0, m.key))
<1>1. freed \in Table
  BY FreeGhostsType
<1>2. invalid \in BOOLEAN
  OBVIOUS
<1>3. SetAdd(R, P, m) =
        IF ~m.saved
          THEN [rows |-> freed, verdict |-> "noop",
                props |-> Store(P, [m EXCEPT !.now.error = invalid])]
          ELSE [rows |-> R, verdict |-> "noop",
                props |-> IF Differs(m) THEN Store(P, m) ELSE P]
  BY DEF SetAdd
<1> HIDE DEF freed, invalid
<1>4. /\ ProposalTable(Store(P, [m EXCEPT !.now.error = invalid]))
      /\ ProposalTable(Store(P, m))
  BY <1>2, WithError, StoreType
<1>5. QED BY <1>1, <1>3, <1>4

(* Whose requirement a proposal is after a round that ends in Consolidate. *)
LEMMA ConsolidateType ==
    ASSUME NEW R, NEW P, ProposalTable(P), NEW m \in Instance,
           NEW deletions \in SUBSET Instance
    PROVE  /\ ProposalTable(Consolidate(R, P, m, deletions))
           /\ \A k \in DOMAIN Consolidate(R, P, m, deletions) :
                LET q == Consolidate(R, P, m, deletions)[k].req IN
                \/ q = m.key /\ k # m.key
                \/ k \in DOMAIN P /\ q = P[k].req
                \/ k = m.key /\ q = m.now.req
<1> DEFINE touching == {d \in deletions :
                          /\ d.key.asn = m.key.asn
                          /\ \/ d.key.v4 # None /\ d.key.v4 = m.i4
                             \/ d.key.v6 # None /\ d.key.v6 = m.i6}
           required == {d \in touching :
                          /\ ~(d.key \in DOMAIN P /\ P[d.key].req = m.key)
                          /\ Matching(R, d.key, TRUE) \cap Matching(R, m.key, FALSE) = {}}
           keys == {d.key : d \in required}
           with == [k \in DOMAIN P \cup keys |->
                      IF k \in keys
                        THEN [(CHOOSE d \in required : d.key = k).now
                                EXCEPT !.req = m.key]
                        ELSE P[k]]
           n == [m EXCEPT !.now.error = FALSE]
<1>1. Consolidate(R, P, m, deletions) = IF required = {} THEN P ELSE Store(with, n)
  BY DEF Consolidate
<1>2. required \subseteq Instance
  OBVIOUS
<1> HIDE DEF required
<1>3. ASSUME NEW k \in keys
      PROVE  k \in Key /\ with[k] \in Proposal /\ with[k].req = m.key
  <2>1. (CHOOSE d \in required : d.key = k) \in required
    BY <1>3
  <2>2. (CHOOSE d \in required : d.key = k).now \in Proposal
    BY <1>2, <2>1 DEF Instance
  <2>3. with[k] = [(CHOOSE d \in required : d.key = k).now EXCEPT !.req = m.key]
    BY <1>3
  <2>4. m.key \in Key
    BY DEF Instance
  <2> HIDE DEF with
  <2>5. QED BY <1>2, <1>3, <2>2, <2>3, <2>4 DEF Proposal, Instance
<1>4. ASSUME NEW k \in DOMAIN P \ keys PROVE with[k] = P[k]
  OBVIOUS
<1>5. DOMAIN with = DOMAIN P \cup keys
  OBVIOUS
<1> HIDE DEF with, keys
<1>6. ProposalTable(with)
  BY <1>3, <1>4, <1>5 DEF ProposalTable
<1>7. n \in Instance /\ n.key = m.key /\ n.now.req = m.now.req
  BY WithError DEF Instance, Proposal
<1> HIDE DEF n
<1>8. ProposalTable(Store(with, n))
  BY <1>6, <1>7, StoreType
<1>9. ASSUME NEW k \in DOMAIN Store(with, n)
      PROVE  \/ k = m.key /\ Store(with, n)[k].req = m.now.req
             \/ k # m.key /\ k \in keys /\ Store(with, n)[k].req = m.key
             \/ k \in DOMAIN P /\ Store(with, n)[k] = P[k]
  BY <1>3, <1>4, <1>5, <1>7 DEF Store
<1>10. QED BY <1>1, <1>8, <1>9

-----------------------------------------------------------------------------
(* One round of each of the two loops.                                     *)

LEMMA SaveType ==
    ASSUME NEW R \in Table, NEW P, ProposalTable(P), NEW m \in Instance,
           NEW deletions \in SUBSET Instance
    PROVE  /\ Save(R, P, m, deletions).rows \in Table
           /\ ProposalTable(Save(R, P, m, deletions).props)
<1> DEFINE found == Matching(R, m.key, FALSE)
           exists == \E i \in found : Active(R[i])
           listed == exists /\ \A i \in found : R[i].oper = m.now.oper
           applied == Apply(R, P, m, FALSE)
           allow == net[m.key.asn].allow
           added == SetAdd(R, P, m)
           settled == [rows |-> applied.rows, verdict |-> applied.verdict,
                       props |-> CASE applied.verdict = "invalid" -> SetConflict(P, m)
                                   [] applied.verdict = "noop" /\ ~exists -> Resolve(P, m)
                                   [] OTHER -> P]
<1>1. applied.rows \in Table
  BY ApplyType
<1>2. /\ ProposalTable(SetConflict(P, m))
      /\ ProposalTable(Resolve(P, m))
      /\ ProposalTable(SetUpdate(P, m))
  BY SetConflictType, ResolveType, SetUpdateType
<1>3. settled.rows \in Table /\ ProposalTable(settled.props)
  <2> HIDE DEF applied, exists
  <2>1. QED BY <1>1, <1>2
<1>4. added.rows \in Table /\ ProposalTable(added.props)
      /\ ProposalTable(Consolidate(added.rows, added.props, m, deletions))
  BY SetAddType, ConsolidateType
<1>5. added = [rows |-> added.rows, verdict |-> added.verdict, props |-> added.props]
  BY DEF SetAdd
<1>6. Save(R, P, m, deletions) =
        IF Cardinality(found) > 1 THEN [rows |-> R, props |-> P, verdict |-> "crash"] ELSE
        CASE listed -> [rows |-> R, props |-> Resolve(P, m), verdict |-> "noop"]
          [] exists /\ ~listed /\ ~allow ->
                 [rows |-> R, props |-> SetUpdate(P, m), verdict |-> "noop"]
          [] ~exists /\ ~allow ->
               [added EXCEPT !.props = Consolidate(added.rows, added.props, m, deletions)]
          [] OTHER -> settled
  BY DEF Save
<1> HIDE DEF found, exists, listed, applied, allow, added, settled
<1>7. QED BY <1>2, <1>3, <1>4, <1>5, <1>6

LEMMA DeleteType ==
    ASSUME NEW R \in Table, NEW P, ProposalTable(P), NEW r \in Netixlan, NEW reassigned
    PROVE  /\ Delete(R, P, r, reassigned).m \in Instance
           /\ Delete(R, P, r, reassigned).after.rows \in Table
           /\ ProposalTable(Delete(R, P, r, reassigned).after.props)
<1> DEFINE Q == Deduped(P, KeyOf(r))
           m == Instantiate(Q, KeyOf(r), "gone", r.oper)
<1>1. ProposalTable(Q)
  BY DedupedType
<1>2. KeyOf(r) \in Key /\ r.oper \in Operational
  BY KeyOfType DEF Netixlan
<1> HIDE DEF Q
<1>3. m \in Instance
  BY <1>1, <1>2, InstantiateType
<1> HIDE DEF m
<1>4. Apply(R, Q, m, reassigned).rows \in Table
  BY <1>1, <1>3, ApplyType
<1>5. ProposalTable(SetRemove(R, Q, m))
  BY <1>1, <1>3, SetRemoveType
<1>6. QED BY <1>1, <1>3, <1>4, <1>5 DEF Delete, m, Q

-----------------------------------------------------------------------------
(* Requirements: what the steps do to the proposals keeps them attached.   *)

(* A table in which no proposal is its own requirement. *)
Loopless(P) == \A k \in DOMAIN P : P[k].req # None => P[k].req # k

LEMMA LooplessAttached ==
    ASSUME NEW P, Loopless(P), ForeignKeys(P)
    PROVE  Attached(P)
  BY DEF Loopless, ForeignKeys, Attached

LEMMA AttachedLoopless == ASSUME NEW P, Attached(P) PROVE Loopless(P)
  BY DEF Loopless, Attached

(* Deleting proposals takes those along of which they are requirements ... *)
LEMMA WithoutAttached ==
    ASSUME NEW P, NEW K, Attached(P)
    PROVE  Attached(Without(P, K))
<1> DEFINE D == Dependents(P, K)
<1>1. ASSUME NEW k \in DOMAIN P, P[k].req \in D PROVE k \in D
  BY <1>1 DEF Dependents, Closed
<1>2. ASSUME NEW k \in DOMAIN Without(P, K)
      PROVE  k \in DOMAIN P /\ k \notin D /\ Without(P, K)[k] = P[k]
  BY DEF Without, Restrict
<1>3. DOMAIN Without(P, K) = DOMAIN P \ D
  BY DEF Without, Restrict
<1> HIDE DEF D
<1>4. QED BY <1>1, <1>2, <1>3 DEF Attached

LEMMA WithoutLoopless ==
    ASSUME NEW P, NEW K, Loopless(P)
    PROVE  Loopless(Without(P, K))
  BY DEF Loopless, Without, Restrict

(* ... and at least them.                                                  *)
LEMMA WithoutThem ==
    ASSUME NEW P, NEW K, NEW k \in DOMAIN Without(P, K)
    PROVE  k \in DOMAIN P \ K /\ Without(P, K)[k] = P[k]
  BY DEF Without, Restrict, Dependents

LEMMA DedupedAttached ==
    ASSUME NEW P, Attached(P), NEW k
    PROVE  Attached(Deduped(P, k))
  BY WithoutAttached DEF Deduped

(* The requirement of an object is that of the proposal it was read from.  *)
LEMMA InstantiateReq ==
    ASSUME NEW P, ProposalTable(P), NEW k, NEW data, NEW oper,
           Instantiate(P, k, data, oper).now.req # None
    PROVE  LET m == Instantiate(P, k, data, oper) IN
           m.key \in DOMAIN P /\ m.now.req = P[m.key].req
<1>1. CASE Candidates(P, k) # {}
  <2> DEFINE j == CHOOSE j \in Candidates(P, k) : TRUE
  <2>1. j \in DOMAIN P
    BY <1>1 DEF Candidates
  <2> HIDE DEF j
  <2>2. P[j] \in Proposal
    BY <2>1 DEF ProposalTable
  <2> DEFINE p == [P[j] EXCEPT !.data = data, !.oper = oper]
  <2>3. p.req = P[j].req
    BY <2>2 DEF Proposal
  <2> HIDE DEF p
  <2>4. Instantiate(P, k, data, oper) =
          [key |-> j, i4 |-> k.v4, i6 |-> k.v6, saved |-> TRUE, now |-> p, was |-> P[j]]
    BY <1>1 DEF Instantiate, j, p
  <2>5. Instantiate(P, k, data, oper).key = j /\ Instantiate(P, k, data, oper).now.req = P[j].req
    BY <2>3, <2>4
  <2>6. QED BY <2>1, <2>5
<1>2. CASE Candidates(P, k) = {}
  <2>1. Instantiate(P, k, data, oper).now.req = None
    BY <1>2 DEF Instantiate
  <2>2. QED BY <2>1
<1>3. QED BY <1>1, <1>2

Unbound(m) == m.now.req # None => m.now.req # m.key

LEMMA StoreLoopless ==
    ASSUME NEW P, Loopless(P), NEW m, Unbound(m)
    PROVE  Loopless(Store(P, m))
  BY DEF Loopless, Store, Unbound

LEMMA ResolveLoopless ==
    ASSUME NEW P, Loopless(P), NEW m
    PROVE  Loopless(Resolve(P, m))
  BY WithoutLoopless DEF Resolve

LEMMA WithErrorUnbound ==
    ASSUME NEW m \in Instance, Unbound(m), NEW e \in BOOLEAN
    PROVE  Unbound([m EXCEPT !.now.error = e])
<1>1. [m EXCEPT !.now.error = e].key = m.key
  BY DEF Instance
<1>2. [m EXCEPT !.now.error = e].now.req = m.now.req
  BY DEF Instance, Proposal
<1>3. QED BY <1>1, <1>2 DEF Unbound

LEMMA SaveLoopless ==
    ASSUME NEW R \in Table, NEW P, ProposalTable(P), Loopless(P), NEW m \in Instance,
           Unbound(m), NEW deletions \in SUBSET Instance
    PROVE  Loopless(Save(R, P, m, deletions).props)
<1>1. Loopless(Store(P, m)) /\ Loopless(Resolve(P, m))
  BY StoreLoopless, ResolveLoopless
<1>2. ASSUME NEW e \in BOOLEAN PROVE Loopless(Store(P, [m EXCEPT !.now.error = e]))
  BY WithErrorUnbound, StoreLoopless
<1>3. Loopless(SetConflict(P, m)) /\ Loopless(SetUpdate(P, m))
  BY <1>1, <1>2 DEF SetConflict, SetUpdate
<1> DEFINE added == SetAdd(R, P, m)
           with == Consolidate(added.rows, added.props, m, deletions)
<1>4. Loopless(added.props)
  <2> DEFINE freed == IF Matching(R, m.key, FALSE) = {}
                         /\ ~(Outside(m.key.v4) \/ Outside(m.key.v6)) THEN FreeGhosts(R, m) ELSE R
             invalid == /\ Matching(R, m.key, FALSE) = {}
                        /\ Outside(m.key.v4) \/ Outside(m.key.v6) \/ Collides(freed, 0, m.key)
  <2>1. invalid \in BOOLEAN
    OBVIOUS
  <2>2. added.props = IF ~m.saved THEN Store(P, [m EXCEPT !.now.error = invalid])
                      ELSE IF Differs(m) THEN Store(P, m) ELSE P
    BY DEF SetAdd
  <2> HIDE DEF added, invalid
  <2>3. QED BY <1>1, <1>2, <2>1, <2>2
<1>5. Loopless(with)
  <2>1. ProposalTable(added.props)
    BY SetAddType
  <2> HIDE DEF added
  <2>2. \A k \in DOMAIN with :
           \/ with[k].req = m.key /\ k # m.key
           \/ k \in DOMAIN added.props /\ with[k].req = added.props[k].req
           \/ k = m.key /\ with[k].req = m.now.req
    BY <2>1, ConsolidateType
  <2> HIDE DEF with
  <2>3. QED BY <1>4, <2>2 DEF Loopless, Unbound
<1>6. added = [rows |-> added.rows, verdict |-> added.verdict, props |-> added.props]
  BY DEF SetAdd
<1> DEFINE found == Matching(R, m.key, FALSE)
           exists == \E i \in found : Active(R[i])
           listed == exists /\ \A i \in found : R[i].oper = m.now.oper
           allow == net[m.key.asn].allow
           verdict == Apply(R, P, m, FALSE).verdict
<1>7. Save(R, P, m, deletions).props =
        IF Cardinality(found) > 1 THEN P ELSE
        CASE listed -> Resolve(P, m)
          [] exists /\ ~listed /\ ~allow -> SetUpdate(P, m)
          [] ~exists /\ ~allow -> with
          [] OTHER -> CASE verdict = "invalid" -> SetConflict(P, m)
                        [] verdict = "noop" /\ ~exists -> Resolve(P, m)
                        [] OTHER -> P
  <2> DEFINE applied == Apply(R, P, m, FALSE)
             settled == [rows |-> applied.rows, verdict |-> applied.verdict,
                         props |-> CASE applied.verdict = "invalid" -> SetConflict(P, m)
                                     [] applied.verdict = "noop" /\ ~exists -> Resolve(P, m)
                                     [] OTHER -> P]
  <2>1. Save(R, P, m, deletions) =
          IF Cardinality(found) > 1 THEN [rows |-> R, props |-> P, verdict |-> "crash"] ELSE
          CASE listed -> [rows |-> R, props |-> Resolve(P, m), verdict |-> "noop"]
            [] exists /\ ~listed /\ ~allow ->
                 [rows |-> R, props |-> SetUpdate(P, m), verdict |-> "noop"]
            [] ~exists /\ ~allow -> [added EXCEPT !.props = with]
            [] OTHER -> settled
    BY DEF Save
  <2> HIDE DEF found, exists, listed, applied, allow, added, with
  <2>2. [added EXCEPT !.props = with].props = with
    BY <1>6
  <2>3. QED BY <2>1, <2>2 DEF applied
<1> HIDE DEF found, exists, listed, allow, verdict, with
<1>8. QED BY <1>1, <1>3, <1>5, <1>7

LEMMA DeleteAttached ==
    ASSUME NEW R \in Table, NEW P, ProposalTable(P), Attached(P), NEW r \in Netixlan,
           NEW reassigned
    PROVE  Attached(Delete(R, P, r, reassigned).after.props)
<1> DEFINE Q == Deduped(P, KeyOf(r))
           m == Instantiate(Q, KeyOf(r), "gone", r.oper)
<1>1. ProposalTable(Q) /\ Attached(Q)
  BY DedupedType, DedupedAttached
<1> HIDE DEF Q
<1>2. m.now.req # None => m.key \in DOMAIN Q /\ m.now.req = Q[m.key].req
  BY <1>1, InstantiateReq
<1> HIDE DEF m
<1>3. Attached(Store(Q, m))
  BY <1>1, <1>2 DEF Attached, Store
<1>4. Attached(SetRemove(R, Q, m))
  BY <1>1, <1>3 DEF SetRemove
<1>5. QED BY <1>1, <1>4 DEF Delete, m, Q

-----------------------------------------------------------------------------
(* The steps of a run keep the types ...                                   *)

(* The loop over the deletions walks the rows that the run found: nothing  *)
(* is written before it.                                                   *)
TypeInv == TypeOK /\ (run.phase = "parse" => rows = run.before.rows)

LEMMA TablesShape ==
    ASSUME NEW R, NEW P
    PROVE  Tables(R, P) <=> R \in Table /\ ProposalTable(P)
  BY DEF Tables, Table, ProposalTable

LEMMA InRun ==
    ASSUME TypeOK, run.phase \in {"parse", "apply", "cleaned"}
    PROVE  Working(run)
  BY DEF TypeOK, Idle, Failed

LEMMA InUse ==
    ASSUME TypeOK
    PROVE  rows \in Table /\ ProposalTable(props)
  BY TablesShape DEF TypeOK

LEMMA FeedType ==
    ASSUME NEW F \in Feeds, NEW e \in F
    PROVE  e \in Entry
<1>1. PICK n \in 0..FeedSize : F \in {Range(f) : f \in [1..n -> Entry]}
  BY DEF Feeds
<1>2. PICK f \in [1..n -> Entry] : F = Range(f)
  BY <1>1
<1>3. QED BY <1>2 DEF Range

LEMMA FirstType ==
    ASSUME rows \in Table, NEW S, S \subseteq DOMAIN rows, NEW r \in First(S)
    PROVE  r \in Netixlan
  BY RowType DEF First

LEMMA IdsOfType ==
    ASSUME rows \in Table, NEW e \in Entry
    PROVE  IdsOf(e) \subseteq Key
<1> DEFINE active == {i \in DOMAIN rows : Active(rows[i])}
           kept6 == {None} \cup {r.v6 : r \in First({i \in active : rows[i].v4 = e.v4})}
           kept4 == {None} \cup {r.v4 : r \in First({i \in active : rows[i].v6 = e.v6})}
<1>1. KeyOf(e) \in Key
  BY KeyOfType DEF Entry
<1>2. kept6 \subseteq V6 \cup {None}
  <2>1. ASSUME NEW r \in First({i \in active : rows[i].v4 = e.v4})
        PROVE  r.v6 \in V6 \cup {None}
    <3>1. r \in Netixlan
      BY FirstType
    <3>2. QED BY <3>1 DEF Netixlan
  <2>2. QED BY <2>1
<1>3. kept4 \subseteq V4 \cup {None}
  <2>1. ASSUME NEW r \in First({i \in active : rows[i].v6 = e.v6})
        PROVE  r.v4 \in V4 \cup {None}
    <3>1. r \in Netixlan
      BY FirstType
    <3>2. QED BY <3>1 DEF Netixlan
  <2>2. QED BY <2>1
<1> DEFINE ids6 == {[KeyOf(e) EXCEPT !.v6 = v] : v \in kept6}
           ids4 == {[KeyOf(e) EXCEPT !.v4 = v] : v \in kept4}
<1>4. IdsOf(e) = {KeyOf(e)} \cup (IF net[e.asn].p6 THEN {} ELSE ids6)
                            \cup (IF net[e.asn].p4 THEN {} ELSE ids4)
  BY DEF IdsOf
<1> HIDE DEF kept6, kept4
<1>5. ids6 \subseteq Key
  <2>1. ASSUME NEW v \in V6 \cup {None} PROVE [KeyOf(e) EXCEPT !.v6 = v] \in Key
    BY <1>1 DEF Key
  <2>2. QED BY <1>2, <2>1
<1>6. ids4 \subseteq Key
  <2>1. ASSUME NEW v \in V4 \cup {None} PROVE [KeyOf(e) EXCEPT !.v4 = v] \in Key
    BY <1>1 DEF Key
  <2>2. QED BY <1>3, <2>1
<1> HIDE DEF ids6, ids4
<1>7. QED BY <1>1, <1>4, <1>5, <1>6

LEMMA StartInv == ASSUME TypeInv, NEW F \in Feeds, Start(F) PROVE TypeInv'
<1> USE ImportAssumption
<1>1. rows \in Table /\ ProposalTable(props)
  BY InUse DEF TypeInv
<1>2. Working(run')
  <2>1. {e \in F : e.v4 \in Prefix \/ e.v6 \in Prefix} \subseteq F
    OBVIOUS
  <2>2. [v \in V4 \cup V6 |-> None] \in [V4 \cup V6 -> Asns \cup {None}]
    OBVIOUS
  <2>3. <<>> \in Seq(Instance)
    OBVIOUS
  <2>4. QED BY <1>1, <2>1, <2>2, <2>3, TablesShape DEF Start, Working
<1>3. runs' \in 0..MaxRuns
  BY DEF Start, TypeInv, TypeOK
<1>4. run'.phase = "parse" => rows' = run'.before.rows
  BY DEF Start
<1>5. QED BY <1>2, <1>3, <1>4 DEF TypeInv, TypeOK, Start

LEMMA FailInv ==
    ASSUME TypeInv, Working(run), Fail, UNCHANGED <<net, runs, edits>>
    PROVE  TypeInv'
<1>1. Tables(rows', props')
  BY DEF Fail, Working
<1>2. run' = Failed /\ run'.phase # "parse"
  BY DEF Fail, Failed
<1>3. QED BY <1>1, <1>2 DEF TypeInv, TypeOK, Fail

LEMMA ParseInv == ASSUME TypeInv, NEW e \in run.todo, Parse(e) PROVE TypeInv'
<1> DEFINE P == Deduped(props, KeyOf(e))
           m == Instantiate(P, KeyOf(e), "member", e.oper)
           named == UNION {{k.v4, k.v6} : k \in IdsOf(e)}
<1>1. rows \in Table /\ ProposalTable(props) /\ Working(run)
  BY InUse, InRun DEF TypeInv, Parse
<1>2. e \in Entry /\ KeyOf(e) \in Key /\ e.asn \in Asns /\ e.oper \in Operational
  <2>1. e \in Entry
    BY <1>1, FeedType DEF Parse, Working
  <2>2. QED BY <2>1, KeyOfType DEF Entry
<1>3. ProposalTable(P)
  BY <1>1, DedupedType
<1>4. m \in Instance /\ m.key \in Key
  <2> HIDE DEF P
  <2>1. m \in Instance
    BY <1>2, <1>3, InstantiateType
  <2> HIDE DEF m
  <2>2. QED BY <2>1 DEF Instance
<1>5. IdsOf(e) \subseteq Key
  BY <1>1, <1>2, IdsOfType
<1>6. props' = P
  BY DEF Parse
<1>7. run' = [run EXCEPT
                !.todo = @ \ {e},
                !.ids = @ \cup IdsOf(e),
                !.owner = [v \in V4 \cup V6 |-> IF v \in named THEN e.asn ELSE @[v]],
                !.pending = IF m.key.v4 = None /\ m.key.v6 = None THEN @ ELSE Append(@, m),
                !.seen = @ \cup {m.key}]
  BY DEF Parse
<1> HIDE DEF P, m, named
<1>8. Working(run')
  <2>1. (IF m.key.v4 = None /\ m.key.v6 = None THEN run.pending ELSE Append(run.pending, m))
          \in Seq(Instance)
    BY <1>1, <1>4 DEF Working
  <2>2. [v \in V4 \cup V6 |-> IF v \in named THEN e.asn ELSE run.owner[v]]
          \in [V4 \cup V6 -> Asns \cup {None}]
    BY <1>1, <1>2 DEF Working
  <2>3. run.phase = "parse"
    BY DEF Parse
  <2>4. QED BY <1>1, <1>4, <1>5, <1>7, <2>1, <2>2, <2>3 DEF Working
<1>9. rows' = run'.before.rows
  BY <1>1, <1>7 DEF TypeInv, Parse, Working
<1>10. QED BY <1>1, <1>3, <1>6, <1>8, <1>9, TablesShape DEF TypeInv, TypeOK, Parse

LEMMA BeginDeletionsInv == ASSUME TypeInv, BeginDeletions PROVE TypeInv'
<1>1. Working(run) /\ rows = run.before.rows
  BY InRun DEF TypeInv, BeginDeletions
<1> DEFINE todo == {i \in DOMAIN rows : /\ Active(rows[i]) /\ rows[i].here
                                        /\ KeyOf(rows[i]) \notin run.ids}
<1>2. run' = [run EXCEPT !.phase = "apply", !.todo = todo]
  BY DEF BeginDeletions
<1>3. todo \subseteq DOMAIN run.before.rows
  BY <1>1
<1> HIDE DEF todo
<1>4. Working(run') /\ run'.phase # "parse"
  BY <1>1, <1>2, <1>3 DEF Working
<1>5. QED BY <1>4 DEF TypeInv, TypeOK, BeginDeletions

LEMMA DeleteStepInv == ASSUME TypeInv, NEW i \in run.todo, DeleteStep(i) PROVE TypeInv'
<1> DEFINE r == run.before.rows[i]
           done == Delete(rows, props, r, Reassigned(r))
<1>1. rows \in Table /\ ProposalTable(props) /\ Working(run) /\ run.phase = "apply"
  BY InUse, InRun DEF TypeInv, DeleteStep
<1>2. r \in Netixlan
  <2>1. i \in DOMAIN run.before.rows /\ run.before.rows \in Table
    BY <1>1, TablesShape DEF Working
  <2>2. QED BY <2>1, RowType
<1> HIDE DEF r
<1>3. done.m \in Instance /\ done.after.rows \in Table /\ ProposalTable(done.after.props)
  BY <1>1, <1>2, DeleteType
<1>4. /\ IF Stopped(done.after) THEN Fail
         ELSE /\ rows' = done.after.rows
              /\ props' = done.after.props
              /\ run' = [run EXCEPT !.todo = @ \ {i},
                                    !.deletions = {d \in @ : d.key # done.m.key} \cup {done.m},
                                    !.seen = @ \cup {done.m.key}]
              /\ UNCHANGED last
      /\ UNCHANGED <<net, runs, edits>>
  BY DEF DeleteStep, r
<1> HIDE DEF done
<1>5. CASE Stopped(done.after)
  BY <1>1, <1>4, <1>5, FailInv
<1>6. CASE ~Stopped(done.after)
  <2>1. done.m.key \in Key
    BY <1>3 DEF Instance
  <2> DEFINE todo == run.todo \ {i}
             deletions == {d \in run.deletions : d.key # done.m.key} \cup {done.m}
             seen == run.seen \cup {done.m.key}
  <2>2. run' = [run EXCEPT !.todo = todo, !.deletions = deletions, !.seen = seen]
    BY <1>4, <1>6
  <2>3. todo \subseteq DOMAIN run.before.rows /\ deletions \subseteq Instance /\ seen \subseteq Key
    BY <1>1, <1>3, <2>1 DEF Working
  <2> HIDE DEF todo, deletions, seen
  <2>4. Working(run') /\ run'.phase # "parse"
    BY <1>1, <2>2, <2>3 DEF Working
  <2>5. Tables(rows', props')
    BY <1>3, <1>4, <1>6, TablesShape
  <2>6. QED BY <1>4, <1>6, <2>4, <2>5 DEF TypeInv, TypeOK
<1>7. QED BY <1>5, <1>6

LEMMA SaveStepInv == ASSUME TypeInv, SaveStep PROVE TypeInv'
<1> DEFINE done == Save(rows, props, Head(run.pending), run.deletions)
<1>1. rows \in Table /\ ProposalTable(props) /\ Working(run) /\ run.phase = "apply"
  BY InUse, InRun DEF TypeInv, SaveStep
<1>2. Head(run.pending) \in Instance /\ Tail(run.pending) \in Seq(Instance)
  BY <1>1 DEF SaveStep, Working
<1>3. done.rows \in Table /\ ProposalTable(done.props)
  <2>1. run.deletions \in SUBSET Instance
    BY <1>1 DEF Working
  <2>2. QED BY <1>1, <1>2, <2>1, SaveType
<1>4. /\ IF done.verdict = "crash" \/ ~ForeignKeys(done.props) THEN Fail
         ELSE /\ rows' = done.rows
              /\ props' = done.props
              /\ run' = [run EXCEPT !.pending = Tail(@)]
              /\ UNCHANGED last
      /\ UNCHANGED <<net, runs, edits>>
  BY DEF SaveStep
<1> HIDE DEF done
<1>5. CASE done.verdict = "crash" \/ ~ForeignKeys(done.props)
  BY <1>1, <1>4, <1>5, FailInv
<1>6. CASE ~(done.verdict = "crash" \/ ~ForeignKeys(done.props))
  <2>1. Working(run') /\ run'.phase # "parse"
    BY <1>1, <1>2, <1>4, <1>6 DEF Working
  <2>2. Tables(rows', props')
    BY <1>3, <1>4, <1>6, TablesShape
  <2>3. QED BY <1>4, <1>6, <2>1, <2>2 DEF TypeInv, TypeOK
<1>7. QED BY <1>5, <1>6

LEMMA CleanupInv == ASSUME TypeInv, Cleanup PROVE TypeInv'
<1>1. rows \in Table /\ ProposalTable(props) /\ Working(run) /\ run.phase = "apply"
  BY InUse, InRun DEF TypeInv, Cleanup
<1>2. CASE \A k \in DOMAIN props : Unique(k)
  <2> DEFINE K == {k \in DOMAIN props :
                     /\ props[k].req = None
                     /\ \/ Action(k) = "noop"
                        \/ Action(k) = "change" /\ k \notin run.ids}
  <2>1. props' = Without(props, K) /\ run' = [run EXCEPT !.phase = "cleaned"] /\ rows' = rows
    BY <1>2 DEF Cleanup
  <2> HIDE DEF K
  <2>2. Working(run') /\ run'.phase # "parse"
    BY <1>1, <2>1 DEF Working
  <2>3. Tables(rows', props')
    BY <1>1, <2>1, WithoutType, TablesShape
  <2>4. QED BY <1>2, <2>2, <2>3 DEF TypeInv, TypeOK, Cleanup
<1>3. CASE ~ \A k \in DOMAIN props : Unique(k)
  BY <1>1, <1>3, FailInv DEF Cleanup
<1>4. QED BY <1>2, <1>3

LEMMA FinishInv == ASSUME TypeInv, NEW K, Finish(K) PROVE TypeInv'
<1>1. rows \in Table /\ ProposalTable(props) /\ Working(run)
  BY InUse, InRun DEF TypeInv, Finish
<1>2. rows' \in Table
  <2>1. ASSUME NEW i \in DOMAIN rows PROVE rows'[i] \in Netixlan
    <3>1. rows[i] \in Netixlan
      BY <1>1, RowType
    <3>2. rows'[i] = IF \E k \in K : i \in Matching(rows, k, TRUE)
                       THEN [rows[i] EXCEPT !.status = "deleted"] ELSE rows[i]
      BY DEF Finish
    <3>3. QED BY <3>1, <3>2, NoAddress
  <2>2. rows' = [i \in DOMAIN rows |-> rows'[i]]
    BY DEF Finish
  <2>3. QED BY <1>1, <2>1, <2>2, MapRows
<1>3. ProposalTable(props')
  BY <1>1, WithoutType DEF Finish
<1>4. run' = Idle /\ run'.phase # "parse"
  BY DEF Finish, Idle
<1>5. last' \in {None} \cup Feeds
  BY <1>1 DEF Finish, Working
<1>6. QED BY <1>2, <1>3, <1>4, <1>5, TablesShape DEF TypeInv, TypeOK, Finish

-----------------------------------------------------------------------------
(* ... and so do the steps of the users.                                   *)

LEMMA EditInv ==
    ASSUME TypeInv, Edit, rows' \in Table, UNCHANGED props,
           net' \in [Asns -> [allow : BOOLEAN, p4 : BOOLEAN, p6 : BOOLEAN]]
    PROVE  TypeInv'
<1>1. ProposalTable(props)
  BY InUse DEF TypeInv
<1>2. edits' \in 0..MaxEdits
  BY ImportAssumption DEF TypeInv, TypeOK, Edit
<1>3. run' = run /\ run.phase # "parse" /\ run \in {Idle, Failed}
  BY DEF Edit, Idle, Failed
<1>4. QED BY <1>1, <1>2, <1>3, TablesShape DEF TypeInv, TypeOK, Edit

(* What each proposal that is applied preserves, switching updates on does. *)
LEMMA TurnOnStays ==
    ASSUME TypeInv, NEW a \in Asns, TurnOn(a, TRUE), NEW X,
           [rows |-> rows, verdict |-> "noop"] \in X,
           \A s \in X, k \in DOMAIN props :
              s.verdict # "crash" => Apply(s.rows, props, FromTable(props, k), FALSE) \in X
    PROVE  \E s \in X : rows' = s.rows
<1> DEFINE K == {k \in DOMAIN props : k.asn = a /\ props[k].req = None}
           applied(order) ==
             CHOOSE f : f = [n \in 0..Len(order) |->
                IF n = 0 THEN [rows |-> rows, verdict |-> "noop"]
                ELSE IF f[n - 1].verdict = "crash" THEN f[n - 1]
                ELSE Apply(f[n - 1].rows, props, FromTable(props, order[n]), FALSE)]
<1>1. PICK order \in SetToSeqs(K) : rows' = applied(order)[Len(order)].rows
  BY DEF TurnOn
<1> DEFINE L == Len(order)
           start == [rows |-> rows, verdict |-> "noop"]
           Next1(n, s) == IF s.verdict = "crash" THEN s
                          ELSE Apply(s.rows, props, FromTable(props, order[n]), FALSE)
           G == [n \in 1..L |-> [s \in X |-> Next1(n, s)]]
<1>2. L \in Nat /\ \A n \in 1..L : order[n] \in DOMAIN props
  <2>1. K \subseteq DOMAIN props
    OBVIOUS
  <2>2. K \subseteq Key
    BY InUse DEF TypeInv, ProposalTable
  <2> HIDE DEF K
  <2>3. Cardinality(K) \in Nat
    BY <2>2, KeysFinite, FS_Subset, FS_CardinalityType
  <2>4. order \in [1..Cardinality(K) -> K]
    BY DEF SetToSeqs
  <2>5. QED BY <2>1, <2>3, <2>4
<1> HIDE DEF L
<1>3. start \in X
  OBVIOUS
<1>4. ASSUME NEW n \in 1..L, NEW s \in X PROVE Next1(n, s) \in X
  BY <1>2
<1> HIDE DEF start, Next1
<1>5. \A n \in 1..L, s \in X : G[n][s] \in X
  BY <1>4
<1>6. PICK f : Iterates(f, start, L, G)
  <2> HIDE DEF G
  <2>1. QED BY <1>2, <1>3, <1>5, IterationExists
<1>7. ASSUME NEW n \in 0..L PROVE f[n] \in X
  <2>1. ASSUME NEW i \in 1..n, f[i - 1] \in X PROVE f[i] \in X
    <3> HIDE DEF G
    <3>1. f[i] = G[i][f[i - 1]] /\ i \in 1..L
      BY <1>2, <1>6 DEF Iterates
    <3>2. QED BY <1>5, <2>1, <3>1
  <2>2. f[0] \in X
    BY <1>2, <1>3, <1>6 DEF Iterates
  <2>3. n \in Nat
    BY <1>2
  <2> HIDE DEF G
  <2> QED BY <2>1, <2>2, <2>3, IterationStays
<1>8. f = [n \in 0..L |-> IF n = 0 THEN start ELSE Next1(n, f[n - 1])]
  <2>1. ASSUME NEW n \in 0..L, n # 0 PROVE G[n][f[n - 1]] = Next1(n, f[n - 1])
    BY <1>2, <1>7, <2>1
  <2>2. QED BY <1>6, <2>1 DEF Iterates
<1> DEFINE g == CHOOSE h : h = [n \in 0..L |-> IF n = 0 THEN start ELSE Next1(n, h[n - 1])]
<1>9. g = [n \in 0..L |-> IF n = 0 THEN start ELSE Next1(n, g[n - 1])]
  BY <1>8
<1>10. g[L] \in X
  <2> HIDE DEF g, G
  <2>1. ASSUME NEW i \in 1..L, g[i - 1] \in X PROVE g[i] \in X
    <3>1. g[i] = Next1(i, g[i - 1]) /\ i \in 0..L
      BY <1>2, <1>9
    <3>2. QED BY <1>4, <2>1, <3>1
  <2>2. g[0] \in X
    BY <1>2, <1>3, <1>9
  <2>3. QED BY <1>2, <2>1, <2>2, IterationStays
<1>11. g = applied(order)
  BY DEF Next1, start, L
<1>12. QED
  <2> HIDE DEF g, applied
  <2>1. QED BY <1>1, <1>10, <1>11 DEF L

(* So the rows keep their type.                                            *)
LEMMA TurnOnTable ==
    ASSUME TypeInv, NEW a \in Asns, NEW enabled \in BOOLEAN, TurnOn(a, enabled)
    PROVE  rows' \in Table
<1>1. rows \in Table /\ ProposalTable(props)
  BY InUse DEF TypeInv
<1>2. CASE ~enabled
  BY <1>1, <1>2 DEF TurnOn
<1>3. CASE enabled
  <2> DEFINE X == Outcome \cup [rows : Table, verdict : Verdicts, left : SUBSET Key]
             start == [rows |-> rows, verdict |-> "noop"]
  <2>1. start \in X
    BY <1>1 DEF Outcome, Verdicts
  <2>2. ASSUME NEW s \in X, NEW k \in DOMAIN props
        PROVE  Apply(s.rows, props, FromTable(props, k), FALSE) \in X
    <3>1. s.rows \in Table /\ FromTable(props, k) \in Instance
      BY <1>1, FromTableType DEF Outcome
    <3>2. Apply(s.rows, props, FromTable(props, k), FALSE)
            \in [rows : Table, verdict : Verdicts, left : SUBSET Key]
      BY <1>1, <3>1, ApplyType
    <3>3. QED BY <3>2
  <2>3. \A s \in X : s.rows \in Table
    BY DEF Outcome
  <2>4. TurnOn(a, TRUE)
    BY <1>3, enabled = TRUE
  <2> HIDE DEF X
  <2>5. PICK s \in X : rows' = s.rows
    BY <2>1, <2>2, <2>4, TurnOnStays
  <2>6. QED BY <2>3, <2>5
<1>4. QED BY <1>2, <1>3

LEMMA TurnOnInv ==
    ASSUME TypeInv, NEW a \in Asns, NEW enabled \in BOOLEAN, TurnOn(a, enabled)
    PROVE  TypeInv'
<1>1. net' \in [Asns -> [allow : BOOLEAN, p4 : BOOLEAN, p6 : BOOLEAN]]
  BY DEF TurnOn, TypeInv, TypeOK
<1>2. rows' \in Table
  BY TurnOnTable
<1>3. QED BY <1>1, <1>2, EditInv DEF TurnOn

LEMMA UserAddInv == ASSUME TypeInv, NEW e \in Entry, UserAdd(e) PROVE TypeInv'
<1> DEFINE r == [asn |-> e.asn, v4 |-> e.v4, v6 |-> e.v6, oper |-> e.oper,
                 here |-> TRUE, status |-> "ok"]
<1>1. rows \in Table
  BY InUse DEF TypeInv
<1>2. r \in Netixlan
  BY DEF Entry, Netixlan
<1>3. rows' = Append(rows, r)
  BY DEF UserAdd
<1> HIDE DEF r
<1>4. rows' \in Table
  BY <1>1, <1>2, <1>3, AddRow
<1>5. QED BY <1>4, EditInv DEF UserAdd, TypeInv, TypeOK

LEMMA UserDeleteInv == ASSUME TypeInv, NEW i \in DOMAIN rows, UserDelete(i) PROVE TypeInv'
<1>1. rows \in Table
  BY InUse DEF TypeInv
<1>2. rows[i] \in Netixlan
  BY <1>1, RowType
<1>3. rows' = [rows EXCEPT ![i] = [rows[i] EXCEPT !.status = "deleted"]]
  BY DEF UserDelete
<1>4. rows' \in Table
  BY <1>1, <1>2, <1>3, NoAddress, SetRow
<1>5. QED BY <1>4, EditInv DEF UserDelete, TypeInv, TypeOK

LEMMA SettingsInv ==
    ASSUME TypeInv, NEW a \in Asns, TurnOff(a) \/ \E p \in Supports : SetSupport(a, p)
    PROVE  TypeInv'
<1>1. rows' \in Table /\ UNCHANGED props /\ Edit
  BY InUse DEF TypeInv, TurnOff, SetSupport
<1>2. net' \in [Asns -> [allow : BOOLEAN, p4 : BOOLEAN, p6 : BOOLEAN]]
  <2>1. CASE TurnOff(a)
    BY <2>1 DEF TurnOff, TypeInv, TypeOK
  <2>2. ASSUME NEW p \in Supports, SetSupport(a, p)
        PROVE  net' \in [Asns -> [allow : BOOLEAN, p4 : BOOLEAN, p6 : BOOLEAN]]
    <3>1. p[1] \in BOOLEAN /\ p[2] \in BOOLEAN
      BY ImportAssumption
    <3>2. QED BY <2>2, <3>1 DEF SetSupport, TypeInv, TypeOK
  <2>3. QED BY <2>1, <2>2
<1>3. QED BY <1>1, <1>2, EditInv

LEMMA TypeStep == TypeInv /\ [Next]_vars => TypeInv'
<1> SUFFICES ASSUME TypeInv, [Next]_vars PROVE TypeInv'
  OBVIOUS
<1>1. CASE RunStep
  BY <1>1, StartInv, ParseInv, BeginDeletionsInv, DeleteStepInv, SaveStepInv, CleanupInv,
     FinishInv DEF RunStep
<1>2. CASE UserStep
  BY <1>2, TurnOnInv, SettingsInv, UserAddInv, UserDeleteInv DEF UserStep
<1>3. CASE UNCHANGED vars
  <2>1. UNCHANGED <<net, rows, props, run, last, runs, edits>>
    BY <1>3 DEF vars
  <2>2. QED BY <2>1 DEF TypeInv, TypeOK, Tables, Working
<1>4. QED BY <1>1, <1>2, <1>3 DEF Next

LEMMA TypeInit == Init => TypeInv
<1> SUFFICES ASSUME Init PROVE TypeInv
  OBVIOUS
<1>1. net \in [Asns -> [allow : BOOLEAN, p4 : BOOLEAN, p6 : BOOLEAN]]
  <2>1. \A p \in Supports : p[1] \in BOOLEAN /\ p[2] \in BOOLEAN
    BY ImportAssumption
  <2>2. {[allow |-> a, p4 |-> p[1], p6 |-> p[2]] : a \in BOOLEAN, p \in Supports}
          \subseteq [allow : BOOLEAN, p4 : BOOLEAN, p6 : BOOLEAN]
    BY <2>1
  <2> DEFINE S == {[allow |-> a, p4 |-> p[1], p6 |-> p[2]] : a \in BOOLEAN, p \in Supports}
  <2>3. net \in [Asns -> S]
    BY DEF Init
  <2> HIDE DEF S
  <2>4. QED BY <2>2, <2>3 DEF S
<1>2. rows \in Table
  <2> DEFINE T == {r \in Netixlan : r.here => ~Outside(r.v4) /\ ~Outside(r.v6)}
  <2>1. rows \in Seq(T)
    BY InitialAssumption DEF Init
  <2>2. T \subseteq Netixlan
    OBVIOUS
  <2> HIDE DEF T
  <2>3. QED BY <2>1, <2>2 DEF Table
<1>3. ProposalTable(props)
  BY DEF Init, ProposalTable
<1>4. run.phase # "parse"
  BY DEF Init, Idle
<1>5. 0 \in 0..MaxRuns /\ 0 \in 0..MaxEdits
  BY ImportAssumption
<1>6. QED BY <1>1, <1>2, <1>3, <1>4, <1>5, TablesShape DEF Init, TypeInv, TypeOK

(* Rows, proposals, settings and the run in progress keep their types.     *)
THEOREM TypeCorrect == Spec => []TypeOK
<1>1. Spec => []TypeInv
  BY TypeInit, TypeStep, PTL DEF Spec
<1>2. TypeInv => TypeOK
  BY DEF TypeInv
<1>3. QED BY <1>1, <1>2, PTL

-----------------------------------------------------------------------------
(* The proposals after a run.                                              *)

LEMMA InvTypes == ASSUME ImportInv PROVE TypeInv
  BY DEF ImportInv, TypeInv

(* A run in progress may go back to a table in which requirements are      *)
(* attached, and what it may save does not belong to itself.               *)
Sound(r) ==
    /\ Attached(r.before.props)
    /\ \A i \in DOMAIN r.pending : Unbound(r.pending[i])

LEMMA InvShape ==
    ImportInv <=> /\ TypeInv
                  /\ Attached(props)
                  /\ run \notin {Idle, Failed} => Sound(run)
                  /\ ProposalsOpen
  BY DEF ImportInv, TypeInv, Sound, Unbound

(* What is left to show for a step that does not end the clean-up.         *)
LEMMA KeepAttached ==
    ASSUME ImportInv, [Next]_vars, Attached(props'), ~Cleaned',
           run' \notin {Idle, Failed} => Sound(run')
    PROVE  ImportInv'
<1>1. TypeInv'
  BY InvTypes, TypeStep
<1>2. ProposalsOpen'
  BY DEF ProposalsOpen
<1>3. QED BY <1>1, <1>2 DEF ImportInv, TypeInv, Sound, Unbound

LEMMA Running ==
    ASSUME ImportInv, run.phase \in {"parse", "apply", "cleaned"}
    PROVE  Working(run) /\ Sound(run)
<1>1. Working(run)
  BY InRun DEF ImportInv
<1>2. run \notin {Idle, Failed}
  BY DEF Idle, Failed
<1>3. QED BY <1>1, <1>2, InvShape

LEMMA StartOpen == ASSUME ImportInv, NEW F \in Feeds, Start(F) PROVE ImportInv'
<1>1. [Next]_vars
  BY DEF Next, RunStep
<1>2. Attached(props') /\ ~Cleaned'
  BY DEF ImportInv, Start, Cleaned
<1>3. Sound(run')
  BY DEF ImportInv, Start, Sound
<1>4. QED BY <1>1, <1>2, <1>3, KeepAttached

LEMMA FailOpen ==
    ASSUME ImportInv, [Next]_vars, Sound(run), Fail
    PROVE  ImportInv'
<1>1. Attached(props') /\ ~Cleaned' /\ run' = Failed
  BY DEF Fail, Sound, Cleaned, Failed
<1>2. QED BY <1>1, KeepAttached

LEMMA ParseOpen == ASSUME ImportInv, NEW e \in run.todo, Parse(e) PROVE ImportInv'
<1> DEFINE P == Deduped(props, KeyOf(e))
           m == Instantiate(P, KeyOf(e), "member", e.oper)
<1>1. Working(run) /\ Sound(run) /\ ProposalTable(props) /\ Attached(props)
  BY Running, InUse DEF Parse, ImportInv
<1>2. ProposalTable(P) /\ Attached(P)
  BY <1>1, DedupedType, DedupedAttached
<1>3. Unbound(m)
  <2> HIDE DEF P
  <2>1. m.now.req # None => m.key \in DOMAIN P /\ m.now.req = P[m.key].req
    BY <1>2, InstantiateReq
  <2> HIDE DEF m
  <2>2. QED BY <1>2, <2>1 DEF Unbound, Attached
<1>4. m \in Instance
  <2>1. e \in Entry
    BY <1>1, FeedType DEF Parse, Working
  <2>2. KeyOf(e) \in Key /\ e.oper \in Operational
    BY <2>1, KeyOfType DEF Entry
  <2> HIDE DEF P
  <2>3. QED BY <1>2, <2>2, InstantiateType
<1>5. /\ props' = P
      /\ run'.pending = IF m.key.v4 = None /\ m.key.v6 = None THEN run.pending
                        ELSE Append(run.pending, m)
      /\ run'.before = run.before
      /\ run'.phase = "parse"
  BY <1>1 DEF Parse, Working
<1> HIDE DEF P, m
<1>6. ASSUME NEW i \in DOMAIN run'.pending PROVE Unbound(run'.pending[i])
  <2>1. run.pending \in Seq(Instance)
    BY <1>1 DEF Working
  <2>2. \/ i \in DOMAIN run.pending /\ run'.pending[i] = run.pending[i]
        \/ run'.pending[i] = m
    BY <1>4, <1>5, <2>1
  <2>3. QED BY <1>1, <1>3, <2>2 DEF Sound
<1>7. Sound(run') /\ ~Cleaned'
  BY <1>1, <1>5, <1>6 DEF Sound, Cleaned
<1>8. [Next]_vars
  BY DEF Next, RunStep, Parse
<1>9. QED BY <1>2, <1>5, <1>7, <1>8, KeepAttached

LEMMA BeginDeletionsOpen == ASSUME ImportInv, BeginDeletions PROVE ImportInv'
<1>1. Working(run) /\ Sound(run)
  BY Running DEF BeginDeletions
<1>2. run'.before = run.before /\ run'.pending = run.pending /\ run'.phase = "apply"
  BY <1>1 DEF BeginDeletions, Working
<1>3. Sound(run') /\ ~Cleaned' /\ Attached(props')
  BY <1>1, <1>2 DEF Sound, Cleaned, BeginDeletions, ImportInv
<1>4. [Next]_vars
  BY DEF Next, RunStep
<1>5. QED BY <1>3, <1>4, KeepAttached

LEMMA DeleteStepOpen == ASSUME ImportInv, NEW i \in run.todo, DeleteStep(i) PROVE ImportInv'
<1> DEFINE r == run.before.rows[i]
           done == Delete(rows, props, r, Reassigned(r))
<1>1. /\ Working(run) /\ Sound(run) /\ run.phase = "apply"
      /\ rows \in Table /\ ProposalTable(props) /\ Attached(props)
  BY Running, InUse DEF DeleteStep, ImportInv
<1>2. [Next]_vars
  BY DEF Next, RunStep, DeleteStep
<1>3. r \in Netixlan
  <2>1. i \in DOMAIN run.before.rows /\ run.before.rows \in Table
    BY <1>1, TablesShape DEF Working
  <2>2. QED BY <2>1, RowType
<1> HIDE DEF r
<1>4. Attached(done.after.props)
  BY <1>1, <1>3, DeleteAttached
<1>5. CASE Stopped(done.after)
  BY <1>1, <1>2, <1>5, FailOpen DEF DeleteStep, r
<1>6. CASE ~Stopped(done.after)
  <2>1. props' = done.after.props
    BY <1>6 DEF DeleteStep, r
  <2>2. run'.before = run.before /\ run'.pending = run.pending /\ run'.phase = "apply"
    BY <1>1, <1>6 DEF DeleteStep, r, Working
  <2> HIDE DEF done
  <2>3. Sound(run') /\ ~Cleaned' /\ Attached(props')
    BY <1>1, <1>4, <2>1, <2>2 DEF Sound, Cleaned
  <2>4. QED BY <1>2, <2>3, KeepAttached
<1>7. QED BY <1>5, <1>6

LEMMA SaveStepOpen == ASSUME ImportInv, SaveStep PROVE ImportInv'
<1> DEFINE m == Head(run.pending)
           done == Save(rows, props, m, run.deletions)
<1>1. /\ Working(run) /\ Sound(run) /\ run.phase = "apply"
      /\ rows \in Table /\ ProposalTable(props) /\ Attached(props)
  BY Running, InUse DEF SaveStep, ImportInv
<1>2. [Next]_vars
  BY DEF Next, RunStep
<1>3. m \in Instance /\ Unbound(m) /\ run.deletions \in SUBSET Instance
  <2>1. run.pending \in Seq(Instance) /\ run.pending # <<>>
    BY <1>1 DEF SaveStep, Working
  <2>2. m = run.pending[1] /\ 1 \in DOMAIN run.pending
    BY <2>1
  <2>3. QED BY <1>1, <2>1, <2>2 DEF Sound, Working
<1> HIDE DEF m
<1>4. Loopless(done.props)
  BY <1>1, <1>3, AttachedLoopless, SaveLoopless
<1>5. /\ IF done.verdict = "crash" \/ ~ForeignKeys(done.props) THEN Fail
         ELSE /\ rows' = done.rows
              /\ props' = done.props
              /\ run' = [run EXCEPT !.pending = Tail(@)]
              /\ UNCHANGED last
  BY DEF SaveStep, m
<1> HIDE DEF done
<1>6. CASE done.verdict = "crash" \/ ~ForeignKeys(done.props)
  BY <1>1, <1>2, <1>5, <1>6, FailOpen
<1>7. CASE ~(done.verdict = "crash" \/ ~ForeignKeys(done.props))
  <2>1. Attached(props')
    BY <1>4, <1>5, <1>7, LooplessAttached
  <2>2. run'.before = run.before /\ run'.pending = Tail(run.pending) /\ run'.phase = "apply"
    BY <1>1, <1>5, <1>7 DEF Working
  <2>3. ASSUME NEW i \in DOMAIN run'.pending PROVE Unbound(run'.pending[i])
    <3>1. run.pending \in Seq(Instance) /\ run.pending # <<>>
      BY <1>1 DEF SaveStep, Working
    <3>2. i + 1 \in DOMAIN run.pending /\ run'.pending[i] = run.pending[i + 1]
      BY <2>2, <3>1
    <3>3. QED BY <1>1, <3>2 DEF Sound
  <2>4. Sound(run') /\ ~Cleaned'
    BY <1>1, <2>2, <2>3 DEF Sound, Cleaned
  <2>5. QED BY <1>2, <2>1, <2>4, KeepAttached
<1>8. QED BY <1>6, <1>7

LEMMA ActionSame ==
    ASSUME NEW k, UNCHANGED <<net, rows>>, props'[k] = props[k]
    PROVE  Action(k)' = Action(k)
  BY DEF Action, Matching, Addressed, Same, Active

LEMMA ActionKinds ==
    ASSUME NEW k
    PROVE  /\ props[k].data = "gone" => Action(k) \in {"delete", "noop"}
           /\ props[k].data # "gone" => Action(k) \in {"change", "noop"}
<1> DEFINE found == Matching(rows, k, props[k].data = "gone")
           exists == \E i \in found : Active(rows[i])
           same == \A i \in found : rows[i].oper = props[k].oper
<1>1. Action(k) = CASE props[k].data = "gone" -> IF exists THEN "delete" ELSE "noop"
                    [] exists /\ same -> "noop"
                    [] OTHER -> "change"
  BY DEF Action
<1> HIDE DEF exists, same
<1>2. QED BY <1>1

(* The clean-up keeps what is a requirement, and of the rest what the      *)
(* property asks for.                                                      *)
LEMMA CleanupOpen == ASSUME ImportInv, Cleanup PROVE ImportInv'
<1>1. Working(run) /\ Sound(run) /\ ProposalTable(props) /\ Attached(props)
  BY Running, InUse DEF Cleanup, ImportInv
<1>2. [Next]_vars
  BY DEF Next, RunStep
<1>3. CASE \A k \in DOMAIN props : Unique(k)
  <2> DEFINE K == {k \in DOMAIN props :
                     /\ props[k].req = None
                     /\ \/ Action(k) = "noop"
                        \/ Action(k) = "change" /\ k \notin run.ids}
  <2>1. /\ props' = Without(props, K) /\ run' = [run EXCEPT !.phase = "cleaned"]
        /\ UNCHANGED <<rows, net>>
    BY <1>3 DEF Cleanup
  <2>2. /\ run'.before = run.before /\ run'.pending = run.pending /\ run'.ids = run.ids
    BY <1>1, <2>1 DEF Working
  <2>3. ASSUME NEW k \in DOMAIN props'
        PROVE  /\ k \in DOMAIN props \ K /\ props'[k] = props[k]
               /\ Action(k)' = Action(k)
    <3> HIDE DEF K
    <3>1. k \in DOMAIN props \ K /\ props'[k] = props[k]
      BY <2>1, WithoutThem
    <3>2. QED BY <2>1, <3>1, ActionSame
  <2>4. Attached(props')
    <3> HIDE DEF K
    <3>1. QED BY <1>1, <2>1, WithoutAttached
  <2>5. ASSUME NEW k \in DOMAIN props', props'[k].req = None
        PROVE  IF props'[k].data = "member" THEN k \in run'.ids /\ Action(k)' = "change"
               ELSE Action(k)' = "delete"
    <3>1. k \in DOMAIN props /\ props'[k] = props[k] /\ Action(k)' = Action(k)
      BY <2>3
    <3>2. Action(k) # "noop" /\ ~(Action(k) = "change" /\ k \notin run.ids)
      BY <2>3, <2>5, <3>1
    <3>3. props[k].data \in {"member", "gone"}
      BY <1>1, <3>1 DEF ProposalTable, Proposal
    <3>4. QED BY <2>2, <3>1, <3>2, <3>3, ActionKinds
  <2>6. ProposalsOpen'
    BY <2>4, <2>5 DEF ProposalsOpen, Attached
  <2>7. Sound(run')
    BY <1>1, <2>2 DEF Sound
  <2>8. TypeInv'
    BY <1>2, InvTypes, TypeStep
  <2> HIDE DEF K
  <2>9. QED BY <2>4, <2>6, <2>7, <2>8 DEF ImportInv, TypeInv, Sound, Unbound
<1>4. CASE ~ \A k \in DOMAIN props : Unique(k)
  BY <1>1, <1>2, <1>4, FailOpen DEF Cleanup
<1>5. QED BY <1>3, <1>4

LEMMA FinishOpen == ASSUME ImportInv, NEW K \in SUBSET Aged, Finish(K) PROVE ImportInv'
<1>1. [Next]_vars
  BY DEF Next, RunStep, Finish
<1>2. Attached(props')
  BY WithoutAttached DEF Finish, ImportInv
<1>3. run' = Idle /\ ~Cleaned'
  BY DEF Finish, Cleaned, Idle
<1>4. QED BY <1>1, <1>2, <1>3, KeepAttached

LEMMA UserOpen == ASSUME ImportInv, UserStep PROVE ImportInv'
<1>1. [Next]_vars
  BY DEF Next
<1>2. run' = run /\ run \in {Idle, Failed} /\ props' = props
  BY DEF UserStep, TurnOn, TurnOff, SetSupport, UserAdd, UserDelete, Edit
<1>3. ~Cleaned' /\ Attached(props')
  BY <1>2 DEF Cleaned, Idle, Failed, ImportInv
<1>4. QED BY <1>1, <1>2, <1>3, KeepAttached

LEMMA ImportStep == ImportInv /\ [Next]_vars => ImportInv'
<1> SUFFICES ASSUME ImportInv, [Next]_vars PROVE ImportInv'
  OBVIOUS
<1>1. CASE RunStep
  BY <1>1, StartOpen, ParseOpen, BeginDeletionsOpen, DeleteStepOpen, SaveStepOpen,
     CleanupOpen, FinishOpen DEF RunStep
<1>2. CASE UserStep
  BY <1>2, UserOpen
<1>3. CASE UNCHANGED vars
  <2>1. TypeInv'
    BY InvTypes, TypeStep
  <2>2. UNCHANGED <<net, rows, props, run>>
    BY <1>3 DEF vars
  <2>3. ProposalsOpen'
    <3>1. ASSUME NEW k PROVE Action(k)' = Action(k)
      BY <2>2, ActionSame
    <3>2. ProposalsOpen' <=> ProposalsOpen
      BY <2>2, <3>1 DEF ProposalsOpen, Cleaned
    <3>3. QED BY <3>2 DEF ImportInv
  <2>4. QED BY <2>1, <2>2, <2>3 DEF ImportInv, TypeInv, Attached
<1>4. QED BY <1>1, <1>2, <1>3 DEF Next

(* After a run every proposal that is shown is open, and a deletion that   *)
(* belongs to another proposal belongs to one that exists: clean-up takes  *)
(* requirements along, the database refuses the ones that are not there,   *)
(* and no step makes a proposal its own requirement.                       *)
THEOREM ProposalsOpenHolds == Spec => []ProposalsOpen
<1>1. Init => ImportInv
  <2>1. Init => TypeInv
    BY TypeInit
  <2>2. Init => Attached(props) /\ ~Cleaned /\ run = Idle
    BY DEF Init, Attached, Cleaned, Idle
  <2>3. QED BY <2>1, <2>2 DEF ImportInv, TypeInv, ProposalsOpen
<1>2. ImportInv => ProposalsOpen
  BY DEF ImportInv
<1>3. QED BY <1>1, <1>2, ImportStep, PTL DEF Spec

-----------------------------------------------------------------------------
(* What a run may do to the connections of networks that opted out.        *)

(* From one table to the next, a run may change an active connection of    *)
(* such a network for a reason only, and make active only what allows it.  *)
Permitted(R, S) ==
    /\ DOMAIN R \subseteq DOMAIN S
    /\ \A i \in DOMAIN S :
          /\ i \in DOMAIN R /\ Active(R[i]) /\ ~net[R[i].asn].allow /\ S[i] # R[i]
                => GivenAway(R[i]) \/ Required(R[i])
          /\ Active(S[i]) /\ ~(i \in DOMAIN R /\ Active(R[i]) /\ S[i].asn = R[i].asn)
                => net[S[i].asn].allow

Keeps(R) == DOMAIN run.before.rows \subseteq DOMAIN R /\ Respected(R)

LEMMA PermittedSame == \A R : Permitted(R, R)
  BY DEF Permitted

LEMMA PermittedKeeps ==
    ASSUME NEW R, NEW S, Keeps(R), Permitted(R, S)
    PROVE  Keeps(S)
<1>1. ASSUME NEW i \in DOMAIN S, Active(Before(i)), ~net[Before(i).asn].allow,
             S[i] # Before(i)
      PROVE  GivenAway(Before(i)) \/ Required(Before(i))
  <2>1. i \in DOMAIN run.before.rows
    BY <1>1 DEF Before, Active
  <2>2. i \in DOMAIN R
    BY <2>1 DEF Keeps
  <2>3. CASE R[i] # Before(i)
    BY <1>1, <2>2, <2>3 DEF Keeps, Respected
  <2>4. CASE R[i] = Before(i)
    BY <1>1, <2>2, <2>4 DEF Permitted
  <2>5. QED BY <2>3, <2>4
<1>2. ASSUME NEW i \in DOMAIN S, Active(S[i]),
             ~Active(Before(i)) \/ S[i].asn # Before(i).asn
      PROVE  net[S[i].asn].allow
  <2>1. CASE i \in DOMAIN R /\ Active(R[i]) /\ S[i].asn = R[i].asn
    BY <1>2, <2>1 DEF Keeps, Respected
  <2>2. CASE ~(i \in DOMAIN R /\ Active(R[i]) /\ S[i].asn = R[i].asn)
    BY <1>2, <2>2 DEF Permitted
  <2>3. QED BY <2>1, <2>2
<1>3. DOMAIN run.before.rows \subseteq DOMAIN S
  BY DEF Keeps, Permitted
<1>4. QED BY <1>1, <1>2, <1>3 DEF Keeps, Respected

(* An address of an active connection that the list gives to a network     *)
(* which allows it is its own or given away.                               *)
LEMMA TakenForAllowed ==
    ASSUME NEW R \in Table, NEW j \in DOMAIN R, NEW info \in Netixlan,
           net[info.asn].allow, OnList(KeyOf(info)),
           \/ info.v4 # None /\ R[j].v4 = info.v4
           \/ info.v6 # None /\ R[j].v6 = info.v6
    PROVE  net[R[j].asn].allow \/ GivenAway(R[j])
<1>1. PICK e \in run.feed : KeyOf(e) = KeyOf(info)
  BY DEF OnList
<1>2. e.asn = info.asn /\ e.v4 = info.v4 /\ e.v6 = info.v6
  BY <1>1 DEF KeyOf
<1>3. CASE R[j].asn = info.asn
  BY <1>3
<1>4. CASE R[j].asn # info.asn
  BY <1>2, <1>4 DEF GivenAway, GivenBy
<1>5. QED BY <1>3, <1>4

LEMMA ClaimRows ==
    ASSUME NEW R \in Table, NEW a, NEW v, NEW j \in DOMAIN R
    PROVE  /\ DOMAIN Claim4(R, a, v) = DOMAIN R /\ DOMAIN Claim6(R, a, v) = DOMAIN R
           /\ Claim4(R, a, v)[j].asn = R[j].asn /\ Claim4(R, a, v)[j].status = R[j].status
           /\ Claim6(R, a, v)[j].asn = R[j].asn /\ Claim6(R, a, v)[j].status = R[j].status
           /\ Active(R[j]) => Claim4(R, a, v)[j] = R[j] /\ Claim6(R, a, v)[j] = R[j]
<1>1. R[j] \in Netixlan
  BY RowType
<1> DEFINE r == R[j]
<1>2. /\ [r EXCEPT !.v4 = None].asn = r.asn /\ [r EXCEPT !.v4 = None].status = r.status
      /\ [r EXCEPT !.v6 = None].asn = r.asn /\ [r EXCEPT !.v6 = None].status = r.status
  BY <1>1 DEF Netixlan
<1>3. /\ Claim4(R, a, v)[j] = IF ~Active(r) /\ r.asn # a /\ r.v4 = v
                                THEN [r EXCEPT !.v4 = None] ELSE r
      /\ Claim6(R, a, v)[j] = IF ~Active(r) /\ r.asn # a /\ r.v6 = v
                                THEN [r EXCEPT !.v6 = None] ELSE r
      /\ DOMAIN Claim4(R, a, v) = DOMAIN R /\ DOMAIN Claim6(R, a, v) = DOMAIN R
  BY DEF Claim4, Claim6
<1> HIDE DEF r
<1>4. QED BY <1>2, <1>3 DEF r

(* Claiming addresses touches an active row only if it holds the IPv6      *)
(* address and another row has the IPv4 address.                           *)
LEMMA ClaimedRows ==
    ASSUME NEW R \in Table, NEW info, NEW j \in DOMAIN R
    PROVE  /\ DOMAIN Claimed(R, info) = DOMAIN R
           /\ Claimed(R, info)[j].asn = R[j].asn
           /\ Claimed(R, info)[j].status = R[j].status
           /\ Active(R[j]) /\ Claimed(R, info)[j] # R[j]
                => info.v6 # None /\ R[j].v6 = info.v6
<1> DEFINE i == Target(R, info)
           reset == [l \in DOMAIN R |->
                       IF Holder4(R, info.v4) # {} /\ l \in Holder6(R, info.v6) \ {i}
                         THEN [R[l] EXCEPT !.v6 = None] ELSE R[l]]
           has4 == info.v4 = None \/ i \in Holder4(R, info.v4)
           has6 == info.v6 = None \/ i \in Holder6(R, info.v6)
           claimed4 == IF has4 THEN reset ELSE Claim4(reset, info.asn, info.v4)
<1>1. Claimed(R, info) = IF has6 THEN claimed4 ELSE Claim6(claimed4, info.asn, info.v6)
  BY DEF Claimed
<1>2. /\ DOMAIN reset = DOMAIN R
      /\ reset[j] = R[j] \/ (reset[j] = [R[j] EXCEPT !.v6 = None]
                               /\ j \in Holder6(R, info.v6))
  BY DEF Holder6
<1>3. reset \in Table
  <2> HIDE DEF i
  <2>1. \A l \in DOMAIN R : R[l] \in Netixlan
    BY RowType
  <2>2. reset = [l \in DOMAIN R |-> reset[l]] /\ \A l \in DOMAIN R : reset[l] \in Netixlan
    BY <2>1, NoAddress
  <2> HIDE DEF reset
  <2>3. QED BY <2>2, MapRows
<1> HIDE DEF reset, i, has4, has6
<1>4. R[j] \in Netixlan
  BY RowType
<1>5. /\ reset[j].asn = R[j].asn /\ reset[j].status = R[j].status
      /\ reset[j] # R[j] => info.v6 # None /\ R[j].v6 = info.v6
  BY <1>2, <1>4 DEF Netixlan, Holder6
<1>6. /\ claimed4 \in Table /\ DOMAIN claimed4 = DOMAIN R
      /\ claimed4[j].asn = R[j].asn /\ claimed4[j].status = R[j].status
      /\ Active(R[j]) => claimed4[j] = reset[j]
  <2>1. CASE has4
    BY <1>2, <1>3, <1>5, <2>1
  <2>2. CASE ~has4
    BY <1>2, <1>3, <1>5, <2>2, ClaimRows, ClaimTypes DEF Active
  <2>3. QED BY <2>1, <2>2
<1> HIDE DEF claimed4
<1>7. CASE has6
  BY <1>1, <1>5, <1>6, <1>7
<1>8. CASE ~has6
  BY <1>1, <1>5, <1>6, <1>8, ClaimRows DEF Active
<1>9. QED BY <1>7, <1>8

LEMMA ClaimedPermitted ==
    ASSUME NEW R \in Table, NEW info \in Netixlan, net[info.asn].allow, OnList(KeyOf(info))
    PROVE  Permitted(R, Claimed(R, info))
<1> DEFINE S == Claimed(R, info)
<1>1. DOMAIN S = DOMAIN R
  <2>1. CASE DOMAIN R # {}
    BY <2>1, ClaimedRows
  <2>2. CASE DOMAIN R = {}
    BY <2>2 DEF Claimed, Claim4, Claim6
  <2>3. QED BY <2>1, <2>2
<1> HIDE DEF S
<1>2. ASSUME NEW i \in DOMAIN R
      PROVE  /\ Active(R[i]) /\ ~net[R[i].asn].allow /\ S[i] # R[i] => GivenAway(R[i])
             /\ Active(S[i]) => Active(R[i]) /\ S[i].asn = R[i].asn
  BY ClaimedRows, TakenForAllowed DEF S, Active
<1>3. QED BY <1>1, <1>2 DEF Permitted, S

LEMMA TargetIs ==
    ASSUME NEW R \in Table, NEW info
    PROVE  \/ Target(R, info) \in Holder4(R, info.v4) \cup Holder6(R, info.v6)
           \/ Target(R, info) = Len(R) + 1
<1>1. CASE Holder4(R, info.v4) # {}
  BY <1>1 DEF Target
<1>2. CASE Holder4(R, info.v4) = {} /\ Holder6(R, info.v6) # {}
  BY <1>2 DEF Target
<1>3. CASE Holder4(R, info.v4) = {} /\ Holder6(R, info.v6) = {}
  BY <1>3 DEF Target
<1>4. QED BY <1>1, <1>2, <1>3

LEMMA AddNetixlanPermitted ==
    ASSUME NEW R \in Table, NEW info \in Netixlan, net[info.asn].allow, OnList(KeyOf(info))
    PROVE  Permitted(R, AddNetixlan(R, info).rows)
<1> DEFINE C == Claimed(R, info)
           t == Target(R, info)
           S == Put(C, t, info)
<1>1. C \in Table /\ DOMAIN C = DOMAIN R /\ Permitted(R, C)
  <2>1. Permitted(R, C) /\ C \in Table
    BY ClaimedPermitted, ClaimedType
  <2>2. DOMAIN C = DOMAIN R
    <3>1. CASE DOMAIN R # {}
      BY <3>1, ClaimedRows
    <3>2. CASE DOMAIN R = {}
      BY <3>2 DEF Claimed, Claim4, Claim6
    <3>3. QED BY <3>1, <3>2
  <2>3. QED BY <2>1, <2>2
<1>2. t \in Holder4(R, info.v4) \cup Holder6(R, info.v6) \/ t = Len(R) + 1
  BY TargetIs
<1>3. DOMAIN R = 1..Len(R) /\ Len(R) \in Nat
  BY DEF Table
<1> HIDE DEF C, t
<1>4. /\ DOMAIN S = DOMAIN R \cup {t}
      /\ S[t] = info
      /\ \A i \in DOMAIN R \ {t} : S[i] = C[i]
  <2>1. CASE t \in DOMAIN C
    BY <1>1, <2>1 DEF Put
  <2>2. CASE t \notin DOMAIN C
    <3>1. t = Len(C) + 1 /\ Len(C) = Len(R) /\ DOMAIN C = 1..Len(C)
      <4>1. Len(C) = Len(R) /\ DOMAIN C = 1..Len(C)
        BY <1>1, <1>3 DEF Table
      <4>2. QED BY <1>1, <1>2, <2>2, <4>1 DEF Holder4, Holder6
    <3>2. S = Append(C, info) /\ C \in Seq(Netixlan)
      BY <1>1, <2>2 DEF Put, Table
    <3> HIDE DEF S
    <3>3. /\ Len(S) = Len(C) + 1 /\ S \in Seq(Netixlan)
          /\ \A i \in 1..Len(C) : S[i] = C[i]
          /\ S[Len(C) + 1] = info
      BY <3>2
    <3>4. QED BY <1>1, <1>3, <3>1, <3>3
  <2>3. QED BY <2>1, <2>2
<1> HIDE DEF S
<1>5. ASSUME NEW i \in DOMAIN S
      PROVE  /\ i \in DOMAIN R /\ Active(R[i]) /\ ~net[R[i].asn].allow /\ S[i] # R[i]
                   => GivenAway(R[i]) \/ Required(R[i])
             /\ Active(S[i]) /\ ~(i \in DOMAIN R /\ Active(R[i]) /\ S[i].asn = R[i].asn)
                   => net[S[i].asn].allow
  <2>1. CASE i = t
    <3>1. ASSUME t \in DOMAIN R PROVE net[R[t].asn].allow \/ GivenAway(R[t])
      <4>1. \/ info.v4 # None /\ R[t].v4 = info.v4
            \/ info.v6 # None /\ R[t].v6 = info.v6
        BY <1>2, <1>3, <3>1 DEF Holder4, Holder6
      <4>2. QED BY <3>1, <4>1, TakenForAllowed
    <3>2. QED BY <1>4, <2>1, <3>1
  <2>2. CASE i # t
    BY <1>1, <1>4, <2>2 DEF Permitted
  <2>3. QED BY <2>1, <2>2
<1>6. Permitted(R, S)
  BY <1>4, <1>5 DEF Permitted
<1>7. AddNetixlan(R, info).rows \in {R, C, S}
  BY DEF AddNetixlan, C, S, t
<1>8. QED BY <1>1, <1>6, <1>7, PermittedSame

(* A proposal that is applied may delete what it stands for, or it stands  *)
(* for an entry of the list, of a network that allows it.                  *)
Warranted(k, data) ==
    IF data = "gone" THEN net[k.asn].allow \/ GivenAway(k) \/ Required(k)
    ELSE net[k.asn].allow /\ OnList(k)

DualStacked == \A a \in Asns : net[a].p4 /\ net[a].p6

LEMMA KeyOfKey ==
    ASSUME NEW k \in Key
    PROVE  KeyOf(k) = k
  BY DEF KeyOf, Key

LEMMA SameIsEqual ==
    ASSUME DualStacked, NEW k \in Key, NEW l, NEW exact, Same(k, l, exact)
    PROVE  KeyOf(l) = k
<1>1. k.asn \in Asns
  BY DEF Key
<1>2. k.asn = l.asn /\ k.v4 = l.v4 /\ k.v6 = l.v6
  BY <1>1 DEF Same, DualStacked
<1>3. QED BY <1>2 DEF KeyOf, Key

LEMMA WarrantedRow ==
    ASSUME NEW k \in Key, Warranted(k, "gone"), NEW r, KeyOf(r) = k
    PROVE  net[r.asn].allow \/ GivenAway(r) \/ Required(r)
<1>1. r.asn = k.asn /\ r.v4 = k.v4 /\ r.v6 = k.v6
  BY DEF KeyOf
<1>2. KeyOf(k) = KeyOf(r)
  BY KeyOfKey
<1>3. Required(k) => Required(r)
  BY <1>2 DEF Required
<1>4. GivenAway(k) => GivenAway(r)
  BY <1>1 DEF GivenAway, GivenBy
<1>5. QED BY <1>1, <1>3, <1>4 DEF Warranted

LEMMA ApplyOnePermitted ==
    ASSUME DualStacked, NEW R \in Table, NEW m \in Instance, NEW reassigned,
           Warranted(m.key, m.now.data)
    PROVE  Permitted(R, ApplyOne(R, m, reassigned).rows)
<1> DEFINE found == Matching(R, m.key, m.now.data = "gone")
           i == CHOOSE i \in found : TRUE
           info == AddInfo(R, m, found)
           absent == IF found = {} THEN TRUE ELSE ~Active(R[i])
           S == ApplyOne(R, m, reassigned).rows
           gone == [R EXCEPT ![i].status = "deleted"]
           modified == [R EXCEPT ![i].oper = m.now.oper]
<1>1. m.key \in Key /\ m.now.data \in {"member", "gone"}
  BY DEF Instance, Proposal
<1>2. ASSUME NEW j \in found PROVE j \in DOMAIN R /\ KeyOf(R[j]) = m.key
  BY <1>1, <1>2, SameIsEqual DEF Matching
<1>3. ApplyOne(R, m, reassigned) =
        IF Cardinality(found) > 1 THEN [rows |-> R, verdict |-> "crash"] ELSE
        CASE found = {} /\ m.now.data = "gone" /\ reassigned -> InsertDeleted(R, m)
          [] absent /\ m.now.data = "gone" /\ ~(found = {} /\ reassigned) ->
               [rows |-> R, verdict |-> "noop"]
          [] ~absent /\ m.now.data = "gone" ->
               [rows |-> gone, verdict |-> "delete"]
          [] absent /\ m.now.data = "member" ->
               IF info.v4 = None /\ info.v6 = None
                 THEN [rows |-> R, verdict |-> "noop"]
                 ELSE AddNetixlan(R, info)
          [] ~absent /\ m.now.data = "member" ->
               [rows |-> modified, verdict |-> "modify"]
  BY DEF ApplyOne
<1>4. Permitted(R, InsertDeleted(R, m).rows)
  <2> DEFINE r == [asn |-> m.key.asn, v4 |-> m.key.v4, v6 |-> m.key.v6,
                   oper |-> m.now.oper, here |-> TRUE, status |-> "deleted"]
  <2>1. InsertDeleted(R, m).rows \in {R, Append(R, r)}
    BY DEF InsertDeleted
  <2>2. Permitted(R, Append(R, r))
    <3>1. ~Active(r)
      BY DEF Active
    <3> HIDE DEF r
    <3>2. /\ DOMAIN Append(R, r) = DOMAIN R \cup {Len(R) + 1} /\ Len(R) + 1 \notin DOMAIN R
          /\ \A j \in DOMAIN R : Append(R, r)[j] = R[j]
          /\ Append(R, r)[Len(R) + 1] = r
      BY DEF Table
    <3>3. QED BY <3>1, <3>2 DEF Permitted
  <2> HIDE DEF r
  <2>3. QED BY <2>1, <2>2, PermittedSame
<1>5. ASSUME ~absent, m.now.data = "gone" PROVE Permitted(R, gone)
  <2>1. i \in found /\ i \in DOMAIN R /\ KeyOf(R[i]) = m.key
    BY <1>2, <1>5
  <2> HIDE DEF i, found
  <2>2. R[i] \in Netixlan
    BY <2>1, RowType
  <2>3. net[R[i].asn].allow \/ GivenAway(R[i]) \/ Required(R[i])
    BY <1>1, <1>5, <2>1, WarrantedRow
  <2>4. gone[i] = [R[i] EXCEPT !.status = "deleted"] /\ DOMAIN gone = DOMAIN R
        /\ \A j \in DOMAIN R \ {i} : gone[j] = R[j]
    BY <2>1 DEF Table
  <2>5. ~Active(gone[i])
    BY <2>2, <2>4 DEF Active, Netixlan
  <2> HIDE DEF gone
  <2>6. QED BY <2>3, <2>4, <2>5 DEF Permitted
<1>6. ASSUME ~absent, m.now.data = "member" PROVE Permitted(R, modified)
  <2>1. i \in found /\ i \in DOMAIN R /\ KeyOf(R[i]) = m.key
    BY <1>2, <1>6
  <2> HIDE DEF i, found
  <2>2. R[i] \in Netixlan
    BY <2>1, RowType
  <2>3. net[R[i].asn].allow
    BY <1>6, <2>1 DEF Warranted, KeyOf
  <2>4. modified[i] = [R[i] EXCEPT !.oper = m.now.oper] /\ DOMAIN modified = DOMAIN R
        /\ \A j \in DOMAIN R \ {i} : modified[j] = R[j]
    BY <2>1 DEF Table
  <2>5. modified[i].asn = R[i].asn
    BY <2>2, <2>4 DEF Netixlan
  <2> HIDE DEF modified
  <2>6. QED BY <2>3, <2>4, <2>5 DEF Permitted
<1>7. ASSUME m.now.data = "member" PROVE Permitted(R, AddNetixlan(R, info).rows)
  <2>1. info \in Netixlan
    <3>1. found \subseteq DOMAIN R
      BY DEF Matching
    <3>2. QED BY <3>1, AddInfoType
  <2>2. info.asn = m.key.asn /\ KeyOf(info) = m.key
    <3> DEFINE from == IF found = {} THEN m.key
                       ELSE KeyOf(R[CHOOSE j \in found : TRUE])
    <3>1. from = m.key
      BY <1>2
    <3>2. net[m.key.asn].p4 /\ net[m.key.asn].p6
      BY <1>1 DEF DualStacked, Key
    <3>3. info = [asn |-> m.key.asn,
                  v4 |-> IF net[m.key.asn].p4 THEN from.v4 ELSE None,
                  v6 |-> IF net[m.key.asn].p6 THEN from.v6 ELSE None,
                  oper |-> m.now.oper, here |-> TRUE, status |-> "ok"]
      BY DEF AddInfo
    <3> HIDE DEF from, info
    <3>4. info.asn = m.key.asn /\ info.v4 = m.key.v4 /\ info.v6 = m.key.v6
      BY <3>1, <3>2, <3>3
    <3>5. QED BY <1>1, <3>4 DEF KeyOf, Key
  <2> HIDE DEF info
  <2>3. net[info.asn].allow /\ OnList(KeyOf(info))
    BY <1>7, <2>2 DEF Warranted
  <2>4. QED BY <2>1, <2>3, AddNetixlanPermitted
<1> HIDE DEF found, i, info, absent, gone, modified
<1>8. S \in {R, InsertDeleted(R, m).rows}
      \/ (~absent /\ m.now.data = "gone" /\ S = gone)
      \/ (~absent /\ m.now.data = "member" /\ S = modified)
      \/ (m.now.data = "member" /\ S = AddNetixlan(R, info).rows)
  BY <1>1, <1>3
<1> HIDE DEF S
<1>9. Permitted(R, S)
  BY <1>4, <1>5, <1>6, <1>7, <1>8, PermittedSame
<1>10. QED BY <1>9 DEF S

(* The proposals that are applied with m are warranted, or m is itself. *)
WarrantedAll(P, m) ==
    /\ Warranted(m.key, m.now.data)
    /\ m.saved => \A k \in Dependents(P, {m.key}) \ {m.key} : Warranted(k, P[k].data)

LEMMA ApplyNextKeeps ==
    ASSUME DualStacked, NEW P, ProposalTable(P), NEW m \in Instance, NEW reassigned,
           WarrantedAll(P, m),
           NEW s \in [rows : Table, verdict : Verdicts, left : SUBSET Applied(P, m)],
           Keeps(s.rows)
    PROVE  Keeps(ApplyNext(P, m, reassigned, s).rows)
<1> DEFINE ready == {k \in s.left : \A j \in s.left \cap DOMAIN P : P[j].req # k}
           k == CHOOSE k \in ready : TRUE
           done == IF k = m.key THEN ApplyOne(s.rows, m, reassigned)
                   ELSE ApplyOne(s.rows, FromTable(P, k), FALSE)
<1>1. s.rows \in Table /\ s.left \subseteq Applied(P, m)
  OBVIOUS
<1>2. ASSUME ready # {} PROVE Permitted(s.rows, done.rows)
  <2>1. k \in ready
    BY <1>2
  <2>2. k \in Applied(P, m)
    BY <1>1, <2>1
  <2> HIDE DEF k, ready
  <2>3. CASE k = m.key
    BY <1>1, <2>3, ApplyOnePermitted DEF WarrantedAll
  <2>4. CASE k # m.key
    <3>1. m.saved /\ k \in Dependents(P, {m.key}) \ {m.key} /\ k \in DOMAIN P
      BY <2>2, <2>4, DependentsThere DEF Applied
    <3>2. FromTable(P, k) \in Instance
      BY <3>1, FromTableType
    <3>3. FromTable(P, k).key = k /\ FromTable(P, k).now.data = P[k].data
      BY DEF FromTable
    <3>4. Permitted(s.rows, ApplyOne(s.rows, FromTable(P, k), FALSE).rows)
      BY <1>1, <3>1, <3>2, <3>3, ApplyOnePermitted DEF WarrantedAll
    <3>5. QED BY <2>4, <3>4
  <2>5. QED BY <2>3, <2>4
<1>3. ApplyNext(P, m, reassigned, s) =
        CASE Stopped(s) -> s
          [] ~Stopped(s) /\ ready = {} -> [s EXCEPT !.verdict = "crash"]
          [] ~Stopped(s) /\ ready # {} ->
               [rows |-> done.rows, verdict |-> done.verdict, left |-> s.left \ {k}]
  BY DEF ApplyNext
<1> HIDE DEF ready, k, done
<1>4. ASSUME ready # {} PROVE Keeps(done.rows)
  BY <1>2, <1>4, PermittedKeeps
<1>5. ApplyNext(P, m, reassigned, s).rows = s.rows
      \/ (ready # {} /\ ApplyNext(P, m, reassigned, s).rows = done.rows)
  BY <1>3
<1>6. QED BY <1>4, <1>5

LEMMA ApplyKeeps ==
    ASSUME DualStacked, NEW R \in Table, Keeps(R), NEW P, ProposalTable(P),
           NEW m \in Instance, NEW reassigned, WarrantedAll(P, m)
    PROVE  Keeps(Apply(R, P, m, reassigned).rows)
<1> DEFINE T == [rows : Table, verdict : Verdicts, left : SUBSET Applied(P, m)]
           X == {s \in T : Keeps(s.rows)}
<1>1. [rows |-> R, verdict |-> "noop", left |-> Applied(P, m)] \in X
  BY DEF Verdicts
<1>2. ASSUME NEW s \in X PROVE ApplyNext(P, m, reassigned, s) \in X
  <2>1. s \in T /\ Keeps(s.rows)
    OBVIOUS
  <2>2. Applied(P, m) \subseteq DOMAIN P \cup {m.key}
    BY DependentsThere DEF Applied
  <2>3. ApplyNext(P, m, reassigned, s) \in T
    BY <2>1, <2>2, ApplyNextType
  <2>4. Keeps(ApplyNext(P, m, reassigned, s).rows)
    BY <2>1, ApplyNextKeeps
  <2>5. QED BY <2>3, <2>4
<1> HIDE DEF X
<1>3. Apply(R, P, m, reassigned) \in X
  BY <1>1, <1>2, ApplyStays
<1>4. QED BY <1>3 DEF X

(* What has to be deleted or added along with an object is a requirement   *)
(* of the same network.                                                    *)
LEMMA DependentsOf ==
    ASSUME NEW P, ProposalTable(P), SameNetwork(P), NEW key \in Key,
           NEW k \in Dependents(P, {key}) \ {key}
    PROVE  k \in DOMAIN P /\ P[k].req # None /\ k.asn = key.asn
<1> DEFINE C == {j \in DOMAIN P : j.asn = key.asn /\ (j = key \/ P[j].req # None)}
<1>1. C \in SUBSET DOMAIN P /\ {key} \cap DOMAIN P \subseteq C
  OBVIOUS
<1>2. ASSUME NEW j \in DOMAIN P, P[j].req \in C PROVE j \in C
  <2>1. P[j].req \in Key
    BY <1>2 DEF ProposalTable
  <2>2. P[j].req # None
    BY <2>1, KeyAssumption
  <2>3. QED BY <1>2, <2>2 DEF SameNetwork
<1>3. Closed(P, C)
  BY <1>2 DEF Closed
<1> HIDE DEF C
<1>4. k \in C
  BY <1>1, <1>3 DEF Dependents
<1>5. QED BY <1>4 DEF C

(* What a round of process_saves writes to the proposals: the object, and  *)
(* deletions that become its requirements: those of its network that have  *)
(* an address in common with it.                                           *)
Shares(k, m) ==
    /\ k.asn = m.key.asn
    /\ \/ k.v4 # None /\ k.v4 = m.i4
       \/ k.v6 # None /\ k.v6 = m.i6

Written(P, m, deletions, Q) ==
    \A k \in DOMAIN Q :
       \/ k \in DOMAIN P /\ Q[k] = P[k]
       \/ k = m.key /\ Q[k].req = m.now.req /\ Q[k].data = m.now.data
       \/ \E d \in deletions : /\ k = d.key /\ Shares(k, m)
                               /\ Q[k].req = m.key /\ Q[k].data = d.now.data

LEMMA WrittenThen ==
    ASSUME NEW P, NEW m, NEW deletions, NEW Q, NEW S,
           Written(P, m, deletions, Q), Written(Q, m, deletions, S)
    PROVE  Written(P, m, deletions, S)
<1>1. ASSUME NEW k \in DOMAIN S, k \in DOMAIN Q, S[k] = Q[k]
      PROVE  \/ k \in DOMAIN P /\ S[k] = P[k]
             \/ k = m.key /\ S[k].req = m.now.req /\ S[k].data = m.now.data
             \/ \E d \in deletions : /\ k = d.key /\ Shares(k, m)
                                     /\ S[k].req = m.key /\ S[k].data = d.now.data
  BY <1>1 DEF Written
<1>2. QED BY <1>1 DEF Written

LEMMA StoreWritten ==
    ASSUME NEW P, NEW m \in Instance, NEW deletions, NEW e \in BOOLEAN
    PROVE  /\ Written(P, m, deletions, P)
           /\ Written(P, m, deletions, Store(P, m))
           /\ Written(P, m, deletions, Store(P, [m EXCEPT !.now.error = e]))
<1> DEFINE n == [m EXCEPT !.now.error = e]
<1>1. n.key = m.key
  BY DEF Instance
<1>2. n.now.req = m.now.req /\ n.now.data = m.now.data
  BY DEF Instance, Proposal
<1> HIDE DEF n
<1>3. Written(P, m, deletions, Store(P, n))
  BY <1>1, <1>2 DEF Written, Store
<1>4. QED BY <1>3 DEF Written, Store, n

LEMMA WithoutWritten ==
    ASSUME NEW P, NEW m, NEW deletions, NEW K
    PROVE  Written(P, m, deletions, Without(P, K))
  BY WithoutThem DEF Written

LEMMA ConsolidateWritten ==
    ASSUME NEW R, NEW P, NEW m \in Instance, NEW deletions \in SUBSET Instance
    PROVE  Written(P, m, deletions, Consolidate(R, P, m, deletions))
<1> DEFINE touching == {d \in deletions :
                          /\ d.key.asn = m.key.asn
                          /\ \/ d.key.v4 # None /\ d.key.v4 = m.i4
                             \/ d.key.v6 # None /\ d.key.v6 = m.i6}
           required == {d \in touching :
                          /\ ~(d.key \in DOMAIN P /\ P[d.key].req = m.key)
                          /\ Matching(R, d.key, TRUE) \cap Matching(R, m.key, FALSE) = {}}
           keys == {d.key : d \in required}
           with == [k \in DOMAIN P \cup keys |->
                      IF k \in keys
                        THEN [(CHOOSE d \in required : d.key = k).now
                                EXCEPT !.req = m.key]
                        ELSE P[k]]
           n == [m EXCEPT !.now.error = FALSE]
<1>1. Consolidate(R, P, m, deletions) = IF required = {} THEN P ELSE Store(with, n)
  BY DEF Consolidate
<1>2. required \subseteq deletions /\ \A d \in required : Shares(d.key, m)
  BY DEF Shares
<1> HIDE DEF required
<1>3. ASSUME NEW k \in keys
      PROVE  \E d \in deletions : /\ k = d.key /\ Shares(k, m)
                                  /\ with[k].req = m.key /\ with[k].data = d.now.data
  <2> DEFINE d == CHOOSE d \in required : d.key = k
  <2>1. d \in required /\ d.key = k
    BY <1>3
  <2>2. with[k] = [d.now EXCEPT !.req = m.key]
    BY <1>3
  <2> HIDE DEF d, with
  <2>3. d.now \in Proposal
    BY <1>2, <2>1 DEF Instance
  <2>4. with[k].req = m.key /\ with[k].data = d.now.data
    BY <2>2, <2>3 DEF Proposal
  <2>5. QED BY <1>2, <2>1, <2>4
<1>4. \A k \in DOMAIN with : k \in keys \/ (k \in DOMAIN P /\ with[k] = P[k])
  OBVIOUS
<1> HIDE DEF with, keys
<1>5. Written(P, m, deletions, with)
  BY <1>3, <1>4 DEF Written
<1>6. Written(with, m, deletions, Store(with, n))
  BY StoreWritten
<1> HIDE DEF n
<1>7. Written(P, m, deletions, Store(with, n))
  BY <1>5, <1>6, WrittenThen
<1>8. QED BY <1>1, <1>7, StoreWritten

LEMMA SaveWritten ==
    ASSUME NEW R, NEW P, NEW m \in Instance, NEW deletions \in SUBSET Instance
    PROVE  Written(P, m, deletions, Save(R, P, m, deletions).props)
<1> DEFINE W(Q) == Written(P, m, deletions, Q)
           added == SetAdd(R, P, m)
           with == Consolidate(added.rows, added.props, m, deletions)
<1>1. W(P) /\ W(Store(P, m)) /\ \A e \in BOOLEAN : W(Store(P, [m EXCEPT !.now.error = e]))
  BY StoreWritten
<1>2. W(Resolve(P, m)) /\ W(SetConflict(P, m)) /\ W(SetUpdate(P, m))
  BY <1>1, WithoutWritten DEF Resolve, SetConflict, SetUpdate
<1>3. W(added.props)
  <2> DEFINE freed == IF Matching(R, m.key, FALSE) = {}
                         /\ ~(Outside(m.key.v4) \/ Outside(m.key.v6)) THEN FreeGhosts(R, m) ELSE R
             invalid == /\ Matching(R, m.key, FALSE) = {}
                        /\ Outside(m.key.v4) \/ Outside(m.key.v6) \/ Collides(freed, 0, m.key)
  <2>1. invalid \in BOOLEAN
    OBVIOUS
  <2>2. added.props = IF ~m.saved THEN Store(P, [m EXCEPT !.now.error = invalid])
                      ELSE IF Differs(m) THEN Store(P, m) ELSE P
    BY DEF SetAdd
  <2> HIDE DEF added, invalid, W
  <2>3. QED BY <1>1, <2>1, <2>2
<1>4. W(with)
  <2>1. Written(added.props, m, deletions, with)
    BY ConsolidateWritten
  <2> HIDE DEF added, with
  <2>2. QED BY <1>3, <2>1, WrittenThen
<1>5. added = [rows |-> added.rows, verdict |-> added.verdict, props |-> added.props]
  BY DEF SetAdd
<1> DEFINE found == Matching(R, m.key, FALSE)
           exists == \E i \in found : Active(R[i])
           listed == exists /\ \A i \in found : R[i].oper = m.now.oper
           allow == net[m.key.asn].allow
           applied == Apply(R, P, m, FALSE)
           settled == [rows |-> applied.rows, verdict |-> applied.verdict,
                       props |-> CASE applied.verdict = "invalid" -> SetConflict(P, m)
                                   [] applied.verdict = "noop" /\ ~exists -> Resolve(P, m)
                                   [] OTHER -> P]
<1>6. Save(R, P, m, deletions) =
        IF Cardinality(found) > 1 THEN [rows |-> R, props |-> P, verdict |-> "crash"] ELSE
        CASE listed -> [rows |-> R, props |-> Resolve(P, m), verdict |-> "noop"]
          [] exists /\ ~listed /\ ~allow ->
                 [rows |-> R, props |-> SetUpdate(P, m), verdict |-> "noop"]
          [] ~exists /\ ~allow -> [added EXCEPT !.props = with]
          [] OTHER -> settled
  BY DEF Save
<1> HIDE DEF W, found, exists, listed, allow, added, with, applied
<1>7. settled.props \in {P, SetConflict(P, m), Resolve(P, m)}
  OBVIOUS
<1> HIDE DEF settled
<1>8. [added EXCEPT !.props = with].props = with
  BY <1>5
<1>9. Save(R, P, m, deletions).props
        \in {P, Resolve(P, m), SetUpdate(P, m), SetConflict(P, m), with}
  BY <1>6, <1>7, <1>8
<1>10. W(Save(R, P, m, deletions).props)
  BY <1>1, <1>2, <1>4, <1>9
<1>11. QED BY <1>10 DEF W

(* ... and what it does to the connections.                                *)
LEMMA FreeGhostsPermitted ==
    ASSUME NEW R \in Table, NEW m \in Instance, OnList(m.key)
    PROVE  Permitted(R, FreeGhosts(R, m))
<1> DEFINE S == FreeGhosts(R, m)
<1>1. PICK e \in run.feed : KeyOf(e) = m.key
  BY DEF OnList
<1>2. e.asn = m.key.asn /\ e.v4 = m.key.v4 /\ e.v6 = m.key.v6
  BY <1>1 DEF KeyOf
<1>3. DOMAIN S = DOMAIN R
  BY DEF FreeGhosts
<1>4. ASSUME NEW i \in DOMAIN R
      PROVE  /\ S[i] # R[i] => GivenAway(R[i])
             /\ Active(S[i]) => Active(R[i]) /\ S[i].asn = R[i].asn
  <2> DEFINE r == R[i]
             ghost == Active(r) /\ r.asn # m.key.asn
             v4 == IF ghost /\ r.v4 = m.key.v4 THEN None ELSE r.v4
             v6 == IF ghost /\ r.v6 = m.key.v6 THEN None ELSE r.v6
             status == IF <<v4, v6>> # <<r.v4, r.v6>> /\ v4 = None /\ v6 = None
                         THEN "deleted" ELSE r.status
  <2>1. S[i] = [r EXCEPT !.v4 = v4, !.v6 = v6, !.status = status]
    BY DEF FreeGhosts
  <2>2. r \in Netixlan
    BY RowType
  <2>3. <<v4, v6>> # <<r.v4, r.v6>> => GivenAway(r)
    BY <1>2 DEF GivenAway, GivenBy
  <2>4. <<v4, v6>> = <<r.v4, r.v6>> => v4 = r.v4 /\ v6 = r.v6 /\ status = r.status
    OBVIOUS
  <2>5. status \in {"deleted", r.status}
    OBVIOUS
  <2> HIDE DEF r, v4, v6, status, S
  <2>6. S[i].asn = r.asn /\ S[i].status = status
    BY <2>1, <2>2 DEF Netixlan
  <2>7. v4 = r.v4 /\ v6 = r.v6 /\ status = r.status => S[i] = r
    BY <2>1, <2>2 DEF Netixlan
  <2>8. QED BY <2>3, <2>4, <2>5, <2>6, <2>7 DEF r, Active
<1> HIDE DEF S
<1>5. QED BY <1>3, <1>4 DEF Permitted, S

LEMMA SaveKeeps ==
    ASSUME DualStacked, NEW R \in Table, Keeps(R), NEW P, ProposalTable(P), SameNetwork(P),
           NEW m \in Instance, m.now.data = "member", OnList(m.key),
           \A k \in DOMAIN P : P[k].req # None /\ P[k].data = "member" => OnList(k),
           NEW deletions
    PROVE  Keeps(Save(R, P, m, deletions).rows)
<1> DEFINE found == Matching(R, m.key, FALSE)
           exists == \E i \in found : Active(R[i])
           listed == exists /\ \A i \in found : R[i].oper = m.now.oper
           applied == Apply(R, P, m, FALSE)
           allow == net[m.key.asn].allow
           added == SetAdd(R, P, m)
           settled == [rows |-> applied.rows, verdict |-> applied.verdict,
                       props |-> CASE applied.verdict = "invalid" -> SetConflict(P, m)
                                   [] applied.verdict = "noop" /\ ~exists -> Resolve(P, m)
                                   [] OTHER -> P]
<1>1. Keeps(added.rows)
  <2>1. added.rows \in {R, FreeGhosts(R, m)}
    BY DEF SetAdd
  <2>2. Keeps(FreeGhosts(R, m))
    BY FreeGhostsPermitted, PermittedKeeps
  <2>3. QED BY <2>1, <2>2
<1>2. ASSUME allow PROVE Keeps(applied.rows)
  <2>1. m.key \in Key
    BY DEF Instance
  <2>2. ASSUME NEW k \in Dependents(P, {m.key}) \ {m.key}
        PROVE  Warranted(k, P[k].data)
    <3>1. k \in DOMAIN P /\ P[k].req # None /\ k.asn = m.key.asn
      BY <2>1, DependentsOf
    <3>2. P[k].data \in {"member", "gone"}
      BY <3>1 DEF ProposalTable, Proposal
    <3>3. QED BY <1>2, <3>1, <3>2 DEF Warranted
  <2>3. Warranted(m.key, m.now.data)
    BY <1>2 DEF Warranted
  <2>4. WarrantedAll(P, m)
    BY <2>2, <2>3 DEF WarrantedAll
  <2>5. QED BY <2>4, ApplyKeeps
<1>3. added = [rows |-> added.rows, verdict |-> added.verdict, props |-> added.props]
  BY DEF SetAdd
<1>4. Save(R, P, m, deletions) =
        IF Cardinality(found) > 1 THEN [rows |-> R, props |-> P, verdict |-> "crash"] ELSE
        CASE listed -> [rows |-> R, props |-> Resolve(P, m), verdict |-> "noop"]
          [] exists /\ ~listed /\ ~allow ->
                 [rows |-> R, props |-> SetUpdate(P, m), verdict |-> "noop"]
          [] ~exists /\ ~allow ->
               [added EXCEPT !.props = Consolidate(added.rows, added.props, m, deletions)]
          [] OTHER -> settled
  BY DEF Save
<1>5. settled.rows = applied.rows
  OBVIOUS
<1> HIDE DEF found, exists, listed, applied, allow, added, settled
<1>6. [added EXCEPT !.props = Consolidate(added.rows, added.props, m, deletions)].rows
        = added.rows
  BY <1>3
<1>7. Save(R, P, m, deletions).rows \in {R, added.rows}
      \/ (allow /\ Save(R, P, m, deletions).rows = applied.rows)
  BY <1>4, <1>5, <1>6
<1>8. QED BY <1>1, <1>2, <1>7

LEMMA InstantiateDual ==
    ASSUME DualStacked, NEW P, ProposalTable(P), NEW k \in Key,
           NEW data \in {"member", "gone"}, NEW oper \in Operational
    PROVE  LET m == Instantiate(P, k, data, oper) IN
           /\ m \in Instance /\ m.key = k /\ m.now.data = data
           /\ m.now.req # None => k \in DOMAIN P /\ m.now.req = P[k].req
<1>1. CASE Candidates(P, k) # {}
  <2> DEFINE j == CHOOSE j \in Candidates(P, k) : TRUE
             p == [P[j] EXCEPT !.data = data, !.oper = oper]
  <2>1. j \in DOMAIN P /\ Same(k, j, FALSE)
    BY <1>1 DEF Candidates
  <2>2. Instantiate(P, k, data, oper) =
          [key |-> j, i4 |-> k.v4, i6 |-> k.v6, saved |-> TRUE, now |-> p, was |-> P[j]]
    BY <1>1 DEF Instantiate
  <2> HIDE DEF j
  <2>3. j = k
    <3>1. j \in Key
      BY <2>1 DEF ProposalTable
    <3>2. QED BY <2>1, <3>1, SameIsEqual, KeyOfKey
  <2>4. P[j] \in Proposal
    BY <2>1 DEF ProposalTable
  <2>5. p.data = data
    BY <2>4 DEF Proposal
  <2> HIDE DEF p
  <2>6. Instantiate(P, k, data, oper).key = k /\ Instantiate(P, k, data, oper).now = p
    BY <2>2, <2>3
  <2>7. QED BY <2>5, <2>6, InstantiateType, InstantiateReq
<1>2. CASE Candidates(P, k) = {}
  <2> DEFINE new == [data |-> data, oper |-> oper, req |-> None, error |-> FALSE]
             key == [asn |-> k.asn,
                     v4 |-> IF net[k.asn].p4 \/ data = "gone" THEN k.v4 ELSE None,
                     v6 |-> IF net[k.asn].p6 \/ data = "gone" THEN k.v6 ELSE None]
  <2>1. Instantiate(P, k, data, oper) =
          [key |-> key, i4 |-> k.v4, i6 |-> k.v6, saved |-> FALSE, now |-> new, was |-> new]
    BY <1>2 DEF Instantiate
  <2>2. new.data = data /\ new.req = None
    OBVIOUS
  <2>3. key = k
    BY DEF DualStacked, Key
  <2>4. Instantiate(P, k, data, oper) \in Instance
    BY InstantiateType
  <2> HIDE DEF new, key
  <2>5. QED BY <2>1, <2>2, <2>3, <2>4
<1>3. QED BY <1>1, <1>2

LEMMA DedupedFrom ==
    ASSUME NEW P, NEW k, NEW j \in DOMAIN Deduped(P, k)
    PROVE  j \in DOMAIN P /\ Deduped(P, k)[j] = P[j]
  BY WithoutThem DEF Deduped

(* Until the list is saved, requirements are deletions, and were           *)
(* requirements when the run began.                                        *)
Inherited(P) ==
    /\ SameNetwork(P)
    /\ \A k \in DOMAIN P : P[k].req # None => P[k].data = "gone" /\ Required(k)

(* A round of process_deletions gives nobody a requirement, and deletes    *)
(* what it may delete.                                                     *)
LEMMA DeleteRound ==
    ASSUME DualStacked, NEW R, NEW P, ProposalTable(P), SameNetwork(P),
           NEW r \in Netixlan, NEW reassigned
    PROVE  /\ SameNetwork(Delete(R, P, r, reassigned).after.props)
           /\ Inherited(P) => Inherited(Delete(R, P, r, reassigned).after.props)
           /\ Delete(R, P, r, reassigned).m.now.data = "gone"
<1> DEFINE key == KeyOf(r)
           Q == Deduped(P, key)
           m == Instantiate(Q, key, "gone", r.oper)
<1>1. key \in Key /\ r.oper \in Operational
  BY KeyOfType DEF Netixlan
<1>2. ProposalTable(Q) /\ SameNetwork(Q) /\ (Inherited(P) => Inherited(Q))
  BY DedupedType, DedupedFrom DEF Inherited, SameNetwork
<1> HIDE DEF key, Q
<1>3. /\ m.key = key /\ m.now.data = "gone"
      /\ m.now.req # None => key \in DOMAIN Q /\ m.now.req = Q[key].req
  BY <1>1, <1>2, InstantiateDual
<1> HIDE DEF m
<1>4. /\ SameNetwork(Store(Q, m))
      /\ Inherited(Q) => Inherited(Store(Q, m))
  BY <1>2, <1>3 DEF Inherited, SameNetwork, Store
<1>5. Delete(R, P, r, reassigned).m = m
      /\ Delete(R, P, r, reassigned).after.props \in {Q, Store(Q, m)}
  BY DEF Delete, SetRemove, m, Q, key
<1>6. QED BY <1>2, <1>3, <1>4, <1>5

LEMMA DeleteKeeps ==
    ASSUME DualStacked, NEW R \in Table, Keeps(R), NEW P, ProposalTable(P), Inherited(P),
           NEW r \in Netixlan, NEW reassigned \in BOOLEAN, reassigned => GivenAway(r)
    PROVE  Keeps(Delete(R, P, r, reassigned).after.rows)
<1> DEFINE key == KeyOf(r)
           Q == Deduped(P, key)
           m == Instantiate(Q, key, "gone", r.oper)
           applied == Apply(R, Q, m, reassigned)
<1>1. key \in Key /\ r.oper \in Operational /\ key.asn = r.asn
      /\ key.v4 = r.v4 /\ key.v6 = r.v6
  BY KeyOfType DEF Netixlan, KeyOf
<1>2. ProposalTable(Q)
  BY DedupedType
<1>3. Inherited(Q)
  BY DedupedFrom DEF Inherited, SameNetwork
<1> HIDE DEF key, Q
<1>4. m \in Instance /\ m.key = key /\ m.now.data = "gone"
  BY <1>1, <1>2, InstantiateDual
<1> HIDE DEF m
<1>5. ASSUME reassigned \/ net[r.asn].allow PROVE Keeps(applied.rows)
  <2>1. GivenAway(r) => GivenAway(key)
    BY <1>1 DEF GivenAway, GivenBy
  <2>2. Warranted(m.key, m.now.data)
    BY <1>1, <1>4, <1>5, <2>1 DEF Warranted
  <2>3. ASSUME NEW k \in Dependents(Q, {m.key}) \ {m.key}
        PROVE  Warranted(k, Q[k].data)
    <3>1. k \in DOMAIN Q /\ Q[k].req # None
      BY <1>1, <1>2, <1>3, <1>4, DependentsOf DEF Inherited
    <3>2. QED BY <1>3, <3>1 DEF Inherited, Warranted
  <2>4. WarrantedAll(Q, m)
    BY <2>2, <2>3 DEF WarrantedAll
  <2>5. QED BY <1>2, <1>4, <2>4, ApplyKeeps
<1>6. Delete(R, P, r, reassigned).after =
        IF reassigned \/ net[r.asn].allow
          THEN [rows |-> applied.rows, props |-> Q, verdict |-> applied.verdict]
          ELSE [rows |-> R, props |-> SetRemove(R, Q, m), verdict |-> "noop"]
  BY DEF Delete, m, Q, key
<1> HIDE DEF applied
<1>7. QED BY <1>5, <1>6

-----------------------------------------------------------------------------
(* The steps keep AllowInv, in which ...                                   *)

(* ... what is still to be saved is on the list,                           *)
Saving(m) ==
    /\ m.now.data = "member" /\ OnList(m.key)
    /\ m.now.req # None => m.now.req.asn = m.key.asn

(* ... addresses belong to who has them on the list,                       *)
Owners(owner) ==
    \A v \in V4 \cup V6 : owner[v] # None =>
       \E e \in run.feed : e.asn = owner[v] /\ v \in {e.v4, e.v6}

(* ... and requirements with member data are on it too.                    *)
Covered(P) == \A k \in DOMAIN P : P[k].req # None /\ P[k].data = "member" => OnList(k)

LEMMA InheritedCovered == ASSUME NEW P, Inherited(P) PROVE Covered(P)
  BY DEF Inherited, Covered

LEMMA AllowInRun ==
    ASSUME AllowInv, run \notin {Idle, Failed}
    PROVE  /\ DualStacked /\ SameNetwork(props) /\ SameNetwork(run.before.props)
           /\ \A i \in DOMAIN run.pending : Saving(run.pending[i])
           /\ \A d \in run.deletions : d.now.data = "gone"
           /\ Owners(run.owner)
           /\ ~Stale(run.before.props) =>
                /\ Keeps(rows)
                /\ run.phase # "cleaned" => Covered(props)
                /\ run.phase = "parse" \/ run.todo # {} => Inherited(props)
  BY DEF AllowInv, DualStacked, Saving, Owners, Keeps, Covered, Inherited

(* What is left to show of a step within a run.                            *)
LEMMA KeepAllow ==
    ASSUME AllowInv, UNCHANGED net, SameNetwork(props'), run \notin {Idle, Failed},
           run'.feed = run.feed, run'.before = run.before,
           \A i \in DOMAIN run'.pending : Saving(run'.pending[i]),
           \A d \in run'.deletions : d.now.data = "gone",
           Owners(run'.owner),
           ~Stale(run.before.props) =>
              /\ Keeps(rows')
              /\ run'.phase # "cleaned" => Covered(props')
              /\ run'.phase = "parse" \/ run'.todo # {} => Inherited(props')
    PROVE  AllowInv'
<1>1. /\ \A a \in Asns : net'[a].p4 /\ net'[a].p6
      /\ SameNetwork(props)' /\ SameNetwork(run.before.props)'
  BY AllowInRun DEF AllowInv, SameNetwork
<1>2. ASSUME NEW i \in DOMAIN run'.pending
      PROVE  LET m == run'.pending[i] IN
             /\ m.now.data = "member"
             /\ \E e \in run'.feed : KeyOf(e) = m.key
             /\ m.now.req # None => m.now.req.asn = m.key.asn
  BY DEF Saving, OnList
<1>3. \A v \in V4 \cup V6 : run'.owner[v] # None =>
         \E e \in run'.feed : e.asn = run'.owner[v] /\ v \in {e.v4, e.v6}
  BY DEF Owners
<1>4. Stale(run.before.props)' <=> Stale(run.before.props)
  BY DEF Stale
<1>5. ASSUME Keeps(rows')
      PROVE  DOMAIN run'.before.rows \subseteq DOMAIN rows' /\ Respected(rows)'
  BY <1>5 DEF Keeps, Respected, Before, Active, GivenAway, GivenBy, Required, KeyOf
<1>6. ASSUME Covered(props')
      PROVE  \A k \in DOMAIN props' :
                props'[k].req # None /\ props'[k].data = "member"
                  => \E e \in run'.feed : KeyOf(e) = k
  BY <1>6 DEF Covered, OnList
<1>7. ASSUME Inherited(props')
      PROVE  \A k \in DOMAIN props' :
                props'[k].req # None => props'[k].data = "gone" /\ Required(k)'
  BY <1>7 DEF Inherited, Required, KeyOf
<1>8. QED BY <1>1, <1>2, <1>3, <1>4, <1>5, <1>6, <1>7 DEF AllowInv, OnList

(* ... and of one that leaves it, or that is taken outside of it.          *)
LEMMA LeaveAllow ==
    ASSUME \A a \in Asns : net'[a].p4 /\ net'[a].p6,
           SameNetwork(props'), run' \in {Idle, Failed}
    PROVE  AllowInv'
  BY DEF AllowInv, SameNetwork

LEMMA FailAllow ==
    ASSUME AllowInv, run \notin {Idle, Failed}, UNCHANGED net, Fail
    PROVE  AllowInv'
<1>1. SameNetwork(props') /\ \A a \in Asns : net'[a].p4 /\ net'[a].p6
  BY AllowInRun DEF AllowInv, Fail
<1>2. QED BY <1>1, LeaveAllow DEF Fail

LEMMA NotIdle ==
    ASSUME run.phase \in {"parse", "apply", "cleaned"}
    PROVE  run \notin {Idle, Failed}
  BY DEF Idle, Failed

LEMMA StartAllow == ASSUME TypeInv, AllowInv, NEW F \in Feeds, Start(F) PROVE AllowInv'
<1>1. ProposalTable(props) /\ SameNetwork(props) /\ DualStacked
  BY InUse DEF TypeInv, AllowInv, DualStacked
<1>2. /\ run'.phase = "parse" /\ run'.feed = F
      /\ run'.owner = [v \in V4 \cup V6 |-> None]
      /\ run'.pending = <<>> /\ run'.deletions = {}
      /\ run'.before = [rows |-> rows, props |-> props]
      /\ UNCHANGED <<net, rows, props>>
  BY DEF Start
<1>3. Respected(rows)'
  <2>1. ASSUME NEW i \in DOMAIN rows PROVE Before(i)' = rows[i]
    BY <1>2 DEF Before
  <2>2. QED BY <1>2, <2>1 DEF Respected, Active
<1>4. ASSUME ~Stale(props), NEW k \in DOMAIN props, props[k].req # None
      PROVE  props[k].data = "gone" /\ Required(k)'
  <2>1. props[k].data = "gone" /\ k \in Key
    BY <1>1, <1>4 DEF Stale, ProposalTable, Proposal
  <2>2. KeyOf(k) = k
    BY <2>1, KeyOfKey
  <2>3. QED BY <1>2, <1>4, <2>1, <2>2 DEF Required, KeyOf
<1>5. QED BY <1>1, <1>2, <1>3, <1>4 DEF AllowInv, DualStacked, SameNetwork, Stale

LEMMA ParseAllow ==
    ASSUME TypeInv, AllowInv, NEW e \in run.todo, Parse(e)
    PROVE  AllowInv'
<1> DEFINE P == Deduped(props, KeyOf(e))
           m == Instantiate(P, KeyOf(e), "member", e.oper)
           named == UNION {{k.v4, k.v6} : k \in IdsOf(e)}
<1>1. Working(run) /\ ProposalTable(props) /\ run \notin {Idle, Failed} /\ run.phase = "parse"
  BY InRun, InUse, NotIdle DEF TypeInv, Parse
<1>2. e \in run.feed /\ KeyOf(e) \in Key /\ e.asn \in Asns /\ e.oper \in Operational
  <2>1. e \in run.feed /\ e \in Entry
    BY <1>1, FeedType DEF Working
  <2>2. QED BY <2>1, KeyOfType DEF Entry
<1>3. /\ DualStacked /\ SameNetwork(props) /\ Owners(run.owner)
      /\ \A i \in DOMAIN run.pending : Saving(run.pending[i])
      /\ \A d \in run.deletions : d.now.data = "gone"
      /\ ~Stale(run.before.props) => Keeps(rows) /\ Inherited(props)
  BY <1>1, AllowInRun
<1>4. /\ ProposalTable(P) /\ SameNetwork(P)
      /\ Inherited(props) => Inherited(P)
  BY <1>1, <1>3, DedupedType, DedupedFrom DEF Inherited, SameNetwork
<1>5. named = {e.v4, e.v6}
  <2>1. IdsOf(e) = {KeyOf(e)}
    BY <1>2, <1>3 DEF IdsOf, DualStacked
  <2>2. QED BY <2>1 DEF KeyOf
<1>6. props' = P /\ UNCHANGED <<net, rows>>
  BY DEF Parse
<1>7. /\ run'.feed = run.feed /\ run'.before = run.before /\ run'.phase = "parse"
      /\ run'.owner = [v \in V4 \cup V6 |-> IF v \in named THEN e.asn ELSE run.owner[v]]
      /\ run'.pending = IF m.key.v4 = None /\ m.key.v6 = None THEN run.pending
                        ELSE Append(run.pending, m)
      /\ run'.deletions = run.deletions
  BY <1>1 DEF Parse, Working
<1> HIDE DEF P, named
<1>8. m \in Instance /\ Saving(m)
  <2>1. /\ m \in Instance /\ m.key = KeyOf(e) /\ m.now.data = "member"
        /\ m.now.req # None => KeyOf(e) \in DOMAIN P /\ m.now.req = P[KeyOf(e)].req
    <3>1. DualStacked /\ ProposalTable(P) /\ KeyOf(e) \in Key /\ e.oper \in Operational
      BY <1>2, <1>3, <1>4
    <3>2. QED BY <3>1, InstantiateDual
  <2> HIDE DEF m
  <2>2. OnList(m.key)
    BY <1>2, <2>1 DEF OnList
  <2>3. m.now.req # None => m.now.req.asn = m.key.asn
    BY <1>4, <2>1 DEF SameNetwork
  <2>4. QED BY <2>1, <2>2, <2>3 DEF Saving
<1> HIDE DEF m
<1>9. ASSUME NEW i \in DOMAIN run'.pending PROVE Saving(run'.pending[i])
  <2>1. run.pending \in Seq(Instance)
    BY <1>1 DEF Working
  <2>2. \/ i \in DOMAIN run.pending /\ run'.pending[i] = run.pending[i]
        \/ run'.pending[i] = m
    BY <1>7, <1>8, <2>1
  <2>3. QED BY <1>3, <1>8, <2>2
<1>10. Owners(run'.owner)
  BY <1>2, <1>3, <1>5, <1>7 DEF Owners
<1>11. SameNetwork(props') /\ UNCHANGED net
  BY <1>4, <1>6
<1>12. ~Stale(run.before.props) => Keeps(rows') /\ Inherited(props') /\ Covered(props')
  BY <1>3, <1>4, <1>6, InheritedCovered
<1>13. \A d \in run'.deletions : d.now.data = "gone"
  BY <1>3, <1>7
<1>14. QED BY <1>1, <1>7, <1>9, <1>10, <1>11, <1>12, <1>13, KeepAllow

LEMMA BeginDeletionsAllow == ASSUME TypeInv, AllowInv, BeginDeletions PROVE AllowInv'
<1>1. Working(run) /\ run \notin {Idle, Failed} /\ run.phase = "parse"
  BY InRun, NotIdle DEF TypeInv, BeginDeletions
<1>2. /\ SameNetwork(props) /\ Owners(run.owner)
      /\ \A i \in DOMAIN run.pending : Saving(run.pending[i])
      /\ \A d \in run.deletions : d.now.data = "gone"
      /\ ~Stale(run.before.props) => Keeps(rows) /\ Inherited(props)
  BY <1>1, AllowInRun
<1>3. /\ run'.feed = run.feed /\ run'.before = run.before
      /\ run'.owner = run.owner /\ run'.pending = run.pending
      /\ run'.deletions = run.deletions
      /\ UNCHANGED <<net, rows, props>>
  BY <1>1 DEF BeginDeletions, Working
<1>4. QED BY <1>1, <1>2, <1>3, KeepAllow, InheritedCovered

LEMMA ReassignedGivenAway ==
    ASSUME Owners(run.owner), run.feed \in Feeds, NEW r \in Netixlan, Reassigned(r)
    PROVE  GivenAway(r)
<1> USE ImportAssumption
<1>1. r.v4 \in V4 \cup {None} /\ r.v6 \in V6 \cup {None}
  BY DEF Netixlan
<1>2. \A e \in run.feed : e.v4 \in V4 \cup {None} /\ e.v6 \in V6 \cup {None}
  BY FeedType DEF Entry
<1>3. CASE r.v4 # None /\ run.owner[r.v4] \notin {None, r.asn}
  <2>1. PICK e \in run.feed : e.asn = run.owner[r.v4] /\ r.v4 \in {e.v4, e.v6}
    BY <1>1, <1>3 DEF Owners
  <2>2. e.v4 = r.v4 /\ e.asn # r.asn
    BY <1>1, <1>2, <1>3, <2>1
  <2>3. QED BY <1>3, <2>2 DEF GivenAway, GivenBy
<1>4. CASE r.v6 # None /\ run.owner[r.v6] \notin {None, r.asn}
  <2>1. PICK e \in run.feed : e.asn = run.owner[r.v6] /\ r.v6 \in {e.v4, e.v6}
    BY <1>1, <1>4 DEF Owners
  <2>2. e.v6 = r.v6 /\ e.asn # r.asn
    BY <1>1, <1>2, <1>4, <2>1
  <2>3. QED BY <1>4, <2>2 DEF GivenAway, GivenBy
<1>5. QED BY <1>3, <1>4 DEF Reassigned

LEMMA DeleteStepAllow ==
    ASSUME TypeInv, AllowInv, NEW i \in run.todo, DeleteStep(i)
    PROVE  AllowInv'
<1> DEFINE r == run.before.rows[i]
           done == Delete(rows, props, r, Reassigned(r))
<1>1. /\ rows \in Table /\ ProposalTable(props) /\ Working(run)
      /\ run.phase = "apply" /\ run \notin {Idle, Failed}
  BY InUse, InRun, NotIdle DEF TypeInv, DeleteStep
<1>2. r \in Netixlan
  <2>1. i \in DOMAIN run.before.rows /\ run.before.rows \in Table
    BY <1>1, TablesShape DEF Working
  <2>2. QED BY <2>1, RowType
<1>3. /\ DualStacked /\ SameNetwork(props) /\ Owners(run.owner)
      /\ \A j \in DOMAIN run.pending : Saving(run.pending[j])
      /\ \A d \in run.deletions : d.now.data = "gone"
      /\ ~Stale(run.before.props) => Keeps(rows) /\ Inherited(props)
  <2>1. run.todo # {}
    OBVIOUS
  <2>2. QED BY <1>1, <2>1, AllowInRun
<1> HIDE DEF r
<1>4. Reassigned(r) \in BOOLEAN /\ (Reassigned(r) => GivenAway(r))
  BY <1>1, <1>2, <1>3, ReassignedGivenAway DEF Working, Reassigned
<1>5. /\ SameNetwork(done.after.props) /\ done.m.now.data = "gone"
      /\ Inherited(props) => Inherited(done.after.props)
  BY <1>1, <1>2, <1>3, DeleteRound
<1>6. ~Stale(run.before.props) => Keeps(done.after.rows)
  BY <1>1, <1>2, <1>3, <1>4, DeleteKeeps
<1>7. /\ IF Stopped(done.after) THEN Fail
         ELSE /\ rows' = done.after.rows
              /\ props' = done.after.props
              /\ run' = [run EXCEPT !.todo = @ \ {i},
                                    !.deletions = {d \in @ : d.key # done.m.key} \cup {done.m},
                                    !.seen = @ \cup {done.m.key}]
              /\ UNCHANGED last
      /\ UNCHANGED <<net, runs, edits>>
  BY DEF DeleteStep, r
<1> HIDE DEF done
<1>8. CASE Stopped(done.after)
  BY <1>1, <1>7, <1>8, FailAllow
<1>9. CASE ~Stopped(done.after)
  <2>1. /\ run'.feed = run.feed /\ run'.before = run.before
        /\ run'.owner = run.owner /\ run'.pending = run.pending
        /\ run'.deletions = {d \in run.deletions : d.key # done.m.key} \cup {done.m}
        /\ UNCHANGED net
    BY <1>1, <1>7, <1>9 DEF Working
  <2>2. SameNetwork(props')
    BY <1>5, <1>7, <1>9
  <2>3. ~Stale(run.before.props) => Keeps(rows') /\ Inherited(props') /\ Covered(props')
    BY <1>3, <1>5, <1>6, <1>7, <1>9, InheritedCovered
  <2>4. \A d \in run'.deletions : d.now.data = "gone"
    BY <1>3, <1>5, <2>1
  <2>5. QED BY <1>1, <1>3, <2>1, <2>2, <2>3, <2>4, KeepAllow
<1>10. QED BY <1>8, <1>9

LEMMA SaveStepAllow == ASSUME TypeInv, AllowInv, SaveStep PROVE AllowInv'
<1> DEFINE m == Head(run.pending)
           done == Save(rows, props, m, run.deletions)
<1>1. /\ rows \in Table /\ ProposalTable(props) /\ Working(run)
      /\ run.phase = "apply" /\ run \notin {Idle, Failed} /\ run.todo = {}
  BY InUse, InRun, NotIdle DEF TypeInv, SaveStep
<1>2. /\ DualStacked /\ SameNetwork(props) /\ Owners(run.owner)
      /\ \A i \in DOMAIN run.pending : Saving(run.pending[i])
      /\ \A d \in run.deletions : d.now.data = "gone"
      /\ ~Stale(run.before.props) => Keeps(rows) /\ Covered(props)
  BY <1>1, AllowInRun
<1>3. m \in Instance /\ Saving(m) /\ run.deletions \in SUBSET Instance
  <2>1. run.pending \in Seq(Instance) /\ run.pending # <<>>
    BY <1>1 DEF SaveStep, Working
  <2>2. m = run.pending[1] /\ 1 \in DOMAIN run.pending
    BY <2>1
  <2>3. QED BY <1>1, <1>2, <2>1, <2>2 DEF Working
<1> HIDE DEF m
<1>4. Written(props, m, run.deletions, done.props)
  BY <1>1, <1>3, SaveWritten
<1>5. ~Stale(run.before.props) => Keeps(done.rows)
  BY <1>1, <1>2, <1>3, SaveKeeps DEF Saving, Covered
<1>6. /\ IF done.verdict = "crash" \/ ~ForeignKeys(done.props) THEN Fail
         ELSE /\ rows' = done.rows
              /\ props' = done.props
              /\ run' = [run EXCEPT !.pending = Tail(@)]
              /\ UNCHANGED last
      /\ UNCHANGED <<net, runs, edits>>
  BY DEF SaveStep, m
<1> HIDE DEF done
<1>7. SameNetwork(done.props)
  BY <1>2, <1>3, <1>4 DEF Written, Shares, SameNetwork, Saving
<1>8. Covered(props) => Covered(done.props)
  BY <1>2, <1>3, <1>4 DEF Written, Covered, Saving
<1>9. CASE done.verdict = "crash" \/ ~ForeignKeys(done.props)
  BY <1>1, <1>6, <1>9, FailAllow
<1>10. CASE ~(done.verdict = "crash" \/ ~ForeignKeys(done.props))
  <2>1. /\ run'.feed = run.feed /\ run'.before = run.before /\ run'.phase = "apply"
        /\ run'.owner = run.owner /\ run'.pending = Tail(run.pending)
        /\ run'.deletions = run.deletions /\ run'.todo = {}
        /\ UNCHANGED net
    BY <1>1, <1>6, <1>10 DEF Working
  <2>2. ASSUME NEW i \in DOMAIN run'.pending PROVE Saving(run'.pending[i])
    <3>1. run.pending \in Seq(Instance) /\ run.pending # <<>>
      BY <1>1 DEF SaveStep, Working
    <3>2. i + 1 \in DOMAIN run.pending /\ run'.pending[i] = run.pending[i + 1]
      BY <2>1, <3>1
    <3>3. QED BY <1>2, <3>2
  <2>3. SameNetwork(props')
    BY <1>6, <1>7, <1>10
  <2>4. ~Stale(run.before.props) => Keeps(rows') /\ Covered(props')
    BY <1>2, <1>5, <1>6, <1>8, <1>10
  <2>5. QED BY <1>1, <1>2, <2>1, <2>2, <2>3, <2>4, KeepAllow
<1>11. QED BY <1>9, <1>10

LEMMA CleanupAllow == ASSUME TypeInv, AllowInv, Cleanup PROVE AllowInv'
<1>1. Working(run) /\ run \notin {Idle, Failed} /\ run.phase = "apply" /\ run.todo = {}
  BY InRun, NotIdle DEF TypeInv, Cleanup
<1>2. /\ SameNetwork(props) /\ Owners(run.owner)
      /\ \A i \in DOMAIN run.pending : Saving(run.pending[i])
      /\ \A d \in run.deletions : d.now.data = "gone"
      /\ ~Stale(run.before.props) => Keeps(rows)
  BY <1>1, AllowInRun
<1>3. CASE \A k \in DOMAIN props : Unique(k)
  <2> DEFINE K == {k \in DOMAIN props :
                     /\ props[k].req = None
                     /\ \/ Action(k) = "noop"
                        \/ Action(k) = "change" /\ k \notin run.ids}
  <2>1. /\ props' = Without(props, K) /\ run' = [run EXCEPT !.phase = "cleaned"]
        /\ UNCHANGED <<net, rows>>
    BY <1>3 DEF Cleanup
  <2> HIDE DEF K
  <2>2. SameNetwork(props')
    BY <1>2, <2>1, WithoutThem DEF SameNetwork
  <2>3. /\ run'.feed = run.feed /\ run'.before = run.before /\ run'.phase = "cleaned"
        /\ run'.owner = run.owner /\ run'.pending = run.pending
        /\ run'.deletions = run.deletions /\ run'.todo = {}
    BY <1>1, <2>1 DEF Working
  <2>4. QED BY <1>1, <1>2, <2>1, <2>2, <2>3, KeepAllow
<1>4. CASE ~ \A k \in DOMAIN props : Unique(k)
  BY <1>1, <1>4, FailAllow DEF Cleanup
<1>5. QED BY <1>3, <1>4

LEMMA FinishAllow == ASSUME TypeInv, AllowInv, NEW K, Finish(K) PROVE AllowInv'
<1>1. SameNetwork(props) /\ \A a \in Asns : net[a].p4 /\ net[a].p6
  BY DEF AllowInv
<1>2. SameNetwork(props')
  BY <1>1, WithoutThem DEF SameNetwork, Finish
<1>3. run' = Idle /\ UNCHANGED net
  BY DEF Finish
<1>4. QED BY <1>1, <1>2, <1>3, LeaveAllow

(* A network keeps both protocols when there is no other choice.           *)
LEMMA UserAllow ==
    ASSUME Supports = {<<TRUE, TRUE>>}, TypeInv, AllowInv, UserStep
    PROVE  AllowInv'
<1>1. SameNetwork(props) /\ \A a \in Asns : net[a].p4 /\ net[a].p6
  BY DEF AllowInv
<1>2. run' \in {Idle, Failed} /\ UNCHANGED props
  BY DEF UserStep, TurnOn, TurnOff, SetSupport, UserAdd, UserDelete, Edit
<1>3. \A a \in Asns : net'[a].p4 /\ net'[a].p6
  <2>1. net \in [Asns -> [allow : BOOLEAN, p4 : BOOLEAN, p6 : BOOLEAN]]
    BY DEF TypeInv, TypeOK
  <2>2. ASSUME NEW a \in Asns, NEW on \in BOOLEAN, net' = [net EXCEPT ![a].allow = on]
        PROVE  \A b \in Asns : net'[b].p4 /\ net'[b].p6
    BY <1>1, <2>1, <2>2
  <2>3. ASSUME NEW a \in Asns, NEW p \in Supports, SetSupport(a, p) PROVE FALSE
    BY <1>1, <2>1, <2>3 DEF SetSupport
  <2>4. \/ UNCHANGED net
        \/ \E a \in Asns, on \in BOOLEAN : net' = [net EXCEPT ![a].allow = on]
    BY <2>3 DEF UserStep, TurnOn, TurnOff, UserAdd, UserDelete
  <2>5. QED BY <1>1, <2>2, <2>4
<1>4. QED BY <1>1, <1>2, <1>3, LeaveAllow

LEMMA AllowStep ==
    Supports = {<<TRUE, TRUE>>} /\ TypeInv /\ AllowInv /\ [Next]_vars => AllowInv'
<1> SUFFICES ASSUME Supports = {<<TRUE, TRUE>>}, TypeInv, AllowInv, [Next]_vars
             PROVE  AllowInv'
  OBVIOUS
<1>1. CASE RunStep
  BY <1>1, StartAllow, ParseAllow, BeginDeletionsAllow, DeleteStepAllow, SaveStepAllow,
     CleanupAllow, FinishAllow DEF RunStep
<1>2. CASE UserStep
  BY <1>2, UserAllow
<1>3. CASE UNCHANGED vars
  <2>1. UNCHANGED <<net, rows, props, run>>
    BY <1>3 DEF vars
  <2>2. CASE run \in {Idle, Failed}
    <3>1. SameNetwork(props) /\ \A a \in Asns : net[a].p4 /\ net[a].p6
      BY DEF AllowInv
    <3>2. QED BY <2>1, <2>2, <3>1, LeaveAllow
  <2>3. CASE run \notin {Idle, Failed}
    BY <2>1, <2>3, AllowInRun, KeepAllow
  <2>4. QED BY <2>2, <2>3
<1>4. QED BY <1>1, <1>2, <1>3 DEF Next

LEMMA InitSupports ==
    ASSUME Init, NEW a \in Asns
    PROVE  <<net[a].p4, net[a].p6>> \in Supports
<1> DEFINE S == {[allow |-> b, p4 |-> p[1], p6 |-> p[2]] : b \in BOOLEAN, p \in Supports}
<1>0. Supports \subseteq BOOLEAN \X BOOLEAN
  BY ImportAssumption, Zenon
<1>1. ASSUME NEW n \in S PROVE <<n.p4, n.p6>> \in Supports
  <2>1. PICK b \in BOOLEAN, p \in Supports : n = [allow |-> b, p4 |-> p[1], p6 |-> p[2]]
    BY SMT
  <2>2. p \in BOOLEAN \X BOOLEAN
    BY <1>0
  <2>3. p = <<p[1], p[2]>>
    BY <2>2
  <2>4. n.p4 = p[1] /\ n.p6 = p[2]
    BY <2>1
  <2>5. QED BY <2>3, <2>4
<1>2. net \in [Asns -> S]
  BY DEF Init
<1> HIDE DEF S
<1>3. QED BY <1>1, <1>2

LEMMA AllowInit == Supports = {<<TRUE, TRUE>>} /\ Init => AllowInv
<1> SUFFICES ASSUME Supports = {<<TRUE, TRUE>>}, Init PROVE AllowInv
  OBVIOUS
<1>1. ASSUME NEW a \in Asns PROVE net[a].p4 /\ net[a].p6
  <2>1. <<net[a].p4, net[a].p6>> \in Supports
    BY InitSupports
  <2>2. QED BY <2>1
<1>2. SameNetwork(props) /\ run = Idle
  BY DEF Init, SameNetwork
<1>3. QED BY <1>1, <1>2 DEF AllowInv

(* A network that has not allowed the importer to change its connections   *)
(* keeps them, whoever else is on the list and whatever else is proposed,  *)
(* but for addresses that the list gives to others and for deletions that  *)
(* proposals of its own require; nothing is added for it.  For networks    *)
(* that support both protocols, and runs that begin without a stale        *)
(* requirement.                                                            *)
THEOREM AllowRespectedHolds ==
    Supports = {<<TRUE, TRUE>>} /\ Spec => []AllowRespected
<1> SUFFICES ASSUME Supports = {<<TRUE, TRUE>>} PROVE Spec => []AllowRespected
  OBVIOUS
<1>1. TypeInv /\ AllowInv => AllowRespected
  <2> SUFFICES ASSUME AllowInv, Cleaned, ~Stale(run.before.props) PROVE Respected(rows)
    BY DEF AllowRespected
  <2>1. run \notin {Idle, Failed}
    BY NotIdle DEF Cleaned
  <2>2. QED BY <2>1 DEF AllowInv
<1>2. Spec => []TypeInv
  BY TypeInit, TypeStep, PTL DEF Spec
<1>3. Init => AllowInv
  BY AllowInit
<1>4. TypeInv /\ AllowInv /\ [Next]_vars => AllowInv'
  BY AllowStep
<1>5. QED BY <1>1, <1>2, <1>3, <1>4, PTL DEF Spec

-----------------------------------------------------------------------------
(* What every write leaves true of the addresses.                          *)
OnLan(R) == \A i \in DOMAIN R : R[i].here => ~Outside(R[i].v4) /\ ~Outside(R[i].v6)

Kept(R, S) ==
    /\ Unshared(R) /\ OnLan(R) => Unshared(S) /\ OnLan(S)
    /\ Away(R, S)

(* Both parts are kept by writing nothing and by writing twice.            *)
LEMMA KeptSame == ASSUME NEW R PROVE Kept(R, R)
  BY DEF Kept, Away

LEMMA KeptThen ==
    ASSUME NEW R, NEW S, NEW T, Kept(R, S), Kept(S, T)
    PROVE  Kept(R, T)
  BY DEF Kept, Away

LEMMA KeptHome ==
    ASSUME NEW R, NEW S, Kept(R, S), NEW k, Home(R, k)
    PROVE  Home(S, k)
  BY DEF Kept, Away, Home, Apart

\* Rows that only lose addresses, or become inactive.
(* Rows that keep their network, their LAN and their addresses, or lose    *)
(* some, and of which no other becomes active.                             *)
Trimmed(R, S) ==
    /\ DOMAIN S = DOMAIN R
    /\ \A i \in DOMAIN R :
          /\ S[i].here = R[i].here /\ S[i].asn = R[i].asn
          /\ S[i].v4 \in {R[i].v4, None} /\ S[i].v6 \in {R[i].v6, None}
          /\ Active(S[i]) => Active(R[i])

LEMMA TrimmedKept ==
    ASSUME NEW R, NEW S, Trimmed(R, S)
    PROVE  Kept(R, S)
<1>1. Unshared(R) => Unshared(S)
  BY DEF Trimmed, Unshared
<1>2. OnLan(R) => OnLan(S)
  BY DEF Trimmed, OnLan, Outside
<1>3. QED BY <1>1, <1>2 DEF Kept, Away, Trimmed

(* Writing one row of the LAN keeps them, if its addresses are on the LAN  *)
(* and no other row has them.                                              *)
LEMMA PutKept ==
    ASSUME NEW R, NEW S, NEW i, NEW r, DOMAIN S = DOMAIN R \cup {i}, S[i] = r,
           \A j \in DOMAIN R \ {i} : S[j] = R[j],
           ~Collides(R, i, r), r.here, ~Outside(r.v4), ~Outside(r.v6)
    PROVE  Kept(R, S)
<1>1. Unshared(R) => Unshared(S)
  BY DEF Unshared, Collides
<1>2. OnLan(R) => OnLan(S)
  BY DEF OnLan
<1>3. QED BY <1>1, <1>2 DEF Kept, Away

(* Writing a row leaves the others.                                        *)
LEMMA RowsAfterAppend ==
    ASSUME NEW R \in Table, NEW r \in Netixlan
    PROVE  /\ DOMAIN Append(R, r) = DOMAIN R \cup {Len(R) + 1}
           /\ Append(R, r)[Len(R) + 1] = r
           /\ \A j \in DOMAIN R : Append(R, r)[j] = R[j]
           /\ 0 \notin DOMAIN R /\ Len(R) + 1 \notin DOMAIN R
<1> DEFINE S == Append(R, r)
<1>1. R \in Seq(Netixlan) /\ DOMAIN R = 1..Len(R) /\ Len(R) \in Nat
  BY DEF Table
<1>2. /\ Len(S) = Len(R) + 1 /\ S \in Seq(Netixlan)
      /\ \A j \in 1..Len(R) : S[j] = R[j]
      /\ S[Len(R) + 1] = r
  BY <1>1
<1> HIDE DEF S
<1>3. DOMAIN S = 1..(Len(R) + 1)
  BY <1>1, <1>2
<1>4. QED BY <1>1, <1>2, <1>3 DEF S

LEMMA AppendKept ==
    ASSUME NEW R \in Table, NEW r \in Netixlan, ~Collides(R, 0, r), r.here,
           ~Outside(r.v4), ~Outside(r.v6)
    PROVE  Kept(R, Append(R, r))
<1> DEFINE S == Append(R, r)
<1>1. /\ DOMAIN S = DOMAIN R \cup {Len(R) + 1}
      /\ S[Len(R) + 1] = r
      /\ \A j \in DOMAIN R : S[j] = R[j]
      /\ 0 \notin DOMAIN R /\ Len(R) + 1 \notin DOMAIN R
  BY RowsAfterAppend
<1>2. ~Collides(R, Len(R) + 1, r)
  BY <1>1 DEF Collides
<1> HIDE DEF S
<1>3. QED BY <1>1, <1>2, PutKept DEF S

(* What claiming addresses does to each row.                               *)
Resets(R, info, j) ==
    Holder4(R, info.v4) # {} /\ j \in Holder6(R, info.v6) \ {Target(R, info)}

Claims4(R, info, j) ==
    /\ info.v4 # None /\ Target(R, info) \notin Holder4(R, info.v4)
    /\ ~Active(R[j]) /\ R[j].asn # info.asn /\ R[j].v4 = info.v4

Claims6(R, info, j) ==
    /\ info.v6 # None /\ Target(R, info) \notin Holder6(R, info.v6)
    /\ ~Active(R[j]) /\ R[j].asn # info.asn /\ R[j].v6 = info.v6

LEMMA ClaimedRow ==
    ASSUME NEW R \in Table, NEW info, NEW j \in DOMAIN R
    PROVE  LET c == Claimed(R, info)[j] IN
           /\ c \in Netixlan
           /\ c.asn = R[j].asn /\ c.oper = R[j].oper /\ c.here = R[j].here
           /\ c.status = R[j].status
           /\ c.v4 = IF Claims4(R, info, j) THEN None ELSE R[j].v4
           /\ c.v6 = IF Resets(R, info, j) \/ Claims6(R, info, j) THEN None ELSE R[j].v6
<1> DEFINE i == Target(R, info)
           reset == [l \in DOMAIN R |->
                       IF Holder4(R, info.v4) # {} /\ l \in Holder6(R, info.v6) \ {i}
                         THEN [R[l] EXCEPT !.v6 = None] ELSE R[l]]
           has4 == info.v4 = None \/ i \in Holder4(R, info.v4)
           has6 == info.v6 = None \/ i \in Holder6(R, info.v6)
           claimed4 == IF has4 THEN reset ELSE Claim4(reset, info.asn, info.v4)
           c == Claimed(R, info)[j]
<1>1. Claimed(R, info) = IF has6 THEN claimed4 ELSE Claim6(claimed4, info.asn, info.v6)
  BY DEF Claimed
<1>2. R[j] \in Netixlan
  BY RowType
<1>3. DOMAIN reset = DOMAIN R
      /\ reset[j] = IF Resets(R, info, j) THEN [R[j] EXCEPT !.v6 = None] ELSE R[j]
  BY DEF Resets
<1> HIDE DEF i, reset
<1>4. /\ reset[j] \in Netixlan
      /\ reset[j].asn = R[j].asn /\ reset[j].oper = R[j].oper /\ reset[j].here = R[j].here
      /\ reset[j].status = R[j].status /\ reset[j].v4 = R[j].v4
      /\ reset[j].v6 = IF Resets(R, info, j) THEN None ELSE R[j].v6
  BY <1>2, <1>3 DEF Netixlan
<1>5. DOMAIN claimed4 = DOMAIN R
      /\ claimed4[j] = IF Claims4(R, info, j) THEN [reset[j] EXCEPT !.v4 = None] ELSE reset[j]
  <2>1. CASE has4
    BY <1>3, <2>1 DEF Claims4, i
  <2>2. CASE ~has4
    <3>1. Claims4(R, info, j) <=> ~Active(reset[j]) /\ reset[j].asn # info.asn /\ reset[j].v4 = info.v4
      BY <1>4, <2>2 DEF Claims4, Active, i
    <3>2. QED BY <1>3, <2>2, <3>1 DEF Claim4
  <2>3. QED BY <2>1, <2>2
<1> HIDE DEF claimed4
<1>6. /\ claimed4[j] \in Netixlan
      /\ claimed4[j].asn = R[j].asn /\ claimed4[j].oper = R[j].oper /\ claimed4[j].here = R[j].here
      /\ claimed4[j].status = R[j].status
      /\ claimed4[j].v4 = IF Claims4(R, info, j) THEN None ELSE R[j].v4
      /\ claimed4[j].v6 = reset[j].v6
  BY <1>4, <1>5 DEF Netixlan
<1>7. c = IF Claims6(R, info, j) /\ ~Resets(R, info, j) THEN [claimed4[j] EXCEPT !.v6 = None]
          ELSE claimed4[j]
  <2>1. CASE has6
    BY <1>1, <2>1 DEF Claims6, i
  <2>2. CASE ~has6
    <3>1. Claims6(R, info, j) /\ ~Resets(R, info, j)
            <=> ~Active(claimed4[j]) /\ claimed4[j].asn # info.asn /\ claimed4[j].v6 = info.v6
      BY <1>4, <1>6, <2>2 DEF Claims6, Active, i
    <3>2. QED BY <1>1, <1>5, <2>2, <3>1 DEF Claim6
  <2>3. QED BY <2>1, <2>2
<1> HIDE DEF c, has4, has6
<1>8. QED BY <1>4, <1>6, <1>7 DEF Netixlan, c

LEMMA ClaimedDomain ==
    ASSUME NEW R \in Table, NEW info
    PROVE  DOMAIN Claimed(R, info) = DOMAIN R
<1>1. CASE DOMAIN R # {}
  BY <1>1, ClaimedRows
<1>2. CASE DOMAIN R = {}
  BY <1>2 DEF Claimed, Claim4, Claim6
<1>3. QED BY <1>1, <1>2

(* So claiming addresses only takes something away ...                     *)
LEMMA ClaimedTrimmed ==
    ASSUME NEW R \in Table, NEW info
    PROVE  Trimmed(R, Claimed(R, info))
  BY ClaimedDomain, ClaimedRow DEF Trimmed, Active

(* The rows after add_netixlan has written one.                            *)
LEMMA Placed ==
    ASSUME NEW R \in Table, NEW info \in Netixlan
    PROVE  LET C == Claimed(R, info)
               t == Target(R, info)
               S == Put(C, t, info)
           IN
           /\ C \in Table /\ DOMAIN C = DOMAIN R
           /\ t \in Holder4(R, info.v4) \cup Holder6(R, info.v6) \/ t = Len(R) + 1
           /\ DOMAIN S = DOMAIN R \cup {t} /\ S[t] = info
           /\ \A i \in DOMAIN R \ {t} : S[i] = C[i]
<1> DEFINE C == Claimed(R, info)
           t == Target(R, info)
           S == Put(C, t, info)
<1>1. C \in Table /\ DOMAIN C = DOMAIN R
  BY ClaimedType, ClaimedDomain
<1>2. t \in Holder4(R, info.v4) \cup Holder6(R, info.v6) \/ t = Len(R) + 1
  BY TargetIs
<1>3. DOMAIN R = 1..Len(R) /\ Len(R) \in Nat
  BY DEF Table
<1> HIDE DEF C, t
<1>4. DOMAIN S = DOMAIN R \cup {t} /\ S[t] = info /\ \A i \in DOMAIN R \ {t} : S[i] = C[i]
  <2>1. CASE t \in DOMAIN C
    BY <1>1, <2>1 DEF Put
  <2>2. CASE t \notin DOMAIN C
    <3>1. Len(C) = Len(R)
      BY <1>1, <1>3 DEF Table
    <3>2. t = Len(C) + 1
      BY <1>1, <1>2, <2>2, <3>1 DEF Holder4, Holder6
    <3>3. S = Append(C, info)
      BY <2>2 DEF Put
    <3> HIDE DEF S
    <3>4. QED BY <1>1, <3>2, <3>3, RowsAfterAppend
  <2>3. QED BY <2>1, <2>2
<1>5. QED BY <1>1, <1>2, <1>4 DEF C, t, S

(* ... and all of add_netixlan, and of a deletion that goes through        *)
(* instantiate, keeps the addresses.                                       *)
LEMMA AddNetixlanKept ==
    ASSUME NEW R \in Table, NEW info \in Netixlan, info.here
    PROVE  Kept(R, AddNetixlan(R, info).rows)
<1> DEFINE C == Claimed(R, info)
           t == Target(R, info)
           S == Put(C, t, info)
<1>1. Kept(R, C) /\ C \in Table
  BY ClaimedTrimmed, TrimmedKept, ClaimedType
<1>2. ASSUME ~Outside(info.v4), ~Outside(info.v6), ~Collides(C, t, info) PROVE Kept(C, S)
  <2>1. /\ DOMAIN C = DOMAIN R
        /\ DOMAIN S = DOMAIN R \cup {t} /\ S[t] = info
        /\ \A i \in DOMAIN R \ {t} : S[i] = C[i]
    BY Placed
  <2> HIDE DEF C, t, S
  <2>2. QED BY <1>2, <2>1, PutKept
<1>3. \/ AddNetixlan(R, info).rows \in {R, C}
      \/ /\ ~Outside(info.v4) /\ ~Outside(info.v6) /\ ~Collides(C, t, info)
         /\ AddNetixlan(R, info).rows = S
  BY DEF AddNetixlan
<1> HIDE DEF C, t, S
<1>4. Kept(R, S) \/ ~(~Outside(info.v4) /\ ~Outside(info.v6) /\ ~Collides(C, t, info))
  BY <1>1, <1>2, KeptThen
<1>5. QED BY <1>1, <1>3, <1>4, KeptSame

LEMMA InsertDeletedKept ==
    ASSUME NEW R \in Table, NEW m \in Instance, ~Outside(m.key.v4), ~Outside(m.key.v6)
    PROVE  Kept(R, InsertDeleted(R, m).rows)
<1> DEFINE r == [asn |-> m.key.asn, v4 |-> m.key.v4, v6 |-> m.key.v6,
                 oper |-> m.now.oper, here |-> TRUE, status |-> "deleted"]
<1>1. r \in Netixlan
  BY DEF Netixlan, Instance, Proposal, Key
<1>2. r.here /\ r.v4 = m.key.v4 /\ r.v6 = m.key.v6
  OBVIOUS
<1>3. InsertDeleted(R, m) = IF Collides(R, 0, r) THEN [rows |-> R, verdict |-> "crash"]
                            ELSE [rows |-> Append(R, r), verdict |-> "delete"]
  BY DEF InsertDeleted
<1> HIDE DEF r
<1>4. CASE Collides(R, 0, r)
  BY <1>3, <1>4, KeptSame
<1>5. CASE ~Collides(R, 0, r)
  BY <1>1, <1>2, <1>3, <1>5, AppendKept
<1>6. QED BY <1>4, <1>5

(* Applying one proposal is an add, an update, a deletion, or nothing.     *)
LEMMA ApplyOneShape ==
    ASSUME NEW R, NEW m \in Instance, NEW reassigned
    PROVE  LET found == Matching(R, m.key, m.now.data = "gone")
               i == CHOOSE i \in found : TRUE
               info == AddInfo(R, m, found)
               absent == IF found = {} THEN TRUE ELSE ~Active(R[i])
               done == ApplyOne(R, m, reassigned)
           IN
           \/ Cardinality(found) > 1 /\ done = [rows |-> R, verdict |-> "crash"]
           \/ /\ ~(Cardinality(found) > 1)
              /\ found = {} /\ m.now.data = "gone" /\ reassigned /\ done = InsertDeleted(R, m)
           \/ /\ ~(Cardinality(found) > 1)
              /\ absent /\ m.now.data = "gone" /\ done = [rows |-> R, verdict |-> "noop"]
           \/ /\ ~(Cardinality(found) > 1)
              /\ ~absent /\ found # {} /\ m.now.data = "gone"
              /\ done = [rows |-> [R EXCEPT ![i].status = "deleted"], verdict |-> "delete"]
           \/ /\ ~(Cardinality(found) > 1)
              /\ absent /\ m.now.data = "member" /\ info.v4 = None /\ info.v6 = None
              /\ done = [rows |-> R, verdict |-> "noop"]
           \/ /\ ~(Cardinality(found) > 1)
              /\ absent /\ m.now.data = "member" /\ ~(info.v4 = None /\ info.v6 = None)
              /\ done = AddNetixlan(R, info)
           \/ /\ ~(Cardinality(found) > 1)
              /\ ~absent /\ found # {} /\ m.now.data = "member"
              /\ done = [rows |-> [R EXCEPT ![i].oper = m.now.oper], verdict |-> "modify"]
<1> DEFINE found == Matching(R, m.key, m.now.data = "gone")
           i == CHOOSE i \in found : TRUE
           info == AddInfo(R, m, found)
           absent == IF found = {} THEN TRUE ELSE ~Active(R[i])
<1>1. m.now.data \in {"member", "gone"}
  BY DEF Instance, Proposal
<1>2. ApplyOne(R, m, reassigned) =
        IF Cardinality(found) > 1 THEN [rows |-> R, verdict |-> "crash"] ELSE
        CASE found = {} /\ m.now.data = "gone" /\ reassigned -> InsertDeleted(R, m)
          [] absent /\ m.now.data = "gone" /\ ~(found = {} /\ reassigned) ->
               [rows |-> R, verdict |-> "noop"]
          [] ~absent /\ m.now.data = "gone" ->
               [rows |-> [R EXCEPT ![i].status = "deleted"], verdict |-> "delete"]
          [] absent /\ m.now.data = "member" ->
               IF info.v4 = None /\ info.v6 = None
                 THEN [rows |-> R, verdict |-> "noop"]
                 ELSE AddNetixlan(R, info)
          [] ~absent /\ m.now.data = "member" ->
               [rows |-> [R EXCEPT ![i].oper = m.now.oper], verdict |-> "modify"]
  BY DEF ApplyOne
<1>3. absent \/ found # {}
  OBVIOUS
<1> HIDE DEF found, i, info, absent
<1>4. QED BY <1>1, <1>2, <1>3 DEF found, i, info, absent

(* The rows that a proposal stands for.                                    *)
LEMMA MatchingRows ==
    ASSUME NEW R \in Table, NEW k, NEW exact
    PROVE  Matching(R, k, exact) \subseteq DOMAIN R /\ IsFiniteSet(Matching(R, k, exact))
<1>1. DOMAIN R = 1..Len(R) /\ Len(R) \in Nat
  BY DEF Table
<1>2. IsFiniteSet(DOMAIN R)
  BY <1>1, FS_Interval
<1>3. QED BY <1>2, FS_Subset DEF Matching

LEMMA OnlyMember ==
    ASSUME NEW S, IsFiniteSet(S), ~(Cardinality(S) > 1), NEW x \in S
    PROVE  S = {x}
<1>1. Cardinality(S) \in Nat /\ Cardinality(S) <= 1
  BY FS_CardinalityType
<1>2. Cardinality({x}) = 1 /\ IsFiniteSet({x}) /\ {x} \subseteq S
  BY FS_Singleton
<1>3. QED BY <1>1, <1>2, FS_Subset

\* A row that takes another status or other data.
LEMMA RowChanged ==
    ASSUME NEW R \in Table, NEW i \in DOMAIN R, NEW m \in Instance
    PROVE  /\ Trimmed(R, [R EXCEPT ![i].status = "deleted"])
           /\ Active(R[i]) => Trimmed(R, [R EXCEPT ![i].oper = m.now.oper])
<1> DEFINE g == [R[i] EXCEPT !.status = "deleted"]
           o == [R[i] EXCEPT !.oper = m.now.oper]
<1>1. R[i] \in Netixlan
  BY RowType
<1>2. /\ g.here = R[i].here /\ g.asn = R[i].asn /\ g.v4 = R[i].v4 /\ g.v6 = R[i].v6
      /\ ~Active(g)
      /\ o.here = R[i].here /\ o.asn = R[i].asn /\ o.v4 = R[i].v4 /\ o.v6 = R[i].v6
  BY <1>1 DEF Netixlan, Active
<1> HIDE DEF g, o
<1>3. /\ Trimmed(R, [R EXCEPT ![i] = g])
      /\ Active(R[i]) => Trimmed(R, [R EXCEPT ![i] = o])
  BY <1>2 DEF Trimmed
<1>4. /\ [R EXCEPT ![i].status = "deleted"] = [R EXCEPT ![i] = g]
      /\ [R EXCEPT ![i].oper = m.now.oper] = [R EXCEPT ![i] = o]
  BY DEF g, o
<1>5. QED BY <1>3, <1>4

(* So what is true of the addresses stays so when a proposal is applied.   *)
LEMMA ApplyOneKept ==
    ASSUME NEW R \in Table, NEW m \in Instance, NEW reassigned,
           m.now.data = "gone" /\ reassigned => ~Outside(m.key.v4) /\ ~Outside(m.key.v6)
    PROVE  Kept(R, ApplyOne(R, m, reassigned).rows)
<1> DEFINE found == Matching(R, m.key, m.now.data = "gone")
           i == CHOOSE i \in found : TRUE
           info == AddInfo(R, m, found)
           absent == IF found = {} THEN TRUE ELSE ~Active(R[i])
           done == ApplyOne(R, m, reassigned)
           gone == [R EXCEPT ![i].status = "deleted"]
           modified == [R EXCEPT ![i].oper = m.now.oper]
<1>1. \/ Cardinality(found) > 1 /\ done = [rows |-> R, verdict |-> "crash"]
      \/ found = {} /\ m.now.data = "gone" /\ reassigned /\ done = InsertDeleted(R, m)
      \/ absent /\ m.now.data = "gone" /\ done = [rows |-> R, verdict |-> "noop"]
      \/ ~absent /\ found # {} /\ done = [rows |-> gone, verdict |-> "delete"]
      \/ done = [rows |-> R, verdict |-> "noop"]
      \/ done = AddNetixlan(R, info)
      \/ ~absent /\ found # {} /\ done = [rows |-> modified, verdict |-> "modify"]
  <2>1. \/ Cardinality(found) > 1 /\ done = [rows |-> R, verdict |-> "crash"]
        \/ /\ ~(Cardinality(found) > 1)
           /\ found = {} /\ m.now.data = "gone" /\ reassigned /\ done = InsertDeleted(R, m)
        \/ /\ ~(Cardinality(found) > 1)
           /\ absent /\ m.now.data = "gone" /\ done = [rows |-> R, verdict |-> "noop"]
        \/ /\ ~(Cardinality(found) > 1)
           /\ ~absent /\ found # {} /\ m.now.data = "gone"
           /\ done = [rows |-> gone, verdict |-> "delete"]
        \/ /\ ~(Cardinality(found) > 1)
           /\ absent /\ m.now.data = "member" /\ info.v4 = None /\ info.v6 = None
           /\ done = [rows |-> R, verdict |-> "noop"]
        \/ /\ ~(Cardinality(found) > 1)
           /\ absent /\ m.now.data = "member" /\ ~(info.v4 = None /\ info.v6 = None)
           /\ done = AddNetixlan(R, info)
        \/ /\ ~(Cardinality(found) > 1)
           /\ ~absent /\ found # {} /\ m.now.data = "member"
           /\ done = [rows |-> modified, verdict |-> "modify"]
    BY ApplyOneShape
  <2> HIDE DEF found, i, info, absent, done, gone, modified
  <2>2. QED BY <2>1
<1>2. found # {} => i \in DOMAIN R
  BY MatchingRows
<1>3. info \in Netixlan /\ info.here
  <2>1. info \in Netixlan
    BY MatchingRows, AddInfoType
  <2>2. QED BY <2>1 DEF AddInfo
<1>4. found # {} /\ ~absent => Kept(R, gone) /\ Kept(R, modified)
  <2>1. found # {} /\ ~absent => Active(R[i])
    OBVIOUS
  <2> HIDE DEF found, i, info, absent, done
  <2>2. QED BY <1>2, <2>1, RowChanged, TrimmedKept
<1> HIDE DEF found, i, info, absent, done, gone, modified
<1>5. Kept(R, R) /\ Kept(R, AddNetixlan(R, info).rows)
  BY <1>3, KeptSame, AddNetixlanKept
<1>6. m.now.data = "gone" /\ reassigned => Kept(R, InsertDeleted(R, m).rows)
  BY InsertDeletedKept
<1>7. Kept(R, done.rows)
  BY <1>1, <1>4, <1>5, <1>6
<1>8. QED BY <1>7 DEF done

\* The row to write holds the IPv4 address if one does, or else the IPv6 address.
LEMMA TargetHolds ==
    ASSUME NEW R, NEW info
    PROVE  /\ Holder4(R, info.v4) # {} => Target(R, info) \in Holder4(R, info.v4)
           /\ Holder4(R, info.v4) = {} /\ Holder6(R, info.v6) # {}
                => Target(R, info) \in Holder6(R, info.v6)
<1>1. CASE Holder4(R, info.v4) # {}
  BY <1>1 DEF Target
<1>2. CASE Holder4(R, info.v4) = {} /\ Holder6(R, info.v6) # {}
  BY <1>2 DEF Target
<1>3. QED BY <1>1, <1>2

(* An add is refused only for an address outside of the LAN, or one that   *)
(* a row of another LAN holds: an active one, or one of the network.       *)
LEMMA AddInvalid ==
    ASSUME NEW R \in Table, Unshared(R), NEW info \in Netixlan,
           AddNetixlan(R, info).verdict = "invalid",
           ~Outside(info.v4), ~Outside(info.v6)
    PROVE  \E j \in DOMAIN R : /\ ~R[j].here /\ ~Apart(R[j], info)
                               /\ Active(R[j]) \/ R[j].asn = info.asn
<1> DEFINE C == Claimed(R, info)
           t == Target(R, info)
<1>1. HeldElsewhere(R, info.v4, info.v6) \/ Collides(C, t, info)
  BY DEF AddNetixlan
<1>2. CASE HeldElsewhere(R, info.v4, info.v6)
  BY <1>2 DEF HeldElsewhere, Apart
<1>3. CASE Collides(C, t, info)
  <2>1. DOMAIN C = DOMAIN R
    BY ClaimedDomain
  <2>2. PICK j \in DOMAIN R \ {t} : \/ info.v4 # None /\ C[j].v4 = info.v4
                                    \/ info.v6 # None /\ C[j].v6 = info.v6
    BY <1>3, <2>1 DEF Collides
  <2>3. /\ C[j].v4 = IF Claims4(R, info, j) THEN None ELSE R[j].v4
        /\ C[j].v6 = IF Resets(R, info, j) \/ Claims6(R, info, j) THEN None ELSE R[j].v6
    BY ClaimedRow
  <2>4. t \in Holder4(R, info.v4) => t \in DOMAIN R /\ R[t].v4 = info.v4
    BY DEF Holder4
  <2>5. t \in Holder6(R, info.v6) => t \in DOMAIN R /\ R[t].v6 = info.v6
    BY DEF Holder6
  <2>6. /\ Holder4(R, info.v4) # {} => t \in Holder4(R, info.v4)
        /\ Holder4(R, info.v4) = {} /\ Holder6(R, info.v6) # {} => t \in Holder6(R, info.v6)
    BY TargetHolds
  <2>7. Claims4(R, info, j) <=> /\ info.v4 # None /\ t \notin Holder4(R, info.v4)
                                /\ ~Active(R[j]) /\ R[j].asn # info.asn /\ R[j].v4 = info.v4
    BY DEF Claims4
  <2>8. Claims6(R, info, j) <=> /\ info.v6 # None /\ t \notin Holder6(R, info.v6)
                                /\ ~Active(R[j]) /\ R[j].asn # info.asn /\ R[j].v6 = info.v6
    BY DEF Claims6
  <2>9. Resets(R, info, j) <=> Holder4(R, info.v4) # {} /\ j \in Holder6(R, info.v6)
    BY DEF Resets
  <2> HIDE DEF C, t
  <2>10. ASSUME info.v4 # None, C[j].v4 = info.v4
         PROVE  ~R[j].here /\ ~Apart(R[j], info) /\ (Active(R[j]) \/ R[j].asn = info.asn)
    <3>1. ~Claims4(R, info, j) /\ R[j].v4 = info.v4
      BY <2>3, <2>10
    <3>2. t \notin Holder4(R, info.v4)
      BY <2>2, <2>4, <2>10, <3>1 DEF Unshared
    <3>3. ~R[j].here
      BY <2>2, <2>6, <2>10, <3>1, <3>2 DEF Holder4
    <3>4. QED BY <2>7, <2>10, <3>1, <3>2, <3>3 DEF Apart
  <2>11. ASSUME info.v6 # None, C[j].v6 = info.v6
         PROVE  ~R[j].here /\ ~Apart(R[j], info) /\ (Active(R[j]) \/ R[j].asn = info.asn)
    <3>1. ~Claims6(R, info, j) /\ ~Resets(R, info, j) /\ R[j].v6 = info.v6
      BY <2>3, <2>11
    <3>2. t \notin Holder6(R, info.v6)
      BY <2>2, <2>5, <2>11, <3>1 DEF Unshared
    <3>3. ~R[j].here
      <4>1. R[j].here => j \in Holder6(R, info.v6)
        BY <2>2, <2>11, <3>1 DEF Holder6
      <4>2. QED BY <2>6, <2>9, <3>1, <3>2, <4>1
    <3>4. QED BY <2>8, <2>11, <3>1, <3>2, <3>3 DEF Apart
  <2>12. QED BY <2>2, <2>10, <2>11
<1>4. QED BY <1>1, <1>2, <1>3

(* The rows that are active after an add: the one that it writes, and      *)
(* those that were, which lose an address only if it is that of the add.   *)
Undisturbed(R, S, k) ==
    /\ \A j \in DOMAIN S : Active(S[j]) =>
          \/ KeyOf(S[j]) = KeyOf(k)
          \/ /\ j \in DOMAIN R /\ Active(R[j])
             /\ S[j].asn = R[j].asn /\ S[j].here = R[j].here
             /\ S[j] = R[j] \/ ~Apart(R[j], k)
    /\ \A j \in DOMAIN R : Active(R[j]) /\ Apart(R[j], k) => j \in DOMAIN S /\ S[j] = R[j]

(* Claiming addresses takes from the active rows those of the claim.       *)
LEMMA ClaimedUndisturbed ==
    ASSUME NEW R \in Table, NEW info
    PROVE  Undisturbed(R, Claimed(R, info), info)
<1> DEFINE C == Claimed(R, info)
<1>1. DOMAIN C = DOMAIN R
  BY ClaimedDomain
<1>2. ASSUME NEW j \in DOMAIN R
      PROVE  /\ C[j].asn = R[j].asn /\ C[j].here = R[j].here /\ C[j].status = R[j].status
             /\ Active(R[j]) => C[j] = R[j] \/ ~Apart(R[j], info)
  <2>1. /\ C[j] \in Netixlan
        /\ C[j].asn = R[j].asn /\ C[j].oper = R[j].oper /\ C[j].here = R[j].here
        /\ C[j].status = R[j].status
        /\ C[j].v4 = IF Claims4(R, info, j) THEN None ELSE R[j].v4
        /\ C[j].v6 = IF Resets(R, info, j) \/ Claims6(R, info, j) THEN None ELSE R[j].v6
    BY ClaimedRow
  <2>2. R[j] \in Netixlan
    BY RowType
  <2>3. Active(R[j]) => ~Claims4(R, info, j) /\ ~Claims6(R, info, j)
    BY DEF Claims4, Claims6
  <2>4. Resets(R, info, j) => ~Apart(R[j], info)
    BY DEF Resets, Holder6, Apart
  <2> HIDE DEF C
  <2>5. Active(R[j]) /\ ~Resets(R, info, j) => C[j] = R[j]
    BY <2>1, <2>2, <2>3 DEF Netixlan
  <2>6. QED BY <2>1, <2>4, <2>5
<1> HIDE DEF C
<1>3. QED BY <1>1, <1>2 DEF Undisturbed, Active, C

(* A successful add leaves the connection active, and disturbs no other.   *)
LEMMA AddNetixlanAdds ==
    ASSUME NEW R \in Table, NEW info \in Netixlan
    PROVE  LET done == AddNetixlan(R, info) IN
           /\ Undisturbed(R, done.rows, info)
           /\ done.verdict \in {"add", "invalid"}
           /\ done.verdict = "add" => \E j \in DOMAIN done.rows : done.rows[j] = info
<1> DEFINE C == Claimed(R, info)
           t == Target(R, info)
           S == Put(C, t, info)
           done == AddNetixlan(R, info)
<1>1. Undisturbed(R, C, info) /\ Undisturbed(R, R, info)
  BY ClaimedUndisturbed DEF Undisturbed
<1>2. /\ DOMAIN C = DOMAIN R
      /\ t \in Holder4(R, info.v4) \cup Holder6(R, info.v6) \/ t = Len(R) + 1
      /\ DOMAIN S = DOMAIN R \cup {t} /\ S[t] = info
      /\ \A i \in DOMAIN R \ {t} : S[i] = C[i]
  BY Placed
<1>3. \/ done.verdict = "invalid" /\ done.rows \in {R, C}
      \/ done.verdict = "add" /\ done.rows = S
  BY DEF AddNetixlan
<1>4. DOMAIN R = 1..Len(R) /\ Len(R) \in Nat
  BY DEF Table
<1> HIDE DEF C, t, S, done
<1>5. t \in DOMAIN R => ~Apart(R[t], info)
  BY <1>2, <1>4 DEF Holder4, Holder6, Apart
<1>6. Undisturbed(R, S, info)
  <2>1. ASSUME NEW j \in DOMAIN S, Active(S[j]), j # t
        PROVE  /\ j \in DOMAIN R /\ S[j] = C[j] /\ j \in DOMAIN C
    BY <1>2, <2>1
  <2>2. \A j \in DOMAIN R : Active(R[j]) /\ Apart(R[j], info) => j # t /\ S[j] = R[j]
    BY <1>1, <1>2, <1>5 DEF Undisturbed
  <2>3. QED BY <1>1, <1>2, <2>1, <2>2 DEF Undisturbed
<1>7. QED BY <1>1, <1>2, <1>3, <1>6 DEF done

(* For a network with both protocols a proposal stands for the rows with   *)
(* both of its addresses.                                                  *)
LEMMA MatchingDual ==
    ASSUME DualStacked, NEW R \in Table, NEW k \in Key, NEW exact
    PROVE  Matching(R, k, exact) =
             {j \in DOMAIN R : KeyOf(R[j]) = k /\ (k.v4 # None \/ k.v6 # None)}
<1>1. ASSUME NEW j \in DOMAIN R, KeyOf(R[j]) = k PROVE Same(k, R[j], exact)
  BY <1>1 DEF Same, KeyOf
<1>2. Addressed(k, exact) <=> k.v4 # None \/ k.v6 # None
  BY DEF Addressed, DualStacked, Key
<1>3. QED BY <1>1, <1>2, SameIsEqual DEF Matching

LEMMA AddInfoDual ==
    ASSUME DualStacked, NEW R \in Table, NEW m \in Instance, NEW exact
    PROVE  LET info == AddInfo(R, m, Matching(R, m.key, exact)) IN
           /\ info \in Netixlan /\ info.here /\ Active(info)
           /\ info.asn = m.key.asn /\ info.v4 = m.key.v4 /\ info.v6 = m.key.v6
           /\ info.oper = m.now.oper /\ KeyOf(info) = m.key
<1> DEFINE found == Matching(R, m.key, exact)
           from == IF found = {} THEN m.key ELSE KeyOf(R[CHOOSE j \in found : TRUE])
           info == AddInfo(R, m, found)
<1>1. m.key \in Key
  BY DEF Instance
<1>2. from = m.key
  BY <1>1, MatchingDual
<1>3. net[m.key.asn].p4 /\ net[m.key.asn].p6
  BY <1>1 DEF DualStacked, Key
<1>4. info = [asn |-> m.key.asn,
              v4 |-> IF net[m.key.asn].p4 THEN from.v4 ELSE None,
              v6 |-> IF net[m.key.asn].p6 THEN from.v6 ELSE None,
              oper |-> m.now.oper, here |-> TRUE, status |-> "ok"]
  BY DEF AddInfo
<1>5. info \in Netixlan
  BY MatchingRows, AddInfoType
<1> HIDE DEF from, found, info
<1>6. /\ info.asn = m.key.asn /\ info.v4 = m.key.v4 /\ info.v6 = m.key.v6
      /\ info.oper = m.now.oper /\ info.here /\ Active(info)
  BY <1>2, <1>3, <1>4 DEF Active
<1>7. KeyOf(info) = m.key
  BY <1>1, <1>6 DEF KeyOf, Key
<1>8. QED BY <1>5, <1>6, <1>7 DEF info, found

(* Applying a deletion deactivates the rows with that identity, no others; *)
(* but it finds no row without addresses.                                  *)
Fewer(R, S, k) ==
    /\ \A j \in DOMAIN S : Active(S[j]) => j \in DOMAIN R /\ S[j] = R[j]
    /\ \A j \in DOMAIN R : Active(R[j]) /\ KeyOf(R[j]) # k => j \in DOMAIN S /\ S[j] = R[j]

NoneActive(R, k) ==
    k.v4 # None \/ k.v6 # None => \A j \in DOMAIN R : Active(R[j]) => KeyOf(R[j]) # k

LEMMA ApplyOneGone ==
    ASSUME DualStacked, NEW R \in Table, NEW m \in Instance, NEW reassigned,
           m.now.data = "gone"
    PROVE  LET done == ApplyOne(R, m, reassigned) IN
           /\ Fewer(R, done.rows, m.key)
           /\ done.verdict # "invalid"
           /\ ~Stopped(done) => NoneActive(done.rows, m.key)
<1> DEFINE found == Matching(R, m.key, m.now.data = "gone")
           i == CHOOSE i \in found : TRUE
           absent == IF found = {} THEN TRUE ELSE ~Active(R[i])
           done == ApplyOne(R, m, reassigned)
           gone == [R EXCEPT ![i].status = "deleted"]
<1>1. m.key \in Key
  BY DEF Instance
<1>2. /\ found = {j \in DOMAIN R : KeyOf(R[j]) = m.key /\ (m.key.v4 # None \/ m.key.v6 # None)}
      /\ IsFiniteSet(found)
  BY <1>1, MatchingDual, MatchingRows
<1>3. found # {} => i \in found
  OBVIOUS
<1>4. \/ Cardinality(found) > 1 /\ done = [rows |-> R, verdict |-> "crash"]
      \/ ~(Cardinality(found) > 1) /\ found = {} /\ done = InsertDeleted(R, m)
      \/ ~(Cardinality(found) > 1) /\ absent /\ done = [rows |-> R, verdict |-> "noop"]
      \/ /\ ~(Cardinality(found) > 1) /\ ~absent /\ found # {}
         /\ done = [rows |-> gone, verdict |-> "delete"]
  <2> DEFINE info == AddInfo(R, m, found)
             modified == [R EXCEPT ![i].oper = m.now.oper]
  <2>1. \/ Cardinality(found) > 1 /\ done = [rows |-> R, verdict |-> "crash"]
        \/ /\ ~(Cardinality(found) > 1)
           /\ found = {} /\ m.now.data = "gone" /\ reassigned /\ done = InsertDeleted(R, m)
        \/ /\ ~(Cardinality(found) > 1)
           /\ absent /\ m.now.data = "gone" /\ done = [rows |-> R, verdict |-> "noop"]
        \/ /\ ~(Cardinality(found) > 1)
           /\ ~absent /\ found # {} /\ m.now.data = "gone"
           /\ done = [rows |-> gone, verdict |-> "delete"]
        \/ /\ ~(Cardinality(found) > 1)
           /\ absent /\ m.now.data = "member" /\ info.v4 = None /\ info.v6 = None
           /\ done = [rows |-> R, verdict |-> "noop"]
        \/ /\ ~(Cardinality(found) > 1)
           /\ absent /\ m.now.data = "member" /\ ~(info.v4 = None /\ info.v6 = None)
           /\ done = AddNetixlan(R, info)
        \/ /\ ~(Cardinality(found) > 1)
           /\ ~absent /\ found # {} /\ m.now.data = "member"
           /\ done = [rows |-> modified, verdict |-> "modify"]
    BY ApplyOneShape
  <2> HIDE DEF found, i, info, absent, done, gone, modified
  <2>2. QED BY <2>1
<1>5. absent <=> found = {} \/ ~Active(R[i])
  OBVIOUS
<1>6. found # {} =>
        /\ DOMAIN gone = DOMAIN R /\ ~Active(gone[i])
        /\ \A j \in DOMAIN R : j # i => gone[j] = R[j]
  <2>1. found # {} => R[i] \in Netixlan /\ i \in DOMAIN R
    BY <1>2, <1>3, RowType
  <2> HIDE DEF found, i
  <2>2. QED BY <2>1 DEF Active, Netixlan
<1> HIDE DEF found, i, absent, gone
<1>7. ~(Cardinality(found) > 1) => \A j \in found : j = i
  BY <1>2, <1>3, OnlyMember
<1>8. CASE Cardinality(found) > 1 /\ done = [rows |-> R, verdict |-> "crash"]
  <2> HIDE DEF done
  <2>1. QED BY <1>8 DEF Fewer, Stopped, done
<1>9. CASE found = {} /\ done = InsertDeleted(R, m)
  <2> DEFINE r == [asn |-> m.key.asn, v4 |-> m.key.v4, v6 |-> m.key.v6,
                   oper |-> m.now.oper, here |-> TRUE, status |-> "deleted"]
  <2>1. r \in Netixlan /\ ~Active(r)
    BY DEF Netixlan, Instance, Proposal, Key, Active
  <2>2. done = IF Collides(R, 0, r) THEN [rows |-> R, verdict |-> "crash"]
               ELSE [rows |-> Append(R, r), verdict |-> "delete"]
    BY <1>9 DEF InsertDeleted
  <2> HIDE DEF r, done
  <2>3. NoneActive(R, m.key)
    BY <1>2, <1>9 DEF NoneActive
  <2>4. Fewer(R, Append(R, r), m.key) /\ NoneActive(Append(R, r), m.key)
    <3> DEFINE S == Append(R, r)
    <3>1. /\ DOMAIN S = DOMAIN R \cup {Len(R) + 1}
          /\ S[Len(R) + 1] = r
          /\ \A j \in DOMAIN R : S[j] = R[j]
      BY <2>1, RowsAfterAppend
    <3> HIDE DEF S
    <3>2. Fewer(R, S, m.key) /\ NoneActive(S, m.key)
      BY <2>1, <2>3, <3>1 DEF Fewer, NoneActive
    <3>3. QED BY <3>2 DEF S
  <2>5. Fewer(R, R, m.key)
    BY DEF Fewer
  <2>6. QED BY <2>2, <2>3, <2>4, <2>5 DEF done
<1>10. CASE ~(Cardinality(found) > 1) /\ absent /\ done = [rows |-> R, verdict |-> "noop"]
  <2> HIDE DEF done
  <2>1. NoneActive(R, m.key)
    BY <1>2, <1>3, <1>5, <1>7, <1>10 DEF NoneActive
  <2>2. QED BY <1>10, <2>1 DEF Fewer, done
<1>11. CASE /\ ~(Cardinality(found) > 1) /\ ~absent /\ found # {}
            /\ done = [rows |-> gone, verdict |-> "delete"]
  <2> HIDE DEF done
  <2>1. Fewer(R, gone, m.key)
    BY <1>2, <1>3, <1>6, <1>11 DEF Fewer
  <2>2. NoneActive(gone, m.key)
    BY <1>2, <1>6, <1>7, <1>11 DEF NoneActive
  <2>3. QED BY <1>11, <2>1, <2>2 DEF done
<1>12. QED BY <1>4, <1>8, <1>9, <1>10, <1>11

(* Rows of other LANs keep their addresses, but for those of k.            *)
Stay(R, S, k) ==
    \A j \in DOMAIN R : ~R[j].here =>
       /\ j \in DOMAIN S /\ ~S[j].here /\ S[j].asn = R[j].asn
       /\ S[j].v4 = R[j].v4 \/ (R[j].v4 = k.v4 /\ k.v4 # None)
       /\ S[j].v6 = R[j].v6 \/ (R[j].v6 = k.v6 /\ k.v6 # None)

LEMMA StaySame == \A R, k : Stay(R, R, k)
  BY DEF Stay

LEMMA StayThen ==
    ASSUME NEW R, NEW S, NEW T, NEW k, Stay(R, S, k), Stay(S, T, k)
    PROVE  Stay(R, T, k)
  BY DEF Stay

LEMMA AddNetixlanStay ==
    ASSUME NEW R \in Table, NEW info \in Netixlan
    PROVE  Stay(R, AddNetixlan(R, info).rows, info)
<1> DEFINE C == Claimed(R, info)
           t == Target(R, info)
           S == Put(C, t, info)
<1>1. /\ DOMAIN C = DOMAIN R
      /\ t \in Holder4(R, info.v4) \cup Holder6(R, info.v6) \/ t = Len(R) + 1
      /\ DOMAIN S = DOMAIN R \cup {t} /\ S[t] = info
      /\ \A i \in DOMAIN R \ {t} : S[i] = C[i]
  BY Placed
<1>2. ASSUME NEW j \in DOMAIN R, ~R[j].here
      PROVE  /\ ~C[j].here /\ C[j].asn = R[j].asn /\ j # t
             /\ C[j].v4 = R[j].v4 \/ (R[j].v4 = info.v4 /\ info.v4 # None)
             /\ C[j].v6 = R[j].v6 \/ (R[j].v6 = info.v6 /\ info.v6 # None)
  <2>1. /\ C[j].asn = R[j].asn /\ C[j].here = R[j].here
        /\ C[j].v4 = IF Claims4(R, info, j) THEN None ELSE R[j].v4
        /\ C[j].v6 = IF Resets(R, info, j) \/ Claims6(R, info, j) THEN None ELSE R[j].v6
    BY ClaimedRow
  <2>2. DOMAIN R = 1..Len(R) /\ Len(R) \in Nat
    BY DEF Table
  <2>3. j # t
    BY <1>1, <1>2, <2>2 DEF Holder4, Holder6
  <2>4. ~Resets(R, info, j)
    BY <1>2 DEF Resets, Holder6
  <2>5. /\ Claims4(R, info, j) => R[j].v4 = info.v4 /\ info.v4 # None
        /\ Claims6(R, info, j) => R[j].v6 = info.v6 /\ info.v6 # None
    BY DEF Claims4, Claims6
  <2> HIDE DEF C, t
  <2>6. QED BY <1>2, <2>1, <2>3, <2>4, <2>5
<1>3. AddNetixlan(R, info).rows \in {R, C, S}
  BY DEF AddNetixlan
<1> HIDE DEF C, t, S
<1>4. Stay(R, R, info) /\ Stay(R, C, info) /\ Stay(R, S, info)
  BY <1>1, <1>2 DEF Stay
<1>5. QED BY <1>3, <1>4

LEMMA TrimmedExact ==
    ASSUME NEW R \in Table, NEW i \in DOMAIN R, NEW m \in Instance, NEW k
    PROVE  /\ Stay(R, [R EXCEPT ![i].status = "deleted"], k)
           /\ Stay(R, [R EXCEPT ![i].oper = m.now.oper], k)
<1> DEFINE g == [R[i] EXCEPT !.status = "deleted"]
           o == [R[i] EXCEPT !.oper = m.now.oper]
<1>1. R[i] \in Netixlan
  BY RowType
<1>2. /\ g.here = R[i].here /\ g.asn = R[i].asn /\ g.v4 = R[i].v4 /\ g.v6 = R[i].v6
      /\ o.here = R[i].here /\ o.asn = R[i].asn /\ o.v4 = R[i].v4 /\ o.v6 = R[i].v6
  BY <1>1 DEF Netixlan
<1> HIDE DEF g, o
<1>3. Stay(R, [R EXCEPT ![i] = g], k) /\ Stay(R, [R EXCEPT ![i] = o], k)
  BY <1>2 DEF Stay
<1>4. /\ [R EXCEPT ![i].status = "deleted"] = [R EXCEPT ![i] = g]
      /\ [R EXCEPT ![i].oper = m.now.oper] = [R EXCEPT ![i] = o]
  BY DEF g, o
<1>5. QED BY <1>3, <1>4

LEMMA InsertDeletedStay ==
    ASSUME NEW R \in Table, NEW m \in Instance, NEW k
    PROVE  Stay(R, InsertDeleted(R, m).rows, k)
<1> DEFINE r == [asn |-> m.key.asn, v4 |-> m.key.v4, v6 |-> m.key.v6,
                 oper |-> m.now.oper, here |-> TRUE, status |-> "deleted"]
<1>1. r \in Netixlan
  BY DEF Netixlan, Instance, Proposal, Key
<1>2. InsertDeleted(R, m).rows \in {R, Append(R, r)}
  BY DEF InsertDeleted
<1> HIDE DEF r
<1>3. /\ \A j \in DOMAIN R : j \in DOMAIN Append(R, r) /\ Append(R, r)[j] = R[j]
  BY <1>1, RowsAfterAppend
<1>4. Stay(R, R, k) /\ Stay(R, Append(R, r), k)
  BY <1>3 DEF Stay
<1>5. QED BY <1>2, <1>4

LEMMA ApplyOneStay ==
    ASSUME DualStacked, NEW R \in Table, NEW m \in Instance, NEW reassigned, NEW k,
           m.now.data = "member" => k = m.key
    PROVE  Stay(R, ApplyOne(R, m, reassigned).rows, k)
<1> DEFINE found == Matching(R, m.key, m.now.data = "gone")
           i == CHOOSE i \in found : TRUE
           info == AddInfo(R, m, found)
           absent == IF found = {} THEN TRUE ELSE ~Active(R[i])
           done == ApplyOne(R, m, reassigned)
           gone == [R EXCEPT ![i].status = "deleted"]
           modified == [R EXCEPT ![i].oper = m.now.oper]
<1>1. \/ done.rows = R
      \/ done = InsertDeleted(R, m)
      \/ found # {} /\ done.rows \in {gone, modified}
      \/ m.now.data = "member" /\ done = AddNetixlan(R, info)
  <2>1. \/ Cardinality(found) > 1 /\ done = [rows |-> R, verdict |-> "crash"]
        \/ /\ ~(Cardinality(found) > 1)
           /\ found = {} /\ m.now.data = "gone" /\ reassigned /\ done = InsertDeleted(R, m)
        \/ /\ ~(Cardinality(found) > 1)
           /\ absent /\ m.now.data = "gone" /\ done = [rows |-> R, verdict |-> "noop"]
        \/ /\ ~(Cardinality(found) > 1)
           /\ ~absent /\ found # {} /\ m.now.data = "gone"
           /\ done = [rows |-> gone, verdict |-> "delete"]
        \/ /\ ~(Cardinality(found) > 1)
           /\ absent /\ m.now.data = "member" /\ info.v4 = None /\ info.v6 = None
           /\ done = [rows |-> R, verdict |-> "noop"]
        \/ /\ ~(Cardinality(found) > 1)
           /\ absent /\ m.now.data = "member" /\ ~(info.v4 = None /\ info.v6 = None)
           /\ done = AddNetixlan(R, info)
        \/ /\ ~(Cardinality(found) > 1)
           /\ ~absent /\ found # {} /\ m.now.data = "member"
           /\ done = [rows |-> modified, verdict |-> "modify"]
    BY ApplyOneShape
  <2> HIDE DEF found, i, info, absent, done, gone, modified
  <2>2. QED BY <2>1
<1>2. found # {} => i \in DOMAIN R
  BY MatchingRows
<1>3. info \in Netixlan /\ info.v4 = m.key.v4 /\ info.v6 = m.key.v6
  BY AddInfoDual
<1>4. found # {} => Stay(R, gone, k) /\ Stay(R, modified, k)
  BY <1>2, TrimmedExact
<1> HIDE DEF found, i, info, absent, done, gone, modified
<1>5. Stay(R, R, k) /\ Stay(R, InsertDeleted(R, m).rows, k)
  BY StaySame, InsertDeletedStay
<1>6. ASSUME m.now.data = "member" PROVE Stay(R, AddNetixlan(R, info).rows, k)
  <2>1. Stay(R, AddNetixlan(R, info).rows, info)
    BY <1>3, AddNetixlanStay
  <2>2. QED BY <1>3, <1>6, <2>1 DEF Stay
<1>7. Stay(R, done.rows, k)
  BY <1>1, <1>4, <1>5, <1>6
<1>8. QED BY <1>7 DEF done

(* An add that is refused, of addresses on the LAN: a row of the network   *)
(* on another LAN is in the way.                                           *)
Refused(R, k) == Outside(k.v4) \/ Outside(k.v6) \/ Barred(R, k)

LEMMA AddRefused ==
    ASSUME NEW R \in Table, Unshared(R), Separate(R), NEW info \in Netixlan,
           AddNetixlan(R, info).verdict = "invalid"
    PROVE  Refused(AddNetixlan(R, info).rows, info)
<1> DEFINE C == Claimed(R, info)
           t == Target(R, info)
<1>1. SUFFICES ASSUME ~Outside(info.v4), ~Outside(info.v6)
               PROVE  Barred(AddNetixlan(R, info).rows, info)
  BY DEF Refused
<1>2. ~HeldElsewhere(R, info.v4, info.v6)
  BY <1>1 DEF HeldElsewhere, Separate, Outside
<1>3. AddNetixlan(R, info).rows = C
  BY <1>1, <1>2 DEF AddNetixlan
<1>4. DOMAIN C = DOMAIN R
  BY ClaimedDomain
<1>5. PICK j \in DOMAIN R : ~R[j].here /\ ~Apart(R[j], info) /\ R[j].asn = info.asn
  BY <1>1, AddInvalid DEF Separate, Outside, Apart
<1>6. ~C[j].here /\ C[j].asn = info.asn /\ ~Apart(C[j], info)
  <2>1. /\ C[j].asn = R[j].asn /\ C[j].here = R[j].here
        /\ C[j].v4 = IF Claims4(R, info, j) THEN None ELSE R[j].v4
        /\ C[j].v6 = IF Resets(R, info, j) \/ Claims6(R, info, j) THEN None ELSE R[j].v6
    BY ClaimedRow
  <2>2. ~Claims4(R, info, j) /\ ~Claims6(R, info, j) /\ ~Resets(R, info, j)
    BY <1>5 DEF Claims4, Claims6, Resets, Holder6
  <2> HIDE DEF C
  <2>3. QED BY <1>5, <2>1, <2>2 DEF Apart
<1>7. ASSUME NEW l \in DOMAIN R, ~R[l].here, R[l].asn # info.asn
      PROVE  Apart(C[l], info)
  <2>1. /\ C[l].v4 = IF Claims4(R, info, l) THEN None ELSE R[l].v4
        /\ C[l].v6 = IF Resets(R, info, l) \/ Claims6(R, info, l) THEN None ELSE R[l].v6
    BY ClaimedRow
  <2>2. Active(R[l]) => Apart(R[l], info)
    BY <1>1, <1>7 DEF Separate, Outside, Apart
  <2>3. info.v4 # None /\ R[l].v4 = info.v4 => Claims4(R, info, l)
    BY <1>7, <2>2 DEF Claims4, Holder4, Unshared, Apart
  <2>4. info.v6 # None /\ R[l].v6 = info.v6 => Claims6(R, info, l)
    BY <1>7, <2>2 DEF Claims6, Holder6, Unshared, Apart
  <2> HIDE DEF C
  <2>5. QED BY <2>1, <2>3, <2>4 DEF Apart
<1>8. \A l \in DOMAIN R : C[l].here = R[l].here /\ C[l].asn = R[l].asn
  BY ClaimedRow
<1> HIDE DEF C
<1>9. Barred(C, info)
  BY <1>4, <1>6, <1>7, <1>8 DEF Barred
<1>10. QED BY <1>3, <1>9

LEMMA SameRows ==
    ASSUME NEW R \in Table, NEW S \in Table, DOMAIN S = DOMAIN R,
           \A j \in DOMAIN R : S[j] = R[j]
    PROVE  S = R
  BY DEF Table

(* Where it is refused already, it writes nothing.                         *)
LEMMA RefusedIdle ==
    ASSUME NEW R \in Table, Unshared(R), Separate(R), NEW info \in Netixlan, Refused(R, info)
    PROVE  AddNetixlan(R, info).rows = R
<1> DEFINE C == Claimed(R, info)
           t == Target(R, info)
<1>1. CASE Outside(info.v4) \/ Outside(info.v6)
  BY <1>1 DEF AddNetixlan
<1>2. CASE Barred(R, info)
  <2>1. PICK j \in DOMAIN R : ~R[j].here /\ R[j].asn = info.asn /\ ~Apart(R[j], info)
    BY <1>2 DEF Barred
  <2>2. DOMAIN C = DOMAIN R /\ C \in Table
    BY ClaimedDomain, ClaimedType
  <2>3. ASSUME NEW l \in DOMAIN R PROVE C[l] = R[l]
    <3>1. /\ C[l] \in Netixlan
          /\ C[l].asn = R[l].asn /\ C[l].oper = R[l].oper /\ C[l].here = R[l].here
          /\ C[l].status = R[l].status
          /\ C[l].v4 = IF Claims4(R, info, l) THEN None ELSE R[l].v4
          /\ C[l].v6 = IF Resets(R, info, l) \/ Claims6(R, info, l) THEN None ELSE R[l].v6
      BY ClaimedRow
    <3>2. R[l] \in Netixlan
      BY RowType
    <3>3. ~Claims4(R, info, l) /\ ~Claims6(R, info, l)
      <4>1. ~R[l].here /\ R[l].asn # info.asn => Apart(R[l], info)
        BY <1>2 DEF Barred
      <4>2. ASSUME R[l].here, Claims4(R, info, l) PROVE FALSE
        <5>1. l \in Holder4(R, info.v4)
          BY <4>2 DEF Claims4, Holder4
        <5>2. QED BY <4>2, <5>1, TargetHolds DEF Claims4
      <4>3. ASSUME R[l].here, Claims6(R, info, l) PROVE FALSE
        <5>1. l \in Holder6(R, info.v6) /\ info.v6 # None /\ R[l].v6 = info.v6
          BY <4>3 DEF Claims6, Holder6
        <5>2. j # l
          BY <2>1, <4>3
        <5>3. R[j].v4 = info.v4 /\ info.v4 # None
          BY <2>1, <5>1, <5>2 DEF Apart, Unshared
        <5>4. Holder4(R, info.v4) = {}
          BY <2>1, <5>3 DEF Holder4, Unshared
        <5>5. QED BY <4>3, <5>1, <5>4, TargetHolds DEF Claims6
      <4>4. Claims4(R, info, l) \/ Claims6(R, info, l) => R[l].asn # info.asn /\ ~Apart(R[l], info)
        BY DEF Claims4, Claims6, Apart
      <4>5. QED BY <4>1, <4>2, <4>3, <4>4
    <3>4. ~Resets(R, info, l)
      <4>1. SUFFICES ASSUME Resets(R, info, l) PROVE FALSE
        OBVIOUS
      <4>2. PICK h \in DOMAIN R : R[h].here /\ R[h].v4 = info.v4 /\ info.v4 # None
        BY <4>1 DEF Resets, Holder4
      <4>3. R[l].here /\ R[l].v6 = info.v6 /\ info.v6 # None
        BY <4>1 DEF Resets, Holder6
      <4>4. QED BY <2>1, <4>2, <4>3 DEF Apart, Unshared
    <3> HIDE DEF C
    <3>5. QED BY <3>1, <3>2, <3>3, <3>4 DEF Netixlan
  <2>4. C = R
    <3> HIDE DEF C
    <3>1. QED BY <2>2, <2>3, SameRows
  <2>5. j # t
    <3>1. t \in Holder4(R, info.v4) \cup Holder6(R, info.v6) \/ t = Len(R) + 1
      BY TargetIs
    <3>2. DOMAIN R = 1..Len(R) /\ Len(R) \in Nat
      BY DEF Table
    <3>3. QED BY <2>1, <3>1, <3>2 DEF Holder4, Holder6
  <2>6. Collides(C, t, info)
    BY <2>1, <2>4, <2>5 DEF Collides, Apart
  <2>7. AddNetixlan(R, info).rows \in {R, C}
    BY <2>6 DEF AddNetixlan
  <2>8. QED BY <2>4, <2>7
<1>3. QED BY <1>1, <1>2 DEF Refused

(* Applying member data leaves the connection, or is refused as above.     *)
JoinedIn(R, k, oper) ==
    \E j \in DOMAIN R : Active(R[j]) /\ KeyOf(R[j]) = k /\ R[j].oper = oper

Blocked(R, k) ==
    \/ Outside(k.v4) \/ Outside(k.v6)
    \/ \E j \in DOMAIN R : /\ ~R[j].here /\ ~Apart(R[j], k)
                           /\ Active(R[j]) \/ R[j].asn = k.asn

\* R before and S after an add that is refused.
Bars(R, S, k) == Blocked(R, k) /\ (Separate(R) => Refused(S, k))

LEMMA ApplyOneMember ==
    ASSUME DualStacked, NEW R \in Table, Unshared(R), NEW m \in Instance, NEW reassigned,
           m.now.data = "member", m.key.v4 # None \/ m.key.v6 # None
    PROVE  LET done == ApplyOne(R, m, reassigned) IN
           /\ Undisturbed(R, done.rows, m.key)
           /\ \A j \in DOMAIN done.rows :
                 Active(done.rows[j]) /\ KeyOf(done.rows[j]) # m.key
                    => j \in DOMAIN R /\ (done.rows[j] = R[j] \/ KeyOf(R[j]) # m.key)
           /\ done.verdict = "invalid" => Bars(R, done.rows, m.key)
           /\ ~Stopped(done) => JoinedIn(done.rows, m.key, m.now.oper)
<1> DEFINE found == Matching(R, m.key, m.now.data = "gone")
           i == CHOOSE i \in found : TRUE
           info == AddInfo(R, m, found)
           absent == IF found = {} THEN TRUE ELSE ~Active(R[i])
           done == ApplyOne(R, m, reassigned)
           modified == [R EXCEPT ![i].oper = m.now.oper]
           added == AddNetixlan(R, info)
           Result(S) == /\ Undisturbed(R, S, m.key)
                        /\ \A j \in DOMAIN S : Active(S[j]) /\ KeyOf(S[j]) # m.key
                              => j \in DOMAIN R /\ (S[j] = R[j] \/ KeyOf(R[j]) # m.key)
<1>1. m.key \in Key /\ m.now.oper \in Operational
  BY DEF Instance, Proposal
<1>2. found = {j \in DOMAIN R : KeyOf(R[j]) = m.key} /\ IsFiniteSet(found)
  BY <1>1, MatchingDual, MatchingRows
<1>3. found # {} => i \in found
  OBVIOUS
<1>4. /\ info \in Netixlan /\ info.here /\ Active(info)
      /\ info.asn = m.key.asn /\ info.v4 = m.key.v4 /\ info.v6 = m.key.v6
      /\ info.oper = m.now.oper /\ KeyOf(info) = m.key
  BY AddInfoDual
<1>5. \/ done = [rows |-> R, verdict |-> "crash"]
      \/ ~(Cardinality(found) > 1) /\ absent /\ done = added
      \/ ~(Cardinality(found) > 1) /\ ~absent /\ found # {}
         /\ done = [rows |-> modified, verdict |-> "modify"]
  <2> DEFINE gone == [R EXCEPT ![i].status = "deleted"]
  <2>1. \/ Cardinality(found) > 1 /\ done = [rows |-> R, verdict |-> "crash"]
        \/ /\ ~(Cardinality(found) > 1)
           /\ found = {} /\ m.now.data = "gone" /\ reassigned /\ done = InsertDeleted(R, m)
        \/ /\ ~(Cardinality(found) > 1)
           /\ absent /\ m.now.data = "gone" /\ done = [rows |-> R, verdict |-> "noop"]
        \/ /\ ~(Cardinality(found) > 1)
           /\ ~absent /\ found # {} /\ m.now.data = "gone"
           /\ done = [rows |-> gone, verdict |-> "delete"]
        \/ /\ ~(Cardinality(found) > 1)
           /\ absent /\ m.now.data = "member" /\ info.v4 = None /\ info.v6 = None
           /\ done = [rows |-> R, verdict |-> "noop"]
        \/ /\ ~(Cardinality(found) > 1)
           /\ absent /\ m.now.data = "member" /\ ~(info.v4 = None /\ info.v6 = None)
           /\ done = AddNetixlan(R, info)
        \/ /\ ~(Cardinality(found) > 1)
           /\ ~absent /\ found # {} /\ m.now.data = "member"
           /\ done = [rows |-> modified, verdict |-> "modify"]
    BY ApplyOneShape
  <2> HIDE DEF found, i, info, absent, done, gone, modified
  <2>2. QED BY <1>4, <2>1 DEF added
<1>6. absent <=> found = {} \/ ~Active(R[i])
  OBVIOUS
<1>7. found # {} =>
        /\ DOMAIN modified = DOMAIN R /\ i \in DOMAIN R
        /\ Active(R[i]) => Active(modified[i])
        /\ KeyOf(modified[i]) = m.key /\ modified[i].oper = m.now.oper
        /\ \A j \in DOMAIN R : j # i => modified[j] = R[j]
  <2>1. found # {} => R[i] \in Netixlan /\ i \in DOMAIN R /\ KeyOf(R[i]) = m.key
    BY <1>2, <1>3, RowType
  <2> HIDE DEF found, i
  <2>2. QED BY <2>1 DEF Active, Netixlan, KeyOf
<1> HIDE DEF found, i, absent, modified, info
<1>8. ~(Cardinality(found) > 1) => \A j \in found : j = i
  BY <1>2, <1>3, OnlyMember
<1>9. Result(R)
  BY DEF Undisturbed
<1>10. ASSUME ~(Cardinality(found) > 1), absent
       PROVE  Result(added.rows)
  <2>1. Undisturbed(R, added.rows, info)
    BY <1>4, AddNetixlanAdds
  <2>2. NoneActive(R, m.key)
    BY <1>2, <1>3, <1>6, <1>8, <1>10 DEF NoneActive
  <2> HIDE DEF added
  <2>3. KeyOf(m.key) = m.key
    BY <1>1, KeyOfKey
  <2>4. Undisturbed(R, added.rows, m.key)
    BY <1>4, <2>1, <2>3 DEF Undisturbed, Apart
  <2>5. QED BY <2>2, <2>3, <2>4 DEF Undisturbed, NoneActive
<1>16. ASSUME added.verdict = "invalid", Separate(R) PROVE Refused(added.rows, m.key)
  <2>1. Refused(added.rows, info)
    BY <1>4, <1>16, AddRefused
  <2> HIDE DEF added
  <2>2. QED BY <1>4, <2>1 DEF Refused, Barred, Apart
<1>11. ASSUME added.verdict = "invalid" PROVE Blocked(R, m.key)
  <2>1. Outside(info.v4) \/ Outside(info.v6)
        \/ \E j \in DOMAIN R : /\ ~R[j].here /\ ~Apart(R[j], info)
                               /\ Active(R[j]) \/ R[j].asn = info.asn
    BY <1>4, <1>11, AddInvalid
  <2>2. QED BY <1>4, <2>1 DEF Blocked, Apart
<1>12. ~Stopped(added) => JoinedIn(added.rows, m.key, m.now.oper)
  <2>1. /\ added.verdict \in {"add", "invalid"}
        /\ added.verdict = "add" => \E j \in DOMAIN added.rows : added.rows[j] = info
    BY <1>4, AddNetixlanAdds
  <2> HIDE DEF added
  <2>2. QED BY <1>4, <2>1 DEF Stopped, JoinedIn
<1>13. ASSUME ~absent, found # {}
       PROVE  Result(modified) /\ JoinedIn(modified, m.key, m.now.oper)
  <2>1. Active(R[i])
    BY <1>6, <1>13
  <2>2. R[i] = R[i] /\ KeyOf(R[i]) = m.key /\ i \in DOMAIN R
    BY <1>2, <1>3, <1>13
  <2>3. KeyOf(m.key) = m.key
    BY <1>1, KeyOfKey
  <2>4. ~Apart(R[i], m.key)
    BY <2>2 DEF Apart, KeyOf
  <2>5. Undisturbed(R, modified, m.key)
    BY <1>7, <1>13, <2>1, <2>2, <2>3, <2>4 DEF Undisturbed
  <2>6. QED BY <1>7, <1>13, <2>1, <2>2, <2>5 DEF JoinedIn
<1> HIDE DEF added, Result
<1>14. /\ Result(done.rows)
       /\ done.verdict = "invalid" => Bars(R, done.rows, m.key)
       /\ ~Stopped(done) => JoinedIn(done.rows, m.key, m.now.oper)
  <2> HIDE DEF done
  <2>1. CASE done = [rows |-> R, verdict |-> "crash"]
    BY <1>9, <2>1 DEF Stopped
  <2>2. CASE ~(Cardinality(found) > 1) /\ absent /\ done = added
    BY <1>10, <1>11, <1>12, <1>16, <2>2 DEF Bars
  <2>3. CASE ~(Cardinality(found) > 1) /\ ~absent /\ found # {}
             /\ done = [rows |-> modified, verdict |-> "modify"]
    BY <1>13, <2>3
  <2>4. QED BY <1>5, <2>1, <2>2, <2>3
<1>15. QED BY <1>14 DEF Result, done

(* They are applied until one is refused or none is left.                  *)
LEMMA ApplyEnds ==
    ASSUME NEW R \in Table, NEW P, ProposalTable(P), NEW m \in Instance, NEW reassigned
    PROVE  LET done == Apply(R, P, m, reassigned) IN Stopped(done) \/ done.left = {}
<1> DEFINE L == Cardinality(Applied(P, m))
           T == [rows : Table, verdict : Verdicts, left : SUBSET Applied(P, m)]
           start == [rows |-> R, verdict |-> "noop", left |-> Applied(P, m)]
<1>1. Applied(P, m) \subseteq DOMAIN P \cup {m.key}
  BY DependentsThere DEF Applied
<1>2. start \in T
  BY DEF Verdicts
<1>3. \A s \in T : ApplyNext(P, m, reassigned, s) \in T
  BY <1>1, ApplyNextType
<1>4. PICK f : /\ f[0] = start
               /\ \A n \in 1..L : f[n] = ApplyNext(P, m, reassigned, f[n - 1])
               /\ Apply(R, P, m, reassigned) = f[L]
               /\ L \in Nat /\ IsFiniteSet(Applied(P, m))
  <2> HIDE DEF T
  <2>1. QED BY <1>2, <1>3, ApplySteps
<1> HIDE DEF L
<1> DEFINE Good(n) == f[n] \in T /\ (Stopped(f[n]) \/ Cardinality(f[n].left) = L - n)
           N == {n \in Nat : n <= L => Good(n)}
<1>5. 0 \in N
  <2>1. start.left = Applied(P, m)
    OBVIOUS
  <2> HIDE DEF T, start
  <2>2. Good(0)
    BY <1>2, <1>4, <2>1 DEF L
  <2>3. QED BY <2>2
<1>6. ASSUME NEW n \in N PROVE n + 1 \in N
  <2>1. SUFFICES ASSUME n + 1 <= L PROVE Good(n + 1)
    BY <1>6
  <2>2. Good(n) /\ n \in Nat
    BY <1>4, <1>6, <2>1
  <2> DEFINE s == f[n]
  <2>3. f[n + 1] = ApplyNext(P, m, reassigned, s)
    BY <1>4, <2>1, <2>2
  <2>4. s \in T /\ (Stopped(s) \/ Cardinality(s.left) = L - n)
    BY <2>2
  <2>5. IsFiniteSet(s.left) /\ s.left \subseteq Applied(P, m)
    BY <1>4, <2>4, FS_Subset
  <2> HIDE DEF s
  <2> DEFINE ready == {k \in s.left : \A j \in s.left \cap DOMAIN P : P[j].req # k}
             k == CHOOSE k \in ready : TRUE
             done == IF k = m.key THEN ApplyOne(s.rows, m, reassigned)
                     ELSE ApplyOne(s.rows, FromTable(P, k), FALSE)
  <2>6. ApplyNext(P, m, reassigned, s) =
          CASE Stopped(s) -> s
            [] ~Stopped(s) /\ ready = {} -> [s EXCEPT !.verdict = "crash"]
            [] ~Stopped(s) /\ ready # {} ->
                 [rows |-> done.rows, verdict |-> done.verdict, left |-> s.left \ {k}]
    BY DEF ApplyNext
  <2>7. ready # {} => k \in s.left
    OBVIOUS
  <2>8. f[n + 1] \in T
    BY <1>3, <2>3, <2>4
  <2> HIDE DEF ready, k, done
  <2>9. \/ Stopped(f[n + 1])
        \/ ~Stopped(s) /\ k \in s.left /\ f[n + 1].left = s.left \ {k}
    <3>1. [s EXCEPT !.verdict = "crash"].verdict = "crash"
      BY <2>4
    <3>2. QED BY <2>3, <2>6, <2>7, <3>1 DEF Stopped
  <2>10. k \in s.left => Cardinality(s.left \ {k}) = Cardinality(s.left) - 1
    BY <2>5, FS_RemoveElement
  <2> HIDE DEF T
  <2>11. Stopped(f[n + 1]) \/ Cardinality(f[n + 1].left) = L - (n + 1)
    <3>1. SUFFICES ASSUME ~Stopped(f[n + 1]) PROVE Cardinality(f[n + 1].left) = L - (n + 1)
      OBVIOUS
    <3>2. ~Stopped(s) /\ k \in s.left /\ f[n + 1].left = s.left \ {k}
      BY <2>9, <3>1
    <3>3. Cardinality(f[n + 1].left) = Cardinality(s.left) - 1
      BY <2>10, <3>2
    <3>4. Cardinality(s.left) = L - n /\ L \in Nat /\ n \in Nat
      BY <1>4, <2>2, <2>4, <3>2
    <3>5. QED BY <3>3, <3>4
  <2>12. QED BY <2>8, <2>11
<1>7. Good(L)
  <2> HIDE DEF Good
  <2>1. N \subseteq Nat
    OBVIOUS
  <2> HIDE DEF N
  <2>2. L \in N
    BY <1>4, <1>5, <1>6, <2>1, SetInduction
  <2>3. QED BY <1>4, <2>2 DEF N
<1>8. f[L].left \subseteq Applied(P, m) /\ IsFiniteSet(f[L].left)
  BY <1>4, <1>7, FS_Subset
<1>9. Stopped(f[L]) \/ f[L].left = {}
  <2>1. Cardinality(f[L].left) = 0 => f[L].left = {}
    BY <1>8, FS_EmptySet
  <2>2. Stopped(f[L]) \/ Cardinality(f[L].left) = 0
    BY <1>4, <1>7
  <2>3. QED BY <2>1, <2>2
<1>10. QED BY <1>4, <1>9

Applying(P, m) == [rows : Table, verdict : Verdicts, left : SUBSET Applied(P, m)]

\* The proposal k is applied: o is what applying it comes to.
Takes(s, next, o, k) ==
    next.rows = o.rows /\ next.verdict = o.verdict /\ next.left = s.left \ {k}

(* One application takes one proposal from what is left.                   *)
LEMMA ApplyNextShape ==
    ASSUME NEW P, ProposalTable(P), NEW m \in Instance, NEW reassigned,
           NEW s \in Applying(P, m)
    PROVE  LET next == ApplyNext(P, m, reassigned, s) IN
           \/ next = s
           \/ next.rows = s.rows /\ next.verdict = "crash"
           \/ Takes(s, next, ApplyOne(s.rows, m, reassigned), m.key)
           \/ \E k \in Dependents(P, {m.key}) \ {m.key} :
                 /\ k \in DOMAIN P /\ FromTable(P, k) \in Instance
                 /\ Takes(s, next, ApplyOne(s.rows, FromTable(P, k), FALSE), k)
<1> DEFINE ready == {k \in s.left : \A j \in s.left \cap DOMAIN P : P[j].req # k}
           k == CHOOSE k \in ready : TRUE
           done == IF k = m.key THEN ApplyOne(s.rows, m, reassigned)
                   ELSE ApplyOne(s.rows, FromTable(P, k), FALSE)
           next == ApplyNext(P, m, reassigned, s)
<1>1. s.left \subseteq Applied(P, m)
  BY DEF Applying
<1>2. next = CASE Stopped(s) -> s
               [] ~Stopped(s) /\ ready = {} -> [s EXCEPT !.verdict = "crash"]
               [] ~Stopped(s) /\ ready # {} ->
                    [rows |-> done.rows, verdict |-> done.verdict, left |-> s.left \ {k}]
  BY DEF ApplyNext
<1>3. ready # {} => k \in s.left
  OBVIOUS
<1>4. [s EXCEPT !.verdict = "crash"]
        = [rows |-> s.rows, verdict |-> "crash", left |-> s.left]
  BY DEF Applying
<1> HIDE DEF ready, k, next
<1>5. CASE Stopped(s)
  BY <1>2, <1>5 DEF next
<1>6. CASE ~Stopped(s) /\ ready = {}
  BY <1>2, <1>4, <1>6 DEF next
<1>7. CASE ~Stopped(s) /\ ready # {} /\ k = m.key
  <2>1. next = [rows |-> ApplyOne(s.rows, m, reassigned).rows,
                verdict |-> ApplyOne(s.rows, m, reassigned).verdict,
                left |-> s.left \ {m.key}]
    BY <1>2, <1>7
  <2>2. Takes(s, next, ApplyOne(s.rows, m, reassigned), m.key)
    BY <2>1 DEF Takes
  <2>3. QED BY <2>2 DEF next
<1>8. CASE ~Stopped(s) /\ ready # {} /\ k # m.key
  <2>1. m.saved /\ k \in Dependents(P, {m.key}) \ {m.key} /\ k \in DOMAIN P
    BY <1>1, <1>3, <1>8, DependentsThere DEF Applied
  <2>2. FromTable(P, k) \in Instance
    BY <2>1, FromTableType
  <2>3. next = [rows |-> ApplyOne(s.rows, FromTable(P, k), FALSE).rows,
                verdict |-> ApplyOne(s.rows, FromTable(P, k), FALSE).verdict,
                left |-> s.left \ {k}]
    BY <1>2, <1>8
  <2>4. Takes(s, next, ApplyOne(s.rows, FromTable(P, k), FALSE), k)
    BY <2>3 DEF Takes
  <2>5. QED BY <2>1, <2>2, <2>4 DEF next
<1>9. QED BY <1>5, <1>6, <1>7, <1>8

\* A state from which to apply, or what an application made of one.
LEMMA ApplyingType ==
    ASSUME NEW P, ProposalTable(P), NEW m \in Instance, NEW reassigned
    PROVE  /\ \A R \in Table :
                [rows |-> R, verdict |-> "noop", left |-> Applied(P, m)] \in Applying(P, m)
           /\ \A s \in Applying(P, m) : /\ ApplyNext(P, m, reassigned, s) \in Applying(P, m)
                                        /\ s.rows \in Table
<1>1. Applied(P, m) \subseteq DOMAIN P \cup {m.key}
  BY DependentsThere DEF Applied
<1>2. \A s \in Applying(P, m) : ApplyNext(P, m, reassigned, s) \in Applying(P, m)
  BY <1>1, ApplyNextType DEF Applying
<1>3. QED BY <1>2 DEF Applying, Verdicts

(* Whatever is applied, the addresses keep what is true of them.           *)
LEMMA ApplyKept ==
    ASSUME NEW R \in Table, NEW P, ProposalTable(P), NEW m \in Instance, NEW reassigned,
           m.now.data = "gone" /\ reassigned => ~Outside(m.key.v4) /\ ~Outside(m.key.v6)
    PROVE  Kept(R, Apply(R, P, m, reassigned).rows)
<1> DEFINE X == {s \in Applying(P, m) : Kept(R, s.rows)}
<1>1. [rows |-> R, verdict |-> "noop", left |-> Applied(P, m)] \in X
  BY ApplyingType, KeptSame
<1>2. ASSUME NEW s \in X PROVE ApplyNext(P, m, reassigned, s) \in X
  <2> DEFINE next == ApplyNext(P, m, reassigned, s)
  <2>1. s \in Applying(P, m) /\ Kept(R, s.rows) /\ s.rows \in Table
    BY ApplyingType
  <2>2. \/ next = s
        \/ next.rows = s.rows /\ next.verdict = "crash"
        \/ Takes(s, next, ApplyOne(s.rows, m, reassigned), m.key)
        \/ \E k \in Dependents(P, {m.key}) \ {m.key} :
              /\ k \in DOMAIN P /\ FromTable(P, k) \in Instance
              /\ Takes(s, next, ApplyOne(s.rows, FromTable(P, k), FALSE), k)
    BY <2>1, ApplyNextShape
  <2>3. Kept(s.rows, ApplyOne(s.rows, m, reassigned).rows)
    BY <2>1, ApplyOneKept
  <2>4. ASSUME NEW k \in DOMAIN P, FromTable(P, k) \in Instance
        PROVE  Kept(s.rows, ApplyOne(s.rows, FromTable(P, k), FALSE).rows)
    BY <2>1, <2>4, ApplyOneKept
  <2> HIDE DEF X, next
  <2>5. Kept(s.rows, next.rows)
    <3>1. CASE next.rows = s.rows
      BY <3>1, KeptSame
    <3>2. CASE next.rows = ApplyOne(s.rows, m, reassigned).rows
      BY <2>3, <3>2
    <3>3. CASE \E k \in DOMAIN P : /\ FromTable(P, k) \in Instance
                                   /\ next.rows = ApplyOne(s.rows, FromTable(P, k), FALSE).rows
      BY <2>4, <3>3
    <3>4. QED BY <2>2, <3>1, <3>2, <3>3 DEF Takes
  <2>6. next \in Applying(P, m)
    BY <2>1, ApplyingType DEF next
  <2>7. QED BY <2>1, <2>5, <2>6, KeptThen DEF X, next
<1> HIDE DEF X
<1>3. Apply(R, P, m, reassigned) \in X
  BY <1>1, <1>2, ApplyStays
<1>4. QED BY <1>3 DEF X

(* A deletion, and requirements that are deletions: in the end nothing     *)
(* else is active than before, and nothing with that identity.             *)
Lesser(R, S) == \A j \in DOMAIN S : Active(S[j]) => j \in DOMAIN R /\ S[j] = R[j]

LEMMA ApplyGone ==
    ASSUME DualStacked, NEW R \in Table, NEW P, ProposalTable(P), NEW m \in Instance,
           NEW reassigned, m.now.data = "gone",
           \A k \in Dependents(P, {m.key}) \ {m.key} : P[k].data = "gone"
    PROVE  LET done == Apply(R, P, m, reassigned) IN
           /\ Lesser(R, done.rows)
           /\ ~Stopped(done) => NoneActive(done.rows, m.key)
<1> DEFINE X == {s \in Applying(P, m) :
                   /\ Lesser(R, s.rows)
                   /\ Stopped(s) \/ m.key \in s.left \/ NoneActive(s.rows, m.key)}
           done == Apply(R, P, m, reassigned)
<1>1. [rows |-> R, verdict |-> "noop", left |-> Applied(P, m)] \in X
  BY ApplyingType DEF Lesser, Applied
<1>2. ASSUME NEW s \in X PROVE ApplyNext(P, m, reassigned, s) \in X
  <2> DEFINE next == ApplyNext(P, m, reassigned, s)
  <2>1. /\ s \in Applying(P, m) /\ s.rows \in Table /\ Lesser(R, s.rows)
        /\ Stopped(s) \/ m.key \in s.left \/ NoneActive(s.rows, m.key)
    BY ApplyingType
  <2> HIDE DEF X
  <2>2. \/ next = s
        \/ next.rows = s.rows /\ next.verdict = "crash"
        \/ Takes(s, next, ApplyOne(s.rows, m, reassigned), m.key)
        \/ \E k \in Dependents(P, {m.key}) \ {m.key} :
              /\ k \in DOMAIN P /\ FromTable(P, k) \in Instance
              /\ Takes(s, next, ApplyOne(s.rows, FromTable(P, k), FALSE), k)
    BY <2>1, ApplyNextShape
  <2>3. next \in Applying(P, m)
    BY <2>1, ApplyingType
  <2>4. CASE next = s
    BY <2>4
  <2>5. CASE next.rows = s.rows /\ next.verdict = "crash"
    BY <2>1, <2>3, <2>5 DEF X, Stopped
  <2>6. CASE Takes(s, next, ApplyOne(s.rows, m, reassigned), m.key)
    <3> DEFINE one == ApplyOne(s.rows, m, reassigned)
    <3>1. /\ Fewer(s.rows, one.rows, m.key)
          /\ ~Stopped(one) => NoneActive(one.rows, m.key)
      BY <2>1, ApplyOneGone
    <3> HIDE DEF one
    <3>2. next.rows = one.rows /\ next.verdict = one.verdict
      BY <2>6 DEF one, Takes
    <3>3. Lesser(R, next.rows) /\ (Stopped(next) \/ NoneActive(next.rows, m.key))
      BY <2>1, <3>1, <3>2 DEF Lesser, Fewer, Stopped
    <3>4. QED BY <2>3, <3>3 DEF X
  <2>7. ASSUME NEW k \in Dependents(P, {m.key}) \ {m.key}, k \in DOMAIN P,
               FromTable(P, k) \in Instance,
               Takes(s, next, ApplyOne(s.rows, FromTable(P, k), FALSE), k)
        PROVE  next \in X
    <3> DEFINE n == FromTable(P, k)
               one == ApplyOne(s.rows, n, FALSE)
    <3>2. n.key = k /\ n.now.data = "gone" /\ n \in Instance
      BY <2>7 DEF FromTable
    <3> HIDE DEF n
    <3>3. Fewer(s.rows, one.rows, k)
      BY <2>1, <3>2, ApplyOneGone
    <3> HIDE DEF one
    <3>4. next.rows = one.rows /\ next.left = s.left \ {k}
      BY <2>7 DEF one, n, Takes
    <3>5. Lesser(R, next.rows)
      BY <2>1, <3>3, <3>4 DEF Lesser, Fewer
    <3>6. NoneActive(s.rows, m.key) => NoneActive(next.rows, m.key)
      BY <3>3, <3>4 DEF NoneActive, Fewer
    <3>7. m.key \in s.left => m.key \in next.left
      BY <3>4
    <3>8. Stopped(s) => Stopped(next)
      BY DEF ApplyNext
    <3>9. QED BY <2>1, <2>3, <3>5, <3>6, <3>7, <3>8 DEF X
  <2>8. QED BY <2>2, <2>4, <2>5, <2>6, <2>7
<1> HIDE DEF X
<1>3. done \in X
  BY <1>1, <1>2, ApplyStays
<1>4. Stopped(done) \/ done.left = {}
  BY ApplyEnds
<1> HIDE DEF done
<1>5. QED BY <1>3, <1>4 DEF X, done

(* What the entries of the list have on the LAN survives what is applied   *)
(* for another entry, and for what is not on the list.                     *)
(* A network that allows updates has on the LAN what the run has seen; ... *)
OnIds(R) ==
    \A i \in DOMAIN R : Present(R[i]) /\ net[R[i].asn].allow
       => KeyOf(R[i]) \in run.ids

(* ... as has any other, of what the list gives to others; ...             *)
GivenOn(R) ==
    \A i \in DOMAIN R : Active(R[i]) /\ R[i].here /\ GivenBy(run.feed, R[i])
       => KeyOf(R[i]) \in run.ids

Confined(R) == Separate(R) /\ OnIds(R) /\ GivenOn(R)

(* ... no two identities of a set share an address; ...                    *)
Disjoint(K) == \A k, l \in K : k # l => Apart(l, k)

(* ... and a step for an identity keeps the connections of the others.     *)
Sustained(R, S, key) ==
    /\ OnIds(R) => OnIds(S)
    /\ \A k \in run.ids \ {key}, oper \in Operational :
          JoinedIn(R, k, oper) => JoinedIn(S, k, oper)
    /\ Confined(R) => Confined(S)
    /\ Stay(R, S, key)

LEMMA SustainedSame == \A R, key : Sustained(R, R, key)
  BY StaySame DEF Sustained

LEMMA SustainedThen ==
    ASSUME NEW R, NEW S, NEW T, NEW key, Sustained(R, S, key), Sustained(S, T, key)
    PROVE  Sustained(R, T, key)
<1>1. Stay(R, T, key)
  BY StayThen DEF Sustained
<1>2. QED BY <1>1 DEF Sustained

LEMMA KeyApart == ASSUME NEW r, NEW k PROVE Apart(KeyOf(r), k) <=> Apart(r, k)
  BY DEF KeyOf, Apart

(* What an entry has an address of is given away.                          *)
LEMMA OnListGives ==
    ASSUME NEW k, OnList(k), NEW r, r.asn # k.asn, ~Apart(r, k)
    PROVE  GivenBy(run.feed, r)
<1>1. PICK e \in run.feed : KeyOf(e) = k
  BY DEF OnList
<1>2. k.asn = e.asn /\ k.v4 = e.v4 /\ k.v6 = e.v6
  BY <1>1 DEF KeyOf
<1>3. QED BY <1>2 DEF GivenBy, Apart

LEMMA SeparateKept ==
    ASSUME NEW R, NEW S, Away(R, S), Separate(R)
    PROVE  Separate(S)
  BY ImportAssumption DEF Away, Separate

LEMMA MemberSustained ==
    ASSUME Disjoint(run.ids), NEW key \in run.ids, key \in Key, NEW R, NEW S,
           Undisturbed(R, S, key),
           \A j \in DOMAIN S : Active(S[j]) /\ KeyOf(S[j]) # key
              => j \in DOMAIN R /\ (S[j] = R[j] \/ KeyOf(R[j]) # key),
           Away(R, S), Stay(R, S, key), net[key.asn].allow, OnList(key)
    PROVE  Sustained(R, S, key)
<1>1. KeyOf(key) = key
  BY KeyOfKey
<1>2. ASSUME OnIds(R), NEW j \in DOMAIN S, Present(S[j]), net[S[j].asn].allow
      PROVE  KeyOf(S[j]) \in run.ids
  <2>1. CASE KeyOf(S[j]) = key
    BY <2>1
  <2>2. CASE KeyOf(S[j]) # key
    <3>1. /\ j \in DOMAIN R /\ Active(R[j])
          /\ S[j].asn = R[j].asn /\ S[j].here = R[j].here
          /\ S[j] = R[j] \/ ~Apart(R[j], key)
          /\ S[j] = R[j] \/ KeyOf(R[j]) # key
      BY <1>1, <1>2, <2>2 DEF Undisturbed, Present
    <3>2. KeyOf(R[j]) \in run.ids
      BY <1>2, <3>1 DEF OnIds, Present, Apart
    <3>3. KeyOf(R[j]) # key => Apart(R[j], key)
      BY <3>2, KeyApart DEF Disjoint
    <3>4. QED BY <3>1, <3>2, <3>3
  <2>3. QED BY <2>1, <2>2
<1>3. ASSUME NEW k \in run.ids \ {key}, NEW oper \in Operational, JoinedIn(R, k, oper)
      PROVE  JoinedIn(S, k, oper)
  <2>1. PICK j \in DOMAIN R : Active(R[j]) /\ KeyOf(R[j]) = k /\ R[j].oper = oper
    BY <1>3 DEF JoinedIn
  <2>2. Apart(R[j], key)
    BY <2>1, KeyApart DEF Disjoint
  <2>3. QED BY <2>1, <2>2 DEF Undisturbed, JoinedIn
<1>4. ASSUME Confined(R), NEW j \in DOMAIN S, Active(S[j]), S[j].here,
             GivenBy(run.feed, S[j])
      PROVE  KeyOf(S[j]) \in run.ids
  <2>1. CASE KeyOf(S[j]) = key
    BY <2>1
  <2>2. CASE KeyOf(S[j]) # key
    <3>1. /\ j \in DOMAIN R /\ Active(R[j]) /\ R[j].here
          /\ S[j] = R[j] \/ ~Apart(R[j], key)
          /\ S[j] = R[j] \/ KeyOf(R[j]) # key
      BY <1>1, <1>4, <2>2 DEF Undisturbed
    <3>2. CASE S[j] = R[j]
      BY <1>4, <3>1, <3>2 DEF Confined, GivenOn
    <3>3. CASE S[j] # R[j]
      <4>1. KeyOf(R[j]) \in run.ids
        <5>1. CASE R[j].asn = key.asn
          BY <1>4, <3>1, <3>3, <5>1 DEF Confined, OnIds, Present, Apart
        <5>2. CASE R[j].asn # key.asn
          <6>1. GivenBy(run.feed, R[j])
            BY <3>1, <3>3, <5>2, OnListGives
          <6>2. QED BY <1>4, <3>1, <6>1 DEF Confined, GivenOn
        <5>3. QED BY <5>1, <5>2
      <4>2. QED BY <3>1, <3>3, <4>1, KeyApart DEF Disjoint
    <3>4. QED BY <3>2, <3>3
  <2>3. QED BY <2>1, <2>2
<1>5. Separate(R) => Separate(S)
  BY SeparateKept
<1>6. Confined(R) => Confined(S)
  BY <1>2, <1>4, <1>5 DEF Confined, OnIds, GivenOn
<1>7. QED BY <1>2, <1>3, <1>6 DEF Sustained, OnIds

LEMMA GoneSustained ==
    ASSUME NEW k, k \notin run.ids, NEW key, NEW R, NEW S, Fewer(R, S, k), Stay(R, S, key)
    PROVE  /\ Sustained(R, S, key)
           /\ \A l \in run.ids : \A oper : JoinedIn(R, l, oper) => JoinedIn(S, l, oper)
<1>1. Confined(R) => Confined(S)
  BY DEF Fewer, Confined, Separate, OnIds, Present, GivenOn
<1>2. QED BY <1>1 DEF Fewer, Sustained, OnIds, Present, JoinedIn

\* What a row of another LAN blocks, it blocked before.
LEMMA BlockedBefore ==
    ASSUME NEW R, NEW S, Away(R, S), NEW k, Blocked(S, k)
    PROVE  Blocked(R, k)
  BY DEF Away, Blocked, Apart

(* Applying member data with its requirements leaves the connection, or is *)
(* refused, and sustains the connections of other identities.              *)
LEMMA ApplyMember ==
    ASSUME DualStacked, Disjoint(run.ids), NEW R \in Table, Unshared(R), OnLan(R),
           NEW P, ProposalTable(P), NEW m \in Instance, m.now.data = "member",
           m.key.v4 # None \/ m.key.v6 # None, m.key \in run.ids,
           net[m.key.asn].allow, OnList(m.key),
           \A k \in Dependents(P, {m.key}) \ {m.key} : P[k].data = "gone" /\ k \notin run.ids
    PROVE  LET done == Apply(R, P, m, FALSE) IN
           /\ Sustained(R, done.rows, m.key)
           /\ done.verdict = "invalid" => Bars(R, done.rows, m.key)
           /\ ~Stopped(done) => JoinedIn(done.rows, m.key, m.now.oper)
<1> DEFINE Good(s) == /\ Kept(R, s.rows) /\ Sustained(R, s.rows, m.key)
                      /\ s.verdict = "invalid" => Bars(R, s.rows, m.key)
                      /\ \/ Stopped(s) \/ m.key \in s.left
                         \/ JoinedIn(s.rows, m.key, m.now.oper)
           X == {s \in Applying(P, m) : Good(s)}
           start == [rows |-> R, verdict |-> "noop", left |-> Applied(P, m)]
           done == Apply(R, P, m, FALSE)
<1>1. start \in X
  <2>1. start \in Applying(P, m) /\ m.key \in start.left
    BY ApplyingType DEF Applied
  <2>2. Good(start)
    BY <2>1, KeptSame, SustainedSame
  <2>3. QED BY <2>1, <2>2
<1>2. ASSUME NEW s \in X PROVE ApplyNext(P, m, FALSE, s) \in X
  <2> DEFINE next == ApplyNext(P, m, FALSE, s)
  <2>1. s \in Applying(P, m) /\ s.rows \in Table /\ Good(s)
    BY ApplyingType
  <2> HIDE DEF X
  <2>2. \/ next = s
        \/ next.rows = s.rows /\ next.verdict = "crash"
        \/ Takes(s, next, ApplyOne(s.rows, m, FALSE), m.key)
        \/ \E k \in Dependents(P, {m.key}) \ {m.key} :
              /\ k \in DOMAIN P /\ FromTable(P, k) \in Instance
              /\ Takes(s, next, ApplyOne(s.rows, FromTable(P, k), FALSE), k)
    BY <2>1, ApplyNextShape
  <2>3. next \in Applying(P, m)
    BY <2>1, ApplyingType
  <2>4. SUFFICES Good(next)
    BY <2>3 DEF X
  <2>5. Stopped(s) => Stopped(next)
    BY DEF ApplyNext
  <2> HIDE DEF next
  <2>6. CASE next = s
    BY <2>1, <2>6
  <2>7. CASE next.rows = s.rows /\ next.verdict = "crash"
    BY <2>1, <2>7 DEF Stopped
  <2>8. CASE Takes(s, next, ApplyOne(s.rows, m, FALSE), m.key)
    <3> DEFINE one == ApplyOne(s.rows, m, FALSE)
    <3>1. Unshared(s.rows) /\ Away(R, s.rows)
      BY <2>1 DEF Kept
    <3>2. /\ Undisturbed(s.rows, one.rows, m.key)
          /\ \A j \in DOMAIN one.rows :
                Active(one.rows[j]) /\ KeyOf(one.rows[j]) # m.key
                   => j \in DOMAIN s.rows /\ (one.rows[j] = s.rows[j] \/ KeyOf(s.rows[j]) # m.key)
          /\ one.verdict = "invalid" => Bars(s.rows, one.rows, m.key)
          /\ ~Stopped(one) => JoinedIn(one.rows, m.key, m.now.oper)
      BY <2>1, <3>1, ApplyOneMember
    <3>3. Kept(s.rows, one.rows)
      BY <2>1, ApplyOneKept
    <3>10. Stay(s.rows, one.rows, m.key)
      BY <2>1, ApplyOneStay
    <3>4. next.rows = one.rows /\ next.verdict = one.verdict
      BY <2>8 DEF Takes
    <3> HIDE DEF one
    <3>5. Sustained(s.rows, one.rows, m.key)
      BY <3>2, <3>3, <3>10, MemberSustained DEF Instance, Kept
    <3>6. Kept(R, next.rows) /\ Sustained(R, next.rows, m.key)
      BY <2>1, <3>3, <3>4, <3>5, KeptThen, SustainedThen
    <3>7. next.verdict = "invalid" => Bars(R, next.rows, m.key)
      BY <3>1, <3>2, <3>4, BlockedBefore, SeparateKept DEF Bars
    <3>8. Stopped(next) \/ JoinedIn(next.rows, m.key, m.now.oper)
      BY <3>2, <3>4 DEF Stopped
    <3>9. QED BY <3>6, <3>7, <3>8
  <2>9. ASSUME NEW k \in Dependents(P, {m.key}) \ {m.key}, k \in DOMAIN P,
               FromTable(P, k) \in Instance,
               Takes(s, next, ApplyOne(s.rows, FromTable(P, k), FALSE), k)
        PROVE  Good(next)
    <3> DEFINE n == FromTable(P, k)
               one == ApplyOne(s.rows, n, FALSE)
    <3>1. n.key = k /\ n.now.data = "gone" /\ n \in Instance
      BY <2>9 DEF FromTable
    <3>2. next.rows = one.rows /\ next.verdict = one.verdict /\ next.left = s.left \ {k}
      BY <2>9 DEF Takes
    <3> HIDE DEF n
    <3>3. Fewer(s.rows, one.rows, k) /\ one.verdict # "invalid"
      BY <2>1, <3>1, ApplyOneGone
    <3>4. Kept(s.rows, one.rows) /\ Stay(s.rows, one.rows, m.key)
      BY <2>1, <3>1, ApplyOneKept, ApplyOneStay
    <3> HIDE DEF one
    <3>5. /\ Sustained(s.rows, one.rows, m.key)
          /\ JoinedIn(s.rows, m.key, m.now.oper) => JoinedIn(one.rows, m.key, m.now.oper)
      BY <3>3, <3>4, GoneSustained
    <3>6. Kept(R, next.rows) /\ Sustained(R, next.rows, m.key)
      BY <2>1, <3>2, <3>4, <3>5, KeptThen, SustainedThen
    <3>7. QED BY <2>1, <2>5, <3>2, <3>3, <3>5, <3>6
  <2>10. QED BY <2>2, <2>6, <2>7, <2>8, <2>9
<1> HIDE DEF X, start
<1>3. done \in X
  BY <1>1, <1>2, ApplyStays DEF start
<1>4. Stopped(done) \/ done.left = {}
  BY ApplyEnds
<1> HIDE DEF done
<1>5. QED BY <1>3, <1>4 DEF X, done

-----------------------------------------------------------------------------
(* What a round of process_saves does.                                     *)
InSync(R, m) ==
    LET found == Matching(R, m.key, FALSE) IN
    (\E i \in found : Active(R[i])) /\ \A i \in found : R[i].oper = m.now.oper

Proposed(R, P, m, deletions) ==
    Consolidate(SetAdd(R, P, m).rows, SetAdd(R, P, m).props, m, deletions)

Becomes(done, R, Q) == done.rows = R /\ done.props = Q

(* A round fails on a duplicate, drops what is in sync, proposes where     *)
(* updates are not allowed, or applies the object and drops it or records  *)
(* its error.                                                              *)
SaveCase(R, P, m, deletions, done, applied) ==
    \/ done.verdict = "crash" /\ Becomes(done, R, P)
    \/ InSync(R, m) /\ Becomes(done, R, Resolve(P, m))
    \/ ~net[m.key.asn].allow /\ Becomes(done, R, SetUpdate(P, m))
    \/ ~net[m.key.asn].allow
       /\ Becomes(done, SetAdd(R, P, m).rows, Proposed(R, P, m, deletions))
    \/ /\ net[m.key.asn].allow
       /\ done.rows = applied.rows /\ done.verdict = applied.verdict
       /\ \/ applied.verdict = "invalid" /\ done.props = SetConflict(P, m)
          \/ applied.verdict # "invalid" /\ done.props \in {P, Resolve(P, m)}

LEMMA SaveCases ==
    ASSUME NEW R, NEW P, NEW m, NEW deletions
    PROVE  SaveCase(R, P, m, deletions, Save(R, P, m, deletions), Apply(R, P, m, FALSE))
<1> DEFINE found == Matching(R, m.key, FALSE)
           exists == \E i \in found : Active(R[i])
           listed == exists /\ \A i \in found : R[i].oper = m.now.oper
           applied == Apply(R, P, m, FALSE)
           allow == net[m.key.asn].allow
           added == SetAdd(R, P, m)
           with == Consolidate(added.rows, added.props, m, deletions)
           settled == [rows |-> applied.rows, verdict |-> applied.verdict,
                       props |-> CASE applied.verdict = "invalid" -> SetConflict(P, m)
                                   [] applied.verdict = "noop" /\ ~exists -> Resolve(P, m)
                                   [] OTHER -> P]
           done == Save(R, P, m, deletions)
<1>1. added = [rows |-> added.rows, verdict |-> added.verdict, props |-> added.props]
  BY DEF SetAdd
<1>2. done =
        IF Cardinality(found) > 1 THEN [rows |-> R, props |-> P, verdict |-> "crash"] ELSE
        CASE listed -> [rows |-> R, props |-> Resolve(P, m), verdict |-> "noop"]
          [] exists /\ ~listed /\ ~allow ->
               [rows |-> R, props |-> SetUpdate(P, m), verdict |-> "noop"]
          [] ~exists /\ ~allow -> [added EXCEPT !.props = with]
          [] OTHER -> settled
  BY DEF Save
<1>3. /\ settled.rows = applied.rows /\ settled.verdict = applied.verdict
      /\ applied.verdict = "invalid" => settled.props = SetConflict(P, m)
      /\ applied.verdict # "invalid" => settled.props \in {P, Resolve(P, m)}
  <2> HIDE DEF applied, exists
  <2>1. QED OBVIOUS
<1>4. listed => exists
  OBVIOUS
<1> HIDE DEF added, with, found, exists, listed, applied, allow, settled, done
<1>5. /\ [added EXCEPT !.props = with].rows = added.rows
      /\ [added EXCEPT !.props = with].props = with
  BY <1>1
<1>6. \/ done = [rows |-> R, props |-> P, verdict |-> "crash"]
      \/ listed /\ done = [rows |-> R, props |-> Resolve(P, m), verdict |-> "noop"]
      \/ ~allow /\ done = [rows |-> R, props |-> SetUpdate(P, m), verdict |-> "noop"]
      \/ ~allow /\ done = [added EXCEPT !.props = with]
      \/ allow /\ done = settled
  BY <1>2, <1>4
<1>7. listed => InSync(R, m)
  BY DEF InSync, listed, exists, found
<1>8. with = Proposed(R, P, m, deletions)
  BY DEF with, Proposed, added
<1>9. \/ done.verdict = "crash" /\ Becomes(done, R, P)
      \/ listed /\ Becomes(done, R, Resolve(P, m))
      \/ ~allow /\ Becomes(done, R, SetUpdate(P, m))
      \/ ~allow /\ Becomes(done, added.rows, with)
      \/ /\ allow
         /\ done.rows = applied.rows /\ done.verdict = applied.verdict
         /\ \/ applied.verdict = "invalid" /\ done.props = SetConflict(P, m)
            \/ applied.verdict # "invalid" /\ done.props \in {P, Resolve(P, m)}
  <2>1. CASE done = [rows |-> R, props |-> P, verdict |-> "crash"]
    BY <2>1 DEF Becomes
  <2>2. CASE listed /\ done = [rows |-> R, props |-> Resolve(P, m), verdict |-> "noop"]
    BY <2>2 DEF Becomes
  <2>3. CASE ~allow /\ done = [rows |-> R, props |-> SetUpdate(P, m), verdict |-> "noop"]
    BY <2>3 DEF Becomes
  <2>4. CASE ~allow /\ done = [added EXCEPT !.props = with]
    BY <1>5, <2>4 DEF Becomes
  <2>5. CASE allow /\ done = settled
    BY <1>3, <2>5
  <2>6. QED BY <1>6, <2>1, <2>2, <2>3, <2>4, <2>5
<1>10. SaveCase(R, P, m, deletions, done, applied)
  BY <1>7, <1>8, <1>9 DEF SaveCase, allow, added
<1>11. QED BY <1>10 DEF done, applied

(* A proposal without a requirement of its own is dropped for itself only. *)
LEMMA NotDependent ==
    ASSUME NEW P, ProposalTable(P), NEW K, NEW k \in DOMAIN P \ K, P[k].req = None
    PROVE  k \notin Dependents(P, K)
<1> DEFINE C == DOMAIN P \ {k}
<1>1. C \in SUBSET DOMAIN P /\ K \cap DOMAIN P \subseteq C
  OBVIOUS
<1>2. None \notin C
  BY KeyAssumption DEF ProposalTable
<1>3. Closed(P, C)
  BY <1>2 DEF Closed
<1> HIDE DEF C
<1>4. k \in Dependents(P, K) => k \in C
  BY <1>1, <1>3 DEF Dependents
<1>5. QED BY <1>4 DEF C

(* So deleting, storing and consolidating leaves those of others.          *)
LEMMA WithoutOthers ==
    ASSUME NEW P, ProposalTable(P), NEW K, NEW k \in DOMAIN P \ K, P[k].req = None
    PROVE  k \in DOMAIN Without(P, K) /\ Without(P, K)[k] = P[k]
  BY NotDependent DEF Without, Restrict

LEMMA StoreOthers ==
    ASSUME NEW P, NEW m, NEW k \in DOMAIN P, k # m.key
    PROVE  k \in DOMAIN Store(P, m) /\ Store(P, m)[k] = P[k]
  BY DEF Store

LEMMA ConsolidateOthers ==
    ASSUME NEW R, NEW P, NEW m \in Instance, NEW deletions, NEW k \in DOMAIN P,
           k.asn # m.key.asn
    PROVE  LET Q == Consolidate(R, P, m, deletions) IN k \in DOMAIN Q /\ Q[k] = P[k]
<1> DEFINE touching == {d \in deletions :
                          /\ d.key.asn = m.key.asn
                          /\ \/ d.key.v4 # None /\ d.key.v4 = m.i4
                             \/ d.key.v6 # None /\ d.key.v6 = m.i6}
           required == {d \in touching :
                          /\ ~(d.key \in DOMAIN P /\ P[d.key].req = m.key)
                          /\ Matching(R, d.key, TRUE) \cap Matching(R, m.key, FALSE) = {}}
           keys == {d.key : d \in required}
           with == [l \in DOMAIN P \cup keys |->
                      IF l \in keys
                        THEN [(CHOOSE d \in required : d.key = l).now
                                EXCEPT !.req = m.key]
                        ELSE P[l]]
           n == [m EXCEPT !.now.error = FALSE]
<1>1. Consolidate(R, P, m, deletions) = IF required = {} THEN P ELSE Store(with, n)
  BY DEF Consolidate
<1>2. k \notin keys
  OBVIOUS
<1> HIDE DEF required, keys
<1>3. k \in DOMAIN with /\ with[k] = P[k]
  BY <1>2
<1>4. n.key = m.key
  BY DEF Instance
<1> HIDE DEF with, n
<1>5. k \in DOMAIN Store(with, n) /\ Store(with, n)[k] = P[k]
  BY <1>3, <1>4, StoreOthers
<1>6. QED BY <1>1, <1>5

(* What a round leaves of the other proposals, whose owner updates them.   *)
LEMMA SaveOthers ==
    ASSUME NEW R, NEW P, ProposalTable(P), NEW m \in Instance, NEW deletions,
           NEW k \in DOMAIN P, k # m.key, P[k].req = None,
           k.asn = m.key.asn => net[m.key.asn].allow
    PROVE  LET Q == Save(R, P, m, deletions).props IN k \in DOMAIN Q /\ Q[k] = P[k]
<1> DEFINE Same2(Q) == k \in DOMAIN Q /\ Q[k] = P[k]
           added == SetAdd(R, P, m)
           with == Consolidate(added.rows, added.props, m, deletions)
           done == Save(R, P, m, deletions)
<1>1. Same2(P) /\ Same2(Store(P, m))
  BY StoreOthers
<1>2. ASSUME NEW e \in BOOLEAN PROVE Same2(Store(P, [m EXCEPT !.now.error = e]))
  <2>1. [m EXCEPT !.now.error = e].key = m.key
    BY DEF Instance
  <2>2. QED BY <2>1, StoreOthers
<1>3. Same2(Resolve(P, m))
  BY <1>1, WithoutOthers DEF Resolve
<1>4. Same2(SetUpdate(P, m)) /\ Same2(SetConflict(P, m))
  BY <1>1, <1>2 DEF SetUpdate, SetConflict
<1>5. Same2(added.props)
  <2> DEFINE freed == IF Matching(R, m.key, FALSE) = {}
                         /\ ~(Outside(m.key.v4) \/ Outside(m.key.v6)) THEN FreeGhosts(R, m) ELSE R
             invalid == /\ Matching(R, m.key, FALSE) = {}
                        /\ Outside(m.key.v4) \/ Outside(m.key.v6) \/ Collides(freed, 0, m.key)
  <2>1. invalid \in BOOLEAN
    OBVIOUS
  <2>2. added.props = IF ~m.saved THEN Store(P, [m EXCEPT !.now.error = invalid])
                      ELSE IF Differs(m) THEN Store(P, m) ELSE P
    BY DEF SetAdd
  <2> HIDE DEF added, invalid, Same2
  <2>3. QED BY <1>1, <1>2, <2>1, <2>2
<1>6. ~net[m.key.asn].allow => Same2(with)
  <2> HIDE DEF added
  <2>1. QED BY <1>5, ConsolidateOthers
<1>7. \/ done.props \in {P, Resolve(P, m), SetUpdate(P, m), SetConflict(P, m)}
      \/ ~net[m.key.asn].allow /\ done.props = with
  <2>1. with = Proposed(R, P, m, deletions)
    BY DEF Proposed
  <2> HIDE DEF with, added, done
  <2>2. SaveCase(R, P, m, deletions, done, Apply(R, P, m, FALSE))
    BY SaveCases DEF done
  <2>3. QED BY <2>1, <2>2 DEF SaveCase, Becomes
<1> HIDE DEF done, Same2, with
<1>8. Same2(done.props)
  BY <1>1, <1>3, <1>4, <1>6, <1>7
<1>9. QED BY <1>8 DEF Same2, done

\* If the network of m allows updates, no deletion becomes a requirement.
LEMMA SaveAllowed ==
    ASSUME NEW R, NEW P, NEW m \in Instance, NEW deletions, net[m.key.asn].allow
    PROVE  Written(P, m, {}, Save(R, P, m, deletions).props)
<1>1. /\ Written(P, m, {}, P) /\ Written(P, m, {}, Store(P, m))
      /\ \A e \in BOOLEAN : Written(P, m, {}, Store(P, [m EXCEPT !.now.error = e]))
  BY StoreWritten
<1>2. /\ Written(P, m, {}, Resolve(P, m)) /\ Written(P, m, {}, SetConflict(P, m))
  BY <1>1, WithoutWritten DEF Resolve, SetConflict
<1>3. Save(R, P, m, deletions).props \in {P, Resolve(P, m), SetConflict(P, m)}
  <2>1. SaveCase(R, P, m, deletions, Save(R, P, m, deletions), Apply(R, P, m, FALSE))
    BY SaveCases
  <2>2. QED BY <2>1 DEF SaveCase, Becomes
<1>4. QED BY <1>1, <1>2, <1>3

(* What freeing ghosts does to each row.                                   *)
LEMMA FreedRow ==
    ASSUME NEW R \in Table, NEW m, NEW j \in DOMAIN R
    PROVE  LET s == FreeGhosts(R, m)[j] IN
           /\ DOMAIN FreeGhosts(R, m) = DOMAIN R
           /\ s.here = R[j].here /\ s.asn = R[j].asn
           /\ s.v4 \in {R[j].v4, None} /\ s.v6 \in {R[j].v6, None}
           /\ Active(s) => Active(R[j])
           /\ ~Active(R[j]) \/ R[j].asn = m.key.asn \/ Apart(R[j], m.key) => s = R[j]
           /\ s.v4 = R[j].v4 \/ R[j].v4 = m.key.v4
           /\ s.v6 = R[j].v6 \/ R[j].v6 = m.key.v6
<1> DEFINE r == R[j]
           ghost == Active(r) /\ r.asn # m.key.asn
           v4 == IF ghost /\ r.v4 = m.key.v4 THEN None ELSE r.v4
           v6 == IF ghost /\ r.v6 = m.key.v6 THEN None ELSE r.v6
           status == IF <<v4, v6>> # <<r.v4, r.v6>> /\ v4 = None /\ v6 = None
                       THEN "deleted" ELSE r.status
           s == FreeGhosts(R, m)[j]
<1>1. s = [r EXCEPT !.v4 = v4, !.v6 = v6, !.status = status] /\ DOMAIN FreeGhosts(R, m) = DOMAIN R
  BY DEF FreeGhosts
<1>2. r \in Netixlan
  BY RowType
<1>3. /\ v4 \in {r.v4, None} /\ v6 \in {r.v6, None} /\ status \in {"deleted", r.status}
      /\ (v4 = r.v4 \/ r.v4 = m.key.v4) /\ (v6 = r.v6 \/ r.v6 = m.key.v6)
  OBVIOUS
<1>4. ~Active(r) \/ r.asn = m.key.asn \/ Apart(r, m.key)
        => v4 = r.v4 /\ v6 = r.v6 /\ status = r.status
  <2>1. ~Active(r) \/ r.asn = m.key.asn \/ Apart(r, m.key) => v4 = r.v4 /\ v6 = r.v6
    BY DEF Apart
  <2>2. v4 = r.v4 /\ v6 = r.v6 => status = r.status
    OBVIOUS
  <2>3. QED BY <2>1, <2>2
<1> HIDE DEF r, v4, v6, status, s
<1>5. /\ s.here = r.here /\ s.asn = r.asn /\ s.v4 = v4 /\ s.v6 = v6 /\ s.status = status
      /\ v4 = r.v4 /\ v6 = r.v6 /\ status = r.status => s = r
  BY <1>1, <1>2 DEF Netixlan
<1>6. QED BY <1>1, <1>3, <1>4, <1>5 DEF r, s, Active

LEMMA FreeGhostsTrimmed ==
    ASSUME NEW R \in Table, NEW m
    PROVE  Trimmed(R, FreeGhosts(R, m))
<1>1. DOMAIN FreeGhosts(R, m) = DOMAIN R
  BY DEF FreeGhosts
<1>2. QED BY <1>1, FreedRow DEF Trimmed

LEMMA FreeGhostsSustained ==
    ASSUME Disjoint(run.ids), NEW R \in Table, NEW m \in Instance, m.key \in run.ids,
           OnList(m.key)
    PROVE  Sustained(R, FreeGhosts(R, m), m.key)
<1> DEFINE S == FreeGhosts(R, m)
<1>1. DOMAIN S = DOMAIN R
  BY DEF FreeGhosts
<1>2. ASSUME NEW j \in DOMAIN R
      PROVE  /\ S[j].here = R[j].here /\ S[j].asn = R[j].asn
             /\ Active(S[j]) => Active(R[j])
             /\ R[j].asn = m.key.asn \/ Apart(R[j], m.key) => S[j] = R[j]
             /\ S[j].v4 \in {R[j].v4, None} /\ S[j].v6 \in {R[j].v6, None}
             /\ S[j].v4 = R[j].v4 \/ R[j].v4 = m.key.v4
             /\ S[j].v6 = R[j].v6 \/ R[j].v6 = m.key.v6
  BY FreedRow
<1> HIDE DEF S
<1>3. ASSUME NEW j \in DOMAIN R, KeyOf(R[j]) \in run.ids
      PROVE  S[j] = R[j]
  <2>1. CASE KeyOf(R[j]) = m.key
    <3>1. R[j].asn = m.key.asn
      BY <2>1 DEF KeyOf, Instance, Key
    <3>2. QED BY <1>2, <3>1
  <2>2. CASE KeyOf(R[j]) # m.key
    <3>1. Apart(R[j], m.key)
      BY <1>3, <2>2, KeyApart DEF Disjoint
    <3>2. QED BY <1>2, <3>1
  <2>3. QED BY <2>1, <2>2
<1>4. OnIds(R) => OnIds(S)
  <2>1. ASSUME OnIds(R), NEW j \in DOMAIN S, Present(S[j]), net[S[j].asn].allow
        PROVE  KeyOf(S[j]) \in run.ids
    <3>1. KeyOf(R[j]) \in run.ids /\ j \in DOMAIN R
      BY <1>1, <1>2, <2>1 DEF OnIds, Present
    <3>2. QED BY <1>3, <3>1
  <2>2. QED BY <2>1 DEF OnIds
<1>5. \A k \in run.ids \ {m.key}, oper \in Operational :
         JoinedIn(R, k, oper) => JoinedIn(S, k, oper)
  BY <1>1, <1>3 DEF JoinedIn
<1>6. Stay(R, S, m.key)
  BY <1>1, <1>2 DEF Stay
<1>7. ASSUME Confined(R), NEW j \in DOMAIN S, Active(S[j]), S[j].here,
             GivenBy(run.feed, S[j])
      PROVE  KeyOf(S[j]) \in run.ids
  <2>1. S[j] = R[j]
    <3>1. SUFFICES ASSUME R[j].asn # m.key.asn, ~Apart(R[j], m.key) PROVE S[j] = R[j]
      BY <1>1, <1>2, <1>7
    <3>2. GivenBy(run.feed, R[j])
      BY <3>1, OnListGives
    <3>3. KeyOf(R[j]) \in run.ids
      BY <1>1, <1>2, <1>7, <3>2 DEF Confined, GivenOn
    <3>4. QED BY <1>1, <1>3, <1>7, <3>3
  <2>2. QED BY <1>1, <1>7, <2>1 DEF Confined, GivenOn
<1>8. Confined(R) => Confined(S)
  <2>1. Away(R, S)
    BY FreeGhostsTrimmed, TrimmedKept DEF Kept, S
  <2>2. Separate(R) => Separate(S)
    BY <2>1, SeparateKept
  <2>3. QED BY <1>4, <1>7, <2>2 DEF Confined, GivenOn
<1>9. QED BY <1>4, <1>5, <1>6, <1>8 DEF Sustained, S

LEMMA SetAddRows ==
    ASSUME NEW R, NEW P, NEW m
    PROVE  \/ SetAdd(R, P, m).rows = R
           \/ /\ SetAdd(R, P, m).rows = FreeGhosts(R, m)
              /\ ~Outside(m.key.v4) /\ ~Outside(m.key.v6)
  BY DEF SetAdd

(* Whatever a round of process_saves does, the addresses keep what is true *)
(* of them ...                                                             *)
LEMMA SaveKept ==
    ASSUME NEW R \in Table, NEW P, ProposalTable(P), NEW m \in Instance,
           m.now.data = "member", NEW deletions
    PROVE  Kept(R, Save(R, P, m, deletions).rows)
<1>1. Kept(R, R) /\ Kept(R, FreeGhosts(R, m))
  BY KeptSame, FreeGhostsTrimmed, TrimmedKept
<1>2. Kept(R, Apply(R, P, m, FALSE).rows)
  BY ApplyKept
<1>3. SaveCase(R, P, m, deletions, Save(R, P, m, deletions), Apply(R, P, m, FALSE))
  BY SaveCases
<1>4. QED BY <1>1, <1>2, <1>3, SetAddRows DEF SaveCase, Becomes

(* What saving m has done, its network willing.                            *)
Saved(R, P, m, done) ==
    /\ Sustained(R, done.rows, m.key)
    /\ net[m.key.asn].allow /\ done.verdict # "crash" =>
          \/ JoinedIn(done.rows, m.key, m.now.oper)
          \/ Bars(R, done.rows, m.key) /\ done.props = SetConflict(P, m)

(* ... and the connections of other identities are sustained.              *)
LEMMA SaveSustained ==
    ASSUME DualStacked, Disjoint(run.ids), NEW R \in Table, Unshared(R), OnLan(R),
           NEW P, ProposalTable(P), NEW m \in Instance, m.now.data = "member",
           m.key.v4 # None \/ m.key.v6 # None, m.key \in run.ids, OnList(m.key), NEW deletions,
           net[m.key.asn].allow => \A k \in Dependents(P, {m.key}) \ {m.key} :
                                      P[k].data = "gone" /\ k \notin run.ids
    PROVE  Saved(R, P, m, Save(R, P, m, deletions))
<1> DEFINE done == Save(R, P, m, deletions)
           applied == Apply(R, P, m, FALSE)
<1>1. SaveCase(R, P, m, deletions, done, applied)
  BY SaveCases
<1>2. net[m.key.asn].allow =>
         /\ Sustained(R, applied.rows, m.key)
         /\ applied.verdict = "invalid" => Bars(R, applied.rows, m.key)
         /\ ~Stopped(applied) => JoinedIn(applied.rows, m.key, m.now.oper)
  BY ApplyMember
<1>3. Sustained(R, R, m.key) /\ Sustained(R, SetAdd(R, P, m).rows, m.key)
  BY SustainedSame, FreeGhostsSustained, SetAddRows
<1>4. InSync(R, m) => JoinedIn(R, m.key, m.now.oper)
  <2>1. m.key \in Key
    BY DEF Instance
  <2>2. QED BY <2>1, MatchingDual DEF InSync, JoinedIn
<1> HIDE DEF done, applied
<1>5. Sustained(R, done.rows, m.key)
  BY <1>1, <1>2, <1>3 DEF SaveCase, Becomes
<1>6. ASSUME net[m.key.asn].allow, done.verdict # "crash"
      PROVE  \/ JoinedIn(done.rows, m.key, m.now.oper)
             \/ Bars(R, done.rows, m.key) /\ done.props = SetConflict(P, m)
  BY <1>1, <1>2, <1>4, <1>6 DEF SaveCase, Becomes, Stopped
<1>7. QED BY <1>5, <1>6 DEF Saved, done

(* Networks with both protocols have one proposal for an identity.         *)
LEMMA CandidatesDual ==
    ASSUME DualStacked, NEW P, ProposalTable(P), NEW k \in Key
    PROVE  Candidates(P, k) = DOMAIN P \cap {k}
<1>1. ASSUME NEW j \in Candidates(P, k) PROVE j = k
  <2>1. j \in Key /\ Same(k, j, FALSE)
    BY <1>1 DEF Candidates, ProposalTable
  <2>2. QED BY <2>1, SameIsEqual, KeyOfKey
<1>2. Same(k, k, FALSE)
  BY DEF Same
<1>3. QED BY <1>1, <1>2 DEF Candidates

LEMMA DedupedDual ==
    ASSUME DualStacked, NEW P, ProposalTable(P), NEW k \in Key
    PROVE  Deduped(P, k) = P
<1>1. Candidates(P, k) \subseteq {k}
  BY CandidatesDual
<1>2. Cardinality(Candidates(P, k)) <= 1 /\ Cardinality(Candidates(P, k)) \in Nat
  <2>1. IsFiniteSet({k}) /\ Cardinality({k}) = 1
    BY FS_Singleton
  <2>2. QED BY <1>1, <2>1, FS_Subset, FS_CardinalityType
<1>3. QED BY <1>2 DEF Deduped

(* The object that instantiate returns for a network with both protocols.  *)
Made(m, P, k, data, oper) ==
    /\ m \in Instance /\ m.key = k /\ m.i4 = k.v4 /\ m.i6 = k.v6
    /\ m.saved <=> k \in DOMAIN P
    /\ IF m.saved THEN m.was = P[k] ELSE ~m.was.error /\ m.was.req = None
    /\ m.now = [m.was EXCEPT !.data = data, !.oper = oper]
    /\ m.now.data = data /\ m.now.oper = oper /\ m.now.req = m.was.req
    /\ m.now.error = m.was.error

LEMMA InstantiateFields ==
    ASSUME DualStacked, NEW P, ProposalTable(P), NEW k \in Key,
           NEW data \in {"member", "gone"}, NEW oper \in Operational
    PROVE  Made(Instantiate(P, k, data, oper), P, k, data, oper)
<1> DEFINE m == Instantiate(P, k, data, oper)
<1>1. m \in Instance
  BY InstantiateType
<1>2. CASE k \in DOMAIN P
  <2>1. Candidates(P, k) = {k}
    BY <1>2, CandidatesDual
  <2>2. m = [key |-> k, i4 |-> k.v4, i6 |-> k.v6, saved |-> TRUE,
             now |-> [P[k] EXCEPT !.data = data, !.oper = oper], was |-> P[k]]
    BY <2>1 DEF Instantiate
  <2>3. P[k] \in Proposal
    BY <1>2 DEF ProposalTable
  <2> DEFINE p == [P[k] EXCEPT !.data = data, !.oper = oper]
  <2>4. p.data = data /\ p.oper = oper /\ p.req = P[k].req /\ p.error = P[k].error
    BY <2>3 DEF Proposal
  <2> HIDE DEF m, p
  <2>5. /\ m.key = k /\ m.i4 = k.v4 /\ m.i6 = k.v6 /\ m.saved /\ m.now = p /\ m.was = P[k]
    BY <2>2 DEF p
  <2>6. m.now = [m.was EXCEPT !.data = data, !.oper = oper]
    BY <2>5 DEF p
  <2>7. Made(m, P, k, data, oper)
    BY <1>1, <1>2, <2>4, <2>5, <2>6 DEF Made
  <2>8. QED BY <2>7 DEF m
<1>3. CASE k \notin DOMAIN P
  <2> DEFINE new == [data |-> data, oper |-> oper, req |-> None, error |-> FALSE]
             key == [asn |-> k.asn,
                     v4 |-> IF net[k.asn].p4 \/ data = "gone" THEN k.v4 ELSE None,
                     v6 |-> IF net[k.asn].p6 \/ data = "gone" THEN k.v6 ELSE None]
  <2>1. Candidates(P, k) = {}
    BY <1>3, CandidatesDual
  <2>2. m = [key |-> key, i4 |-> k.v4, i6 |-> k.v6, saved |-> FALSE, now |-> new, was |-> new]
    BY <2>1 DEF Instantiate
  <2>3. key = k
    BY DEF DualStacked, Key
  <2>4. /\ new.data = data /\ new.oper = oper /\ new.req = None /\ ~new.error
        /\ [new EXCEPT !.data = data, !.oper = oper] = new
    <3>1. new.data = data /\ new.oper = oper /\ new.req = None /\ ~new.error
      OBVIOUS
    <3>2. DOMAIN new = {"data", "oper", "req", "error"} /\ new = [x \in DOMAIN new |-> new[x]]
      OBVIOUS
    <3> HIDE DEF new
    <3>3. [new EXCEPT !.data = data, !.oper = oper] = new
      BY <3>1, <3>2
    <3>4. QED BY <3>1, <3>3
  <2> HIDE DEF new, key, m
  <2>5. /\ m.key = k /\ m.i4 = k.v4 /\ m.i6 = k.v6 /\ ~m.saved /\ m.now = new /\ m.was = new
    BY <2>2, <2>3
  <2>6. m.now = [m.was EXCEPT !.data = data, !.oper = oper]
    BY <2>4, <2>5
  <2>7. Made(m, P, k, data, oper)
    BY <1>1, <1>3, <2>4, <2>5, <2>6 DEF Made
  <2>8. QED BY <2>7 DEF m
<1>4. QED BY <1>2, <1>3

(* The same, for deletions, one fact after the other. *)
LEMMA InstantiateGone ==
    ASSUME DualStacked, NEW P, ProposalTable(P), NEW k \in Key, NEW oper \in Operational
    PROVE  /\ Instantiate(P, k, "gone", oper) \in Instance
           /\ Instantiate(P, k, "gone", oper).key = k
           /\ Instantiate(P, k, "gone", oper).now.data = "gone"
           /\ Instantiate(P, k, "gone", oper).now.req # None =>
                /\ k \in DOMAIN P
                /\ Instantiate(P, k, "gone", oper).now.req = P[k].req
<1> DEFINE m == Instantiate(P, k, "gone", oper)
<1>1. Made(m, P, k, "gone", oper)
  BY InstantiateFields
<1> HIDE DEF m
<1>2. /\ m.now.req # None => k \in DOMAIN P
      /\ m.now.req # None => m.now.req = P[k].req
  BY <1>1 DEF Made
<1>3. QED BY <1>1, <1>2 DEF Made, m

(* What a round of process_deletions does.                                 *)
LEMMA DeleteRows ==
    ASSUME DualStacked, NEW R \in Table, NEW P, ProposalTable(P), NEW r \in Netixlan,
           NEW reassigned \in BOOLEAN, ~Outside(r.v4), ~Outside(r.v6)
    PROVE  LET done == Delete(R, P, r, reassigned) IN
           /\ done.m.key = KeyOf(r)
           /\ Kept(R, done.after.rows)
           /\ (\A k \in DOMAIN P : P[k].req # None => P[k].data = "gone") =>
                /\ Lesser(R, done.after.rows)
                /\ (reassigned \/ net[r.asn].allow) /\ ~Stopped(done.after)
                     => NoneActive(done.after.rows, KeyOf(r))
<1> DEFINE key == KeyOf(r)
           m == Instantiate(P, key, "gone", r.oper)
           applied == Apply(R, P, m, reassigned)
           done == Delete(R, P, r, reassigned)
<1>1. key \in Key /\ r.oper \in Operational /\ key.v4 = r.v4 /\ key.v6 = r.v6
  BY KeyOfType DEF Netixlan, KeyOf
<1> HIDE DEF key
<1>2. Deduped(P, key) = P
  BY <1>1, DedupedDual
<1>3. m \in Instance /\ m.key = key /\ m.now.data = "gone"
  BY <1>1, InstantiateGone
<1>4. /\ done.m = m
      /\ done.after = IF reassigned \/ net[r.asn].allow
                        THEN [rows |-> applied.rows, props |-> P, verdict |-> applied.verdict]
                        ELSE [rows |-> R, props |-> SetRemove(R, P, m), verdict |-> "noop"]
  BY <1>2 DEF Delete, key
<1> HIDE DEF m, applied, done
<1>5. Kept(R, applied.rows) /\ Kept(R, R)
  BY <1>1, <1>3, ApplyKept, KeptSame DEF applied
<1>6. ASSUME \A k \in DOMAIN P : P[k].req # None => P[k].data = "gone"
      PROVE  /\ Lesser(R, applied.rows)
             /\ ~Stopped(applied) => NoneActive(applied.rows, key)
  <2>1. ASSUME NEW k \in Dependents(P, {key}) \ {key} PROVE P[k].data = "gone"
    <3>1. k \in DOMAIN P /\ (P[k].req = None => k \notin Dependents(P, {key}))
      BY DependentsThere, NotDependent
    <3>2. QED BY <1>6, <2>1, <3>1
  <2>2. QED BY <1>3, <2>1, ApplyGone DEF applied
<1>7. Lesser(R, R)
  BY DEF Lesser
<1>8. CASE reassigned \/ net[r.asn].allow
  <2>1. done.after.rows = applied.rows /\ (Stopped(done.after) <=> Stopped(applied))
    BY <1>4, <1>8 DEF Stopped
  <2>2. QED BY <1>3, <1>4, <1>5, <1>6, <2>1 DEF done, key
<1>9. CASE ~(reassigned \/ net[r.asn].allow)
  <2>1. done.after.rows = R
    BY <1>4, <1>9
  <2>2. QED BY <1>3, <1>4, <1>5, <1>7, <1>9, <2>1 DEF done, key
<1>10. QED BY <1>8, <1>9

(* A round of process_deletions stores the proposal of the row at most, for*)
(* a network that does not allow updates, and drops none of the others.    *)
OwnerWrites(P, Q, r) ==
    /\ \A k \in DOMAIN Q :
         \/ k \in DOMAIN P /\ Q[k] = P[k]
         \/ /\ k = KeyOf(r) /\ ~net[r.asn].allow
            /\ Q[k].req # None => k \in DOMAIN P /\ Q[k].req = P[k].req
    /\ \A k \in DOMAIN P : net[k.asn].allow => k \in DOMAIN Q /\ Q[k] = P[k]

LEMMA DeleteProps ==
    ASSUME DualStacked, NEW R, NEW P, ProposalTable(P), NEW r \in Netixlan,
           NEW reassigned \in BOOLEAN
    PROVE  OwnerWrites(P, Delete(R, P, r, reassigned).after.props, r)
<1> DEFINE key == KeyOf(r)
           m == Instantiate(P, key, "gone", r.oper)
           Q == Delete(R, P, r, reassigned).after.props
<1>1. key \in Key /\ r.oper \in Operational /\ key.asn = r.asn
  BY KeyOfType DEF Netixlan, KeyOf
<1> HIDE DEF key
<1>2. Deduped(P, key) = P
  BY <1>1, DedupedDual
<1>3. /\ m.key = key
      /\ m.now.req # None => key \in DOMAIN P /\ m.now.req = P[key].req
  BY <1>1, InstantiateGone
<1>4. Q = P \/ (~net[r.asn].allow /\ Q \in {P, Store(P, m)})
  BY <1>2 DEF Delete, SetRemove, key
<1> HIDE DEF m, Q
<1>5. /\ DOMAIN Store(P, m) = DOMAIN P \cup {key} /\ Store(P, m)[key] = m.now
      /\ \A k \in DOMAIN P \ {key} : Store(P, m)[k] = P[k]
  BY <1>3 DEF Store
<1>6. CASE Q = P
  BY <1>6 DEF OwnerWrites, Q
<1>7. CASE ~net[r.asn].allow /\ Q = Store(P, m)
  BY <1>1, <1>3, <1>5, <1>7 DEF OwnerWrites, Q, key
<1>8. QED BY <1>4, <1>6, <1>7

-----------------------------------------------------------------------------
(* The parts of ConvergeInv, of any tables and what is left of the run.    *)
FreshIn(m, ids) ==
    /\ m.key \in ids
    /\ m.i4 = m.key.v4 /\ m.i6 = m.key.v6
    /\ m.saved <=> m.key \in DOMAIN run.before.props
    /\ IF m.saved THEN m.was = run.before.props[m.key] ELSE ~m.was.error /\ m.was.req = None
    /\ m.now = [m.was EXCEPT !.data = "member", !.oper = m.now.oper]
    /\ \E e \in run.feed : KeyOf(e) = m.key /\ e.oper = m.now.oper

Distinct(pending) == \A i, j \in DOMAIN pending : i # j => pending[i].key # pending[j].key

UnsavedIn(pending, e) == \E i \in DOMAIN pending : pending[i].key = KeyOf(e)

Seen(phase, todo, ids, pending) ==
    \A e \in run.feed : e.v4 \in Prefix \/ e.v6 \in Prefix =>
       \/ phase = "parse" /\ e \in todo
       \/ KeyOf(e) \in ids /\ (phase = "parse" => UnsavedIn(pending, e))

RecordedIn(P, e) ==
    /\ KeyOf(e) \in DOMAIN P
    /\ P[KeyOf(e)] = [data |-> "member", oper |-> e.oper, req |-> None, error |-> TRUE]

SettledIn(R, P, e) ==
    JoinedIn(R, KeyOf(e), e.oper) \/ (~Unblocked(e) /\ (RecordedIn(P, e) \/ Shadowed(e)))

(* The rows that may be active on the LAN, ...                             *)
OnIdsOr(R, ids, todo) ==
    \A i \in DOMAIN R : Present(R[i]) /\ net[R[i].asn].allow
       => KeyOf(R[i]) \in ids \/ i \in todo

(* ... that nothing is written while connections are deleted, ...          *)
Fewest(R) ==
    \A i \in DOMAIN R : Active(R[i]) => i \in DOMAIN run.before.rows /\ R[i] = run.before.rows[i]

(* ... and that those are what the run found whose networks allow updates. *)
AsFound(P, m) ==
    net[m.key.asn].allow =>
       /\ ~m.saved => m.key \notin DOMAIN P
       /\ m.saved /\ m.was.req = None => m.key \in DOMAIN P /\ P[m.key] = m.was

ConvergingIn(R, P, todo, ids, pending) ==
    /\ OnIdsOr(R, ids, todo)
    /\ todo # {} => Fewest(R)
    /\ Untouched(P)
    /\ \A i \in DOMAIN pending : AsFound(P, pending[i])
    /\ \A e \in run.feed : Wanted(e) =>
          UnsavedIn(pending, e) \/ (todo = {} /\ SettledIn(R, P, e))

(* What holds at the end.                                                  *)
Converged(R, P, ids) ==
    /\ OnIdsOr(R, ids, {})
    /\ \A e \in run.feed : Wanted(e) => SettledIn(R, P, e)

(* ConvergeInv in terms of its parts.                                      *)
LEMMA ConvergeInRun ==
    ASSUME ConvergeInv, run \notin {Idle, Failed}
    PROVE  /\ AddressInv(rows, props)
           /\ AddressInv(run.before.rows, run.before.props)
           /\ Away(run.before.rows, rows)
           /\ \A i \in DOMAIN run.pending : FreshIn(run.pending[i], run.ids)
           /\ Distinct(run.pending)
           /\ \A d \in run.deletions : Home(rows, d.key)
           /\ \A k \in run.ids : OnList(k)
           /\ Seen(run.phase, run.todo, run.ids, run.pending)
           /\ run.phase = "parse" => props = run.before.props
           /\ run.phase = "parse" => \A i \in DOMAIN run.pending :
                 \A e \in run.todo : run.pending[i].key # KeyOf(e)
           /\ run.phase = "apply" => \A i \in run.todo : run.before.rows[i].here
           /\ run.phase = "apply" /\ Plain(run.before.props) =>
                 ConvergingIn(rows, props, run.todo, run.ids, run.pending)
<1>1. \A m : Fresh(m) <=> FreshIn(m, run.ids)
  BY DEF Fresh, FreshIn
<1>2. \A e : Unsaved(e) <=> UnsavedIn(run.pending, e)
  BY DEF Unsaved, UnsavedIn
<1>3. \A e : Settled(e) <=> SettledIn(rows, props, e)
  BY DEF Settled, SettledIn, Joined, JoinedIn, Recorded, RecordedIn
<1>4. Converging => ConvergingIn(rows, props, run.todo, run.ids, run.pending)
  BY <1>2, <1>3 DEF Converging, ConvergingIn, OnIdsOr, Fewest, Untouched, AsFound
<1>5. QED BY <1>1, <1>2, <1>4 DEF ConvergeInv, Distinct, Seen

(* What a step within a run does not change.                               *)
LEMMA Carried ==
    ASSUME UNCHANGED net, run'.feed = run.feed, run'.before = run.before
    PROVE  /\ \A e : Wanted(e)' <=> Wanted(e)
           /\ \A e : Unblocked(e)' <=> Unblocked(e)
           /\ \A e : Shadowed(e)' <=> Shadowed(e)
           /\ \A k : OnList(k)' <=> OnList(k)
           /\ Plain(run.before.props)' <=> Plain(run.before.props)
  BY DEF Wanted, Unblocked, Free, Shadowed, OnList, Plain, Stale, Chained, KeyOf, Touch,
         Apart, Outside, Active

(* What is left to show of a step within a run ...                         *)
LEMMA KeepConverge ==
    ASSUME UNCHANGED net, run' \notin {Idle, Failed},
           run'.feed = run.feed, run'.before = run.before,
           AddressInv(rows', props'), AddressInv(run.before.rows, run.before.props),
           Away(run.before.rows, rows'),
           \A i \in DOMAIN run'.pending : FreshIn(run'.pending[i], run'.ids),
           Distinct(run'.pending),
           \A d \in run'.deletions : Home(rows', d.key),
           \A k \in run'.ids : OnList(k),
           Seen(run'.phase, run'.todo, run'.ids, run'.pending),
           run'.phase = "parse" => props' = run.before.props,
           run'.phase = "parse" => \A i \in DOMAIN run'.pending :
              \A e \in run'.todo : run'.pending[i].key # KeyOf(e),
           run'.phase = "apply" => \A i \in run'.todo : run.before.rows[i].here,
           run'.phase = "apply" /\ Plain(run.before.props) =>
              ConvergingIn(rows', props', run'.todo, run'.ids, run'.pending),
           run'.phase = "cleaned" /\ Plain(run.before.props) => Converged(rows', props', run'.ids)
    PROVE  ConvergeInv'
<1>1. /\ \A e : Wanted(e)' <=> Wanted(e)
      /\ \A e : Unblocked(e)' <=> Unblocked(e)
      /\ \A e : Shadowed(e)' <=> Shadowed(e)
      /\ \A k : OnList(k)' <=> OnList(k)
      /\ Plain(run.before.props)' <=> Plain(run.before.props)
  BY Carried
<1>2. /\ AddressInv(rows, props)' /\ AddressInv(run.before.rows, run.before.props)'
      /\ Away(run.before.rows, rows)'
      /\ \A d \in run'.deletions : Home(rows, d.key)'
  BY DEF AddressInv, Home, Away, Unshared, Outside, Touch, Apart, Active
<1>3. \A m : FreshIn(m, run'.ids) => Fresh(m)'
  BY DEF Fresh, FreshIn, KeyOf
<1>4. \A e : UnsavedIn(run'.pending, e) <=> Unsaved(e)'
  BY DEF UnsavedIn, Unsaved, KeyOf
<1>5. \A e : SettledIn(rows', props', e) => Settled(e)'
  BY <1>1 DEF Settled, SettledIn, Joined, JoinedIn, Recorded, RecordedIn, KeyOf, Active
<1>6. ASSUME run'.phase = "apply", Plain(run.before.props) PROVE Converging'
  <2>1. /\ OnIdsOr(rows', run'.ids, run'.todo)
        /\ run'.todo # {} => Fewest(rows')
        /\ Untouched(props')
        /\ \A i \in DOMAIN run'.pending : AsFound(props', run'.pending[i])
        /\ \A e \in run.feed : Wanted(e) =>
              UnsavedIn(run'.pending, e) \/ (run'.todo = {} /\ SettledIn(rows', props', e))
    BY <1>6 DEF ConvergingIn
  <2>2. \A i \in DOMAIN rows' : Present(rows[i])' /\ net'[rows'[i].asn].allow
          => KeyOf(rows[i])' \in run'.ids \/ i \in run'.todo
    BY <2>1 DEF OnIdsOr, Present, Active, KeyOf
  <2>3. run'.todo # {} => \A i \in DOMAIN rows' : Active(rows'[i])
          => i \in DOMAIN run'.before.rows /\ rows'[i] = run'.before.rows[i]
    BY <2>1 DEF Fewest
  <2>4. Untouched(props)'
    BY <1>1, <2>1 DEF Untouched
  <2>5. \A i \in DOMAIN run'.pending :
          net'[run'.pending[i].key.asn].allow =>
             /\ ~run'.pending[i].saved => run'.pending[i].key \notin DOMAIN props'
             /\ run'.pending[i].saved /\ run'.pending[i].was.req = None
                  => /\ run'.pending[i].key \in DOMAIN props'
                     /\ props'[run'.pending[i].key] = run'.pending[i].was
    BY <2>1 DEF AsFound
  <2>6. \A e \in run'.feed : Wanted(e)' => Unsaved(e)' \/ (run'.todo = {} /\ Settled(e)')
    BY <1>1, <1>4, <1>5, <2>1
  <2>7. QED BY <2>2, <2>3, <2>4, <2>5, <2>6 DEF Converging, Active
<1>7. ASSUME run'.phase = "cleaned", Plain(run.before.props)
      PROVE  /\ \A i \in DOMAIN rows' :
                   Present(rows[i])' /\ net'[rows'[i].asn].allow
                      => KeyOf(rows[i])' \in run'.ids
             /\ \A e \in run'.feed : Wanted(e)' => Listed(e)' \/ Shadowed(e)'
             /\ \A e \in run'.feed : Wanted(e)' /\ Unblocked(e)' =>
                   \E i \in DOMAIN rows' : Active(rows[i])' /\ Same(KeyOf(e), rows[i], FALSE)'
  <2>1. OnIdsOr(rows', run'.ids, {}) /\ \A e \in run.feed : Wanted(e) => SettledIn(rows', props', e)
    BY <1>7 DEF Converged
  <2>2. ASSUME NEW e, JoinedIn(rows', KeyOf(e), e.oper)
        PROVE  \E i \in DOMAIN rows' : /\ Active(rows[i])' /\ Same(KeyOf(e), rows[i], FALSE)'
                                       /\ rows'[i].oper = e.oper
    BY <2>2 DEF JoinedIn, Same, KeyOf, Active
  <2>3. ASSUME NEW e, RecordedIn(props', e)
        PROVE  \E k \in DOMAIN props' : Same(KeyOf(e), k, FALSE)' /\ props'[k].error
    BY <2>3 DEF RecordedIn, Same, KeyOf
  <2>4. \A e \in run.feed : Wanted(e) => Listed(e)' \/ Shadowed(e)
    BY <2>1, <2>2, <2>3 DEF SettledIn, Listed
  <2>5. \A e \in run.feed : Wanted(e) /\ Unblocked(e) =>
                   \E i \in DOMAIN rows' : Active(rows[i])' /\ Same(KeyOf(e), rows[i], FALSE)'
    BY <2>1, <2>2 DEF SettledIn
  <2>6. QED BY <1>1, <2>1, <2>4, <2>5 DEF OnIdsOr, Present, Active, KeyOf
<1>8. Converges' /\ DeletedDoNotBlock'
  BY <1>1, <1>7 DEF Converges, DeletedDoNotBlock, Cleaned
<1>9. run'.phase = "apply" /\ Plain(run.before.props)' => Converging'
  BY <1>1, <1>6
<1>10. \A i \in DOMAIN run'.pending : Fresh(run.pending[i])'
  BY <1>3
<1>11. \A e \in run'.feed : e.v4 \in Prefix \/ e.v6 \in Prefix =>
          \/ run'.phase = "parse" /\ e \in run'.todo
          \/ KeyOf(e) \in run'.ids /\ (run'.phase = "parse" => Unsaved(e)')
  BY <1>4 DEF Seen
<1>12. /\ \A k \in run'.ids : OnList(k)'
       /\ run'.phase = "parse" => props' = run'.before.props
       /\ run'.phase = "parse" => \A i \in DOMAIN run'.pending :
             \A e \in run'.todo : run'.pending[i].key # KeyOf(e)
       /\ run'.phase = "apply" => \A i \in run'.todo : run'.before.rows[i].here
       /\ \A i, j \in DOMAIN run'.pending : i # j => run'.pending[i].key # run'.pending[j].key
  BY <1>1 DEF Distinct
<1>13. QED BY <1>2, <1>8, <1>9, <1>10, <1>11, <1>12 DEF ConvergeInv, KeyOf

(* ... and of one that leaves it, or that is taken outside of it.          *)
LEMMA LeaveConverge ==
    ASSUME AddressInv(rows', props'), run' \in {Idle, Failed}
    PROVE  ConvergeInv'
<1>1. AddressInv(rows, props)'
  BY DEF AddressInv, Home, Unshared, Outside, Touch, Apart
<1>2. ~Cleaned'
  BY DEF Cleaned, Idle, Failed
<1>3. QED BY <1>1, <1>2 DEF ConvergeInv, Converges, DeletedDoNotBlock

LEMMA FailConverge ==
    ASSUME ConvergeInv, run \notin {Idle, Failed}, Fail
    PROVE  ConvergeInv'
<1>1. AddressInv(rows', props')
  BY ConvergeInRun DEF Fail
<1>2. QED BY <1>1, LeaveConverge DEF Fail

(* An object of the queue is what the run found of its identity, or new.   *)
LEMMA FreshFound ==
    ASSUME NEW m, NEW ids, FreshIn(m, ids)
    PROVE  /\ m.key \in ids
           /\ (m.saved /\ m.key \in DOMAIN run.before.props /\ m.was = run.before.props[m.key])
              \/ (~m.saved /\ m.key \notin DOMAIN run.before.props
                  /\ ~m.was.error /\ m.was.req = None)
<1>1. /\ m.key \in ids
      /\ m.saved <=> m.key \in DOMAIN run.before.props
      /\ IF m.saved THEN m.was = run.before.props[m.key] ELSE ~m.was.error /\ m.was.req = None
  BY Zenon DEF FreshIn
<1>2. QED BY <1>1

LEMMA FreshWithin ==
    ASSUME NEW m, NEW ids, FreshIn(m, ids), NEW more, ids \subseteq more
    PROVE  FreshIn(m, more)
<1>1. m.key \in more
  BY DEF FreshIn
<1>2. QED BY <1>1, Zenon DEF FreshIn

LEMMA StartConverge ==
    ASSUME TypeInv, ConvergeInv, NEW F \in Feeds, Start(F)
    PROVE  ConvergeInv'
<1>1. /\ run'.phase = "parse" /\ run'.feed = F /\ run'.ids = {} /\ run'.deletions = {}
      /\ run'.todo = {e \in F : e.v4 \in Prefix \/ e.v6 \in Prefix}
      /\ run'.pending = <<>> /\ run'.before = [rows |-> rows, props |-> props]
      /\ rows' = rows /\ props' = props
  BY DEF Start
<1>2. AddressInv(rows, props) /\ Away(rows, rows)
  BY DEF ConvergeInv, Away
<1>3. /\ AddressInv(rows, props)' /\ AddressInv(run.before.rows, run.before.props)'
      /\ Away(run.before.rows, rows)'
  BY <1>1, <1>2 DEF AddressInv, Home, Away, Unshared, Outside, Touch, Apart, Active
<1>4. ~Cleaned'
  BY <1>1 DEF Cleaned
<1>5. DOMAIN run'.pending = {}
  BY <1>1
<1>6. /\ \A i \in DOMAIN run'.pending : Fresh(run.pending[i])'
      /\ \A i, j \in DOMAIN run'.pending : i # j => run'.pending[i].key # run'.pending[j].key
      /\ \A d \in run'.deletions : Home(rows, d.key)'
      /\ \A k \in run'.ids : OnList(k)'
      /\ \A e \in run'.feed : e.v4 \in Prefix \/ e.v6 \in Prefix =>
            run'.phase = "parse" /\ e \in run'.todo
      /\ run'.phase = "parse" /\ props' = run'.before.props
      /\ \A i \in DOMAIN run'.pending : \A e \in run'.todo : run'.pending[i].key # KeyOf(e)
  BY <1>1, <1>5
<1>7. QED BY <1>3, <1>4, <1>6 DEF ConvergeInv, Converges, DeletedDoNotBlock, KeyOf

(* Two entries have no address in common, so that ...                      *)
LEMMA FeedApart ==
    ASSUME NEW F \in Feeds, NEW e \in F, NEW f \in F, e # f
    PROVE  /\ Apart(f, e) /\ KeyOf(e) # KeyOf(f)
           /\ e.v4 # None \/ e.v6 # None
<1>1. /\ e.v4 # None \/ e.v6 # None
      /\ e.v4 = None \/ e.v4 # f.v4
      /\ e.v6 = None \/ e.v6 # f.v6
  BY DEF Feeds
<1>2. QED BY <1>1 DEF Apart, KeyOf

LEMMA ParseConverge ==
    ASSUME TypeInv, AllowInv, ConvergeInv, NEW e \in run.todo, Parse(e)
    PROVE  ConvergeInv'
<1> DEFINE m == Instantiate(Deduped(props, KeyOf(e)), KeyOf(e), "member", e.oper)
<1>1. Working(run) /\ ProposalTable(props) /\ run \notin {Idle, Failed} /\ run.phase = "parse"
  BY InRun, InUse, NotIdle DEF TypeInv, Parse
<1>2. /\ run.feed \in Feeds /\ e \in run.feed /\ KeyOf(e) \in Key /\ e.asn \in Asns
      /\ e.oper \in Operational /\ (e.v4 # None \/ e.v6 # None)
  <2>1. e \in run.feed /\ e \in Entry /\ run.feed \in Feeds
    BY <1>1, FeedType DEF Working
  <2>2. e.v4 # None \/ e.v6 # None
    BY <2>1 DEF Feeds
  <2>3. QED BY <2>1, <2>2, KeyOfType DEF Entry
<1>3. /\ AddressInv(rows, props)
      /\ AddressInv(run.before.rows, run.before.props)
      /\ Away(run.before.rows, rows)
      /\ \A i \in DOMAIN run.pending : FreshIn(run.pending[i], run.ids)
      /\ Distinct(run.pending)
      /\ \A d \in run.deletions : Home(rows, d.key)
      /\ \A k \in run.ids : OnList(k)
      /\ Seen(run.phase, run.todo, run.ids, run.pending)
      /\ props = run.before.props
      /\ \A i \in DOMAIN run.pending : \A f \in run.todo : run.pending[i].key # KeyOf(f)
  BY <1>1, ConvergeInRun
<1>4. DualStacked
  BY <1>1, AllowInRun
<1>5. Deduped(props, KeyOf(e)) = props
  BY <1>1, <1>2, <1>4, DedupedDual
<1>6. Made(m, props, KeyOf(e), "member", e.oper)
  BY <1>1, <1>2, <1>4, <1>5, InstantiateFields
<1>7. IdsOf(e) = {KeyOf(e)}
  BY <1>2, <1>4 DEF IdsOf, DualStacked
<1>8. /\ run'.feed = run.feed /\ run'.before = run.before /\ run'.phase = "parse"
      /\ run'.todo = run.todo \ {e} /\ run'.ids = run.ids \cup {KeyOf(e)}
      /\ run'.pending = IF m.key.v4 = None /\ m.key.v6 = None THEN run.pending
                        ELSE Append(run.pending, m)
      /\ run'.deletions = run.deletions
      /\ props' = props /\ rows' = rows /\ UNCHANGED net
  BY <1>1, <1>5, <1>7 DEF Parse, Working
<1> HIDE DEF m
<1>9. m \in Instance /\ m.key = KeyOf(e)
  BY <1>6 DEF Made
<1>10. run'.pending = Append(run.pending, m) /\ run.pending \in Seq(Instance)
  BY <1>1, <1>2, <1>8, <1>9 DEF Working, KeyOf
<1>11. ASSUME NEW i \in DOMAIN run'.pending
       PROVE  \/ i \in DOMAIN run.pending /\ run'.pending[i] = run.pending[i]
              \/ i \notin DOMAIN run.pending /\ i = Len(run.pending) + 1 /\ run'.pending[i] = m
  BY <1>9, <1>10
<1>12. /\ \A i \in DOMAIN run.pending : i \in DOMAIN run'.pending /\ run'.pending[i] = run.pending[i]
       /\ Len(run.pending) + 1 \in DOMAIN run'.pending
       /\ run'.pending[Len(run.pending) + 1] = m
  BY <1>9, <1>10
<1>13. FreshIn(m, run'.ids)
  BY <1>2, <1>3, <1>6, <1>8 DEF FreshIn, Made, KeyOf
<1>14. ASSUME NEW i \in DOMAIN run'.pending PROVE FreshIn(run'.pending[i], run'.ids)
  <2>1. CASE run'.pending[i] = m
    BY <1>13, <2>1
  <2>2. CASE i \in DOMAIN run.pending /\ run'.pending[i] = run.pending[i]
    <3>1. FreshIn(run.pending[i], run.ids) /\ run.ids \subseteq run'.ids
      BY <1>3, <1>8, <2>2
    <3>2. QED BY <2>2, <3>1, FreshWithin
  <2>3. QED BY <1>11, <2>1, <2>2
<1>15. Distinct(run'.pending)
  <2>1. ASSUME NEW i \in DOMAIN run.pending PROVE run.pending[i].key # m.key
    BY <1>3, <1>9, <2>1
  <2>2. QED BY <1>3, <1>11, <2>1 DEF Distinct
<1>16. \A k \in run'.ids : OnList(k)
  BY <1>2, <1>3, <1>8 DEF OnList
<1>17. Seen(run'.phase, run'.todo, run'.ids, run'.pending)
  <2>1. ASSUME NEW f, UnsavedIn(run.pending, f) PROVE UnsavedIn(run'.pending, f)
    BY <1>12, <2>1 DEF UnsavedIn
  <2>2. UnsavedIn(run'.pending, e)
    BY <1>9, <1>12 DEF UnsavedIn
  <2>3. QED BY <1>1, <1>3, <1>8, <2>1, <2>2 DEF Seen
<1>18. ASSUME NEW i \in DOMAIN run'.pending, NEW f \in run'.todo
       PROVE  run'.pending[i].key # KeyOf(f)
  <2>1. f \in run.todo /\ f # e /\ f \in run.feed
    BY <1>1, <1>8 DEF Working
  <2>2. KeyOf(e) # KeyOf(f)
    BY <1>2, <2>1, FeedApart
  <2>3. QED BY <1>3, <1>9, <1>11, <2>1, <2>2
<1>19. run' \notin {Idle, Failed}
  BY <1>8 DEF Idle, Failed
<1>20. QED BY <1>3, <1>8, <1>14, <1>15, <1>16, <1>17, <1>18, <1>19, KeepConverge

LEMMA BeginDeletionsConverge ==
    ASSUME TypeInv, ConvergeInv, BeginDeletions
    PROVE  ConvergeInv'
<1>1. Working(run) /\ run \notin {Idle, Failed} /\ run.phase = "parse" /\ run.todo = {}
      /\ rows = run.before.rows
  BY InRun, NotIdle DEF TypeInv, BeginDeletions
<1>2. /\ AddressInv(rows, props)
      /\ AddressInv(run.before.rows, run.before.props)
      /\ Away(run.before.rows, rows)
      /\ \A i \in DOMAIN run.pending : FreshIn(run.pending[i], run.ids)
      /\ Distinct(run.pending)
      /\ \A d \in run.deletions : Home(rows, d.key)
      /\ \A k \in run.ids : OnList(k)
      /\ Seen(run.phase, run.todo, run.ids, run.pending)
      /\ props = run.before.props
  BY <1>1, ConvergeInRun
<1>3. /\ run'.feed = run.feed /\ run'.before = run.before /\ run'.phase = "apply"
      /\ run'.todo = {i \in DOMAIN rows : /\ Active(rows[i]) /\ rows[i].here
                                          /\ KeyOf(rows[i]) \notin run.ids}
      /\ run'.ids = run.ids /\ run'.pending = run.pending
      /\ run'.deletions = run.deletions
      /\ props' = props /\ rows' = rows /\ UNCHANGED net
  BY <1>1 DEF BeginDeletions, Working
<1>4. \A f \in run.feed : f.v4 \in Prefix \/ f.v6 \in Prefix =>
         KeyOf(f) \in run.ids /\ UnsavedIn(run.pending, f)
  BY <1>1, <1>2 DEF Seen
<1>5. Seen(run'.phase, run'.todo, run'.ids, run'.pending)
  BY <1>3, <1>4 DEF Seen
<1>6. OnIdsOr(rows', run'.ids, run'.todo) /\ Fewest(rows')
  BY <1>1, <1>3 DEF OnIdsOr, Present, Fewest
<1>7. Untouched(props') /\ \A i \in DOMAIN run'.pending : AsFound(props', run'.pending[i])
  BY <1>2, <1>3, FreshFound DEF Untouched, AsFound
<1>8. \A f \in run.feed : Wanted(f) => UnsavedIn(run'.pending, f)
  BY <1>3, <1>4 DEF Wanted
<1>9. ConvergingIn(rows', props', run'.todo, run'.ids, run'.pending)
  BY <1>6, <1>7, <1>8 DEF ConvergingIn
<1>10. run' \notin {Idle, Failed} /\ \A i \in run'.todo : run.before.rows[i].here
  BY <1>1, <1>3 DEF Idle, Failed
<1>11. QED BY <1>2, <1>3, <1>5, <1>9, <1>10, KeepConverge

(* What no row of another LAN holds, none comes to hold.                   *)
LEMMA AwayHome ==
    ASSUME NEW R, NEW S, Away(R, S), NEW k, Home(R, k)
    PROVE  Home(S, k)
  BY DEF Away, Home, Apart

LEMMA AwayThen ==
    ASSUME NEW R, NEW S, NEW T, Away(R, S), Away(S, T)
    PROVE  Away(R, T)
<1>1. ASSUME NEW i \in DOMAIN T, ~T[i].here
      PROVE  /\ i \in DOMAIN R /\ ~R[i].here /\ T[i].asn = R[i].asn
             /\ T[i].v4 \in {R[i].v4, None} /\ T[i].v6 \in {R[i].v6, None}
             /\ Active(T[i]) => Active(R[i])
  <2>1. /\ i \in DOMAIN S /\ ~S[i].here /\ T[i].asn = S[i].asn
        /\ T[i].v4 \in {S[i].v4, None} /\ T[i].v6 \in {S[i].v6, None}
        /\ Active(T[i]) => Active(S[i])
    BY <1>1 DEF Away
  <2>2. /\ i \in DOMAIN R /\ ~R[i].here /\ S[i].asn = R[i].asn
        /\ S[i].v4 \in {R[i].v4, None} /\ S[i].v6 \in {R[i].v6, None}
        /\ Active(S[i]) => Active(R[i])
    BY <2>1 DEF Away
  <2>3. QED BY <2>1, <2>2
<1>2. QED BY <1>1 DEF Away

(* Writes keep AddressInv when each requirement is one of before, or has   *)
(* its addresses where it belongs.                                         *)
LEMMA AddressKept ==
    ASSUME NEW R, NEW P, AddressInv(R, P), NEW S, Kept(R, S), NEW Q,
           \A k \in DOMAIN Q : Q[k].req # None =>
              \/ k \in DOMAIN P /\ Q[k].req = P[k].req
              \/ Touch(k, Q[k].req) /\ Home(R, k)
    PROVE  AddressInv(S, Q)
<1>1. Unshared(R) /\ OnLan(R)
  BY DEF AddressInv, OnLan
<1>2. Unshared(S) /\ OnLan(S)
  BY <1>1 DEF Kept
<1>3. \A k \in DOMAIN Q : Q[k].req # None => Touch(k, Q[k].req) /\ Home(R, k)
  BY DEF AddressInv
<1>4. QED BY <1>2, <1>3, KeptHome DEF AddressInv, OnLan

LEMMA DeleteStepConverge ==
    ASSUME TypeInv, AllowInv, ConvergeInv, NEW i \in run.todo, DeleteStep(i)
    PROVE  ConvergeInv'
<1> DEFINE r == run.before.rows[i]
           done == Delete(rows, props, r, Reassigned(r))
           S == done.after.rows
           Q == done.after.props
<1>1. /\ rows \in Table /\ ProposalTable(props) /\ Working(run)
      /\ run.phase = "apply" /\ run \notin {Idle, Failed}
  BY InUse, InRun, NotIdle DEF TypeInv, DeleteStep
<1>2. r \in Netixlan /\ i \in DOMAIN run.before.rows
  <2>1. i \in DOMAIN run.before.rows /\ run.before.rows \in Table
    BY <1>1, TablesShape DEF Working
  <2>2. QED BY <2>1, RowType
<1>3. DualStacked /\ (~Stale(run.before.props) => Inherited(props))
  BY <1>1, AllowInRun
<1>4. /\ AddressInv(rows, props)
      /\ AddressInv(run.before.rows, run.before.props)
      /\ Away(run.before.rows, rows)
      /\ \A j \in DOMAIN run.pending : FreshIn(run.pending[j], run.ids)
      /\ Distinct(run.pending)
      /\ \A d \in run.deletions : Home(rows, d.key)
      /\ \A k \in run.ids : OnList(k)
      /\ Seen(run.phase, run.todo, run.ids, run.pending)
      /\ \A j \in run.todo : run.before.rows[j].here
      /\ Plain(run.before.props) => ConvergingIn(rows, props, run.todo, run.ids, run.pending)
  BY <1>1, ConvergeInRun
<1>5. r.here /\ ~Outside(r.v4) /\ ~Outside(r.v6)
  BY <1>2, <1>4 DEF AddressInv
<1>6. Home(rows, KeyOf(r))
  <2>1. Home(run.before.rows, KeyOf(r))
    <3>1. \A j \in DOMAIN run.before.rows : run.before.rows[j].here \/ Apart(run.before.rows[j], r)
      BY <1>2, <1>4, <1>5 DEF AddressInv, Unshared, Apart
    <3>2. QED BY <1>5, <3>1 DEF Home, KeyOf, Apart
  <2>2. QED BY <1>4, <2>1, AwayHome
<1> HIDE DEF r
<1>7. Reassigned(r) \in BOOLEAN
  BY DEF Reassigned
<1>8. /\ done.m.key = KeyOf(r)
      /\ Kept(rows, S)
      /\ (\A k \in DOMAIN props : props[k].req # None => props[k].data = "gone") =>
           /\ Lesser(rows, S)
           /\ (Reassigned(r) \/ net[r.asn].allow) /\ ~Stopped(done.after)
                => NoneActive(S, KeyOf(r))
  BY <1>1, <1>2, <1>3, <1>5, <1>7, DeleteRows
<1>9. OwnerWrites(props, Q, r)
  BY <1>1, <1>2, <1>3, <1>7, DeleteProps
<1>10. /\ IF Stopped(done.after) THEN Fail
          ELSE /\ rows' = S
               /\ props' = Q
               /\ run' = [run EXCEPT !.todo = @ \ {i},
                                     !.deletions = {d \in @ : d.key # done.m.key} \cup {done.m},
                                     !.seen = @ \cup {done.m.key}]
               /\ UNCHANGED last
       /\ UNCHANGED <<net, runs, edits>>
  BY DEF DeleteStep, r
<1> HIDE DEF done, S, Q
<1>11. CASE Stopped(done.after)
  BY <1>1, <1>10, <1>11, FailConverge
<1>12. CASE ~Stopped(done.after)
  <2>1. /\ run'.feed = run.feed /\ run'.before = run.before /\ run'.phase = "apply"
        /\ run'.todo = run.todo \ {i} /\ run'.ids = run.ids /\ run'.pending = run.pending
        /\ run'.deletions = {d \in run.deletions : d.key # done.m.key} \cup {done.m}
        /\ props' = Q /\ rows' = S /\ UNCHANGED net
    BY <1>1, <1>10, <1>12 DEF Working
  <2>2. AddressInv(S, Q)
    <3>1. \A k \in DOMAIN Q : Q[k].req # None => k \in DOMAIN props /\ Q[k].req = props[k].req
      BY <1>9 DEF OwnerWrites
    <3>2. QED BY <1>4, <1>8, <3>1, AddressKept
  <2>3. Away(run.before.rows, S)
    BY <1>4, <1>8, AwayThen DEF Kept
  <2>4. \A d \in run'.deletions : Home(S, d.key)
    BY <1>4, <1>6, <1>8, <2>1, KeptHome
  <2>5. Seen(run'.phase, run'.todo, run'.ids, run'.pending)
    BY <1>1, <1>4, <2>1 DEF Seen
  <2>6. ASSUME Plain(run.before.props)
        PROVE  ConvergingIn(S, Q, run'.todo, run'.ids, run'.pending)
    <3>1. /\ OnIdsOr(rows, run.ids, run.todo) /\ Fewest(rows)
          /\ Untouched(props)
          /\ \A j \in DOMAIN run.pending : AsFound(props, run.pending[j])
          /\ \A e \in run.feed : Wanted(e) => UnsavedIn(run.pending, e)
      BY <1>4, <2>6 DEF ConvergingIn
    <3>2. /\ Lesser(rows, S)
          /\ net[r.asn].allow => NoneActive(S, KeyOf(r))
      BY <1>3, <1>8, <1>12, <2>6 DEF Plain, Inherited
    <3>3. OnIdsOr(S, run.ids, run.todo \ {i})
      <4>1. ASSUME NEW j \in DOMAIN S, Present(S[j]), net[S[j].asn].allow,
                   KeyOf(S[j]) \notin run.ids
            PROVE  j \in run.todo \ {i}
        <5>1. j \in DOMAIN rows /\ S[j] = rows[j]
          BY <3>2, <4>1 DEF Lesser, Present
        <5>2. j \in run.todo
          BY <3>1, <4>1, <5>1 DEF OnIdsOr
        <5>3. ASSUME j = i PROVE FALSE
          <6>1. S[j] = r
            BY <3>1, <4>1, <5>1, <5>3 DEF Fewest, Present, r
          <6>2. QED BY <3>2, <4>1, <6>1 DEF NoneActive, Present, KeyOf
        <5>4. QED BY <5>2, <5>3
      <4>2. QED BY <4>1 DEF OnIdsOr
    <3>4. Fewest(S)
      BY <3>1, <3>2 DEF Fewest, Lesser
    <3>5. \A k \in DOMAIN Q : net[k.asn].allow => k \in DOMAIN props /\ Q[k] = props[k]
      BY <1>9 DEF OwnerWrites, KeyOf
    <3>6. Untouched(Q) /\ \A j \in DOMAIN run.pending : AsFound(Q, run.pending[j])
      BY <1>9, <3>1, <3>5 DEF OwnerWrites, Untouched, AsFound
    <3>7. QED BY <2>1, <3>1, <3>3, <3>4, <3>6 DEF ConvergingIn
  <2>7. run' \notin {Idle, Failed} /\ \A j \in run'.todo : run.before.rows[j].here
    BY <1>4, <2>1 DEF Idle, Failed
  <2>8. QED BY <1>4, <2>1, <2>2, <2>3, <2>4, <2>5, <2>6, <2>7, KeepConverge
<1>13. QED BY <1>11, <1>12

(* Identities on the list have no address in common.                       *)
LEMMA OnListApart ==
    ASSUME run.feed \in Feeds, NEW k, OnList(k), NEW l, OnList(l), k # l
    PROVE  Apart(l, k) /\ ~Touch(k, l)
<1>1. PICK e \in run.feed : KeyOf(e) = k
  BY DEF OnList
<1>2. PICK f \in run.feed : KeyOf(f) = l
  BY DEF OnList
<1>3. Apart(f, e) /\ Apart(e, f)
  BY <1>1, <1>2, FeedApart
<1>4. k.v4 = e.v4 /\ k.v6 = e.v6 /\ l.v4 = f.v4 /\ l.v6 = f.v6
  BY <1>1, <1>2 DEF KeyOf
<1>5. QED BY <1>3, <1>4 DEF Apart, Touch

(* So identities on the list are disjoint.                                 *)
LEMMA IdsDisjoint ==
    ASSUME run.feed \in Feeds, \A k \in run.ids : OnList(k)
    PROVE  Disjoint(run.ids)
  BY OnListApart DEF Disjoint

(* What is plain is backed.                                                *)
LEMMA PlainBacked ==
    ASSUME NEW F, NEW P, ProposalTable(P), Plain(P)
    PROVE  Backed(F, P)
  BY DEF Plain, Stale, Chained, Backed, ProposalTable, Proposal

(* What is applied with an entry of the list: deletions that it requires.  *)
LEMMA DependentsFound ==
    ASSUME NEW P, ProposalTable(P), SameNetwork(P), NEW R, AddressInv(R, P),
           NEW key \in Key, OnList(key), net[key.asn].allow, run.feed \in Feeds,
           Untouched(P), Backed(run.feed, run.before.props), \A k \in run.ids : OnList(k),
           NEW k \in Dependents(P, {key}) \ {key}
    PROVE  P[k].data = "gone" /\ ~OnList(k) /\ k \notin run.ids /\ k.asn = key.asn
<1> DEFINE B == run.before.props
           C == {j \in DOMAIN P : j = key \/ P[j].req = key}
<1>1. ASSUME NEW j \in DOMAIN P, P[j].req # None, net[j.asn].allow
      PROVE  j \in DOMAIN B /\ B[j].req = P[j].req
  BY <1>1 DEF Untouched
<1>2. k \in DOMAIN P /\ P[k].req # None /\ k.asn = key.asn
  BY DependentsOf
<1>3. ASSUME NEW j \in DOMAIN P, P[j].req \in C PROVE j \in C
  <2>1. CASE P[j].req = key
    BY <2>1
  <2>2. CASE P[j].req # key
    <3> DEFINE l == P[j].req
    <3>1. l \in DOMAIN P /\ P[l].req = key
      BY <1>3, <2>2
    <3>2. l # None /\ key # None
      BY <3>1, KeyAssumption DEF ProposalTable
    <3>3. net[l.asn].allow /\ net[j.asn].allow
      BY <3>1, <3>2 DEF SameNetwork
    <3>4. j \in DOMAIN B /\ B[j].req = l /\ l \in DOMAIN B /\ B[l].req = key
      BY <1>1, <3>1, <3>2, <3>3
    <3>5. QED BY <3>2, <3>3, <3>4 DEF Backed
  <2>3. QED BY <2>1, <2>2
<1>4. Closed(P, C)
  BY <1>3 DEF Closed
<1>5. C \in SUBSET DOMAIN P /\ {key} \cap DOMAIN P \subseteq C
  OBVIOUS
<1> HIDE DEF C
<1>6. k \in C
  BY <1>4, <1>5 DEF Dependents
<1>7. P[k].req = key
  BY <1>6 DEF C
<1>8. Touch(k, key)
  BY <1>2, <1>7 DEF AddressInv
<1>9. ~OnList(k)
  BY <1>8, OnListApart
<1>10. k \in DOMAIN B /\ P[k] = B[k]
  BY <1>2, <1>9 DEF Untouched
<1>11. P[k].data = "gone"
  BY <1>2, <1>9, <1>10 DEF Backed, Entered, OnList
<1>12. QED BY <1>2, <1>9, <1>11

(* An object of the run has the requirement that the run found.            *)
LEMMA FreshReq ==
    ASSUME NEW m \in Instance, NEW ids, FreshIn(m, ids)
    PROVE  /\ m.now.req = m.was.req /\ m.now.error = m.was.error
           /\ m.now.req # None => /\ m.key \in DOMAIN run.before.props
                                 /\ m.was = run.before.props[m.key]
                                 /\ m.now.req = run.before.props[m.key].req
           /\ m.i4 = m.key.v4 /\ m.i6 = m.key.v6
           /\ \E e \in run.feed : KeyOf(e) = m.key /\ e.oper = m.now.oper
<1>1. /\ m.now = [m.was EXCEPT !.data = "member", !.oper = m.now.oper]
      /\ m.i4 = m.key.v4 /\ m.i6 = m.key.v6
      /\ \E e \in run.feed : KeyOf(e) = m.key /\ e.oper = m.now.oper
  BY Zenon DEF FreshIn
<1>2. m.was \in Proposal
  BY DEF Instance
<1>3. m.now.req = m.was.req /\ m.now.error = m.was.error
  BY <1>1, <1>2 DEF Proposal
<1>4. QED BY <1>1, <1>3, FreshFound

(* A round of process_saves keeps what is true of the addresses, ...       *)
LEMMA SaveAddresses ==
    ASSUME NEW R \in Table, NEW P, ProposalTable(P), AddressInv(R, P),
           AddressInv(run.before.rows, run.before.props), Away(run.before.rows, R),
           NEW m \in Instance, m.now.data = "member", FreshIn(m, run.ids),
           NEW deletions \in SUBSET Instance, \A d \in deletions : Home(R, d.key)
    PROVE  LET done == Save(R, P, m, deletions) IN AddressInv(done.rows, done.props)
<1> DEFINE done == Save(R, P, m, deletions)
           Q == done.props
<1>1. Kept(R, done.rows) /\ Written(P, m, deletions, Q)
  BY SaveKept, SaveWritten
<1> HIDE DEF done, Q
<1>2. ASSUME NEW k \in DOMAIN Q, Q[k].req # None
      PROVE  \/ k \in DOMAIN P /\ Q[k].req = P[k].req
             \/ Touch(k, Q[k].req) /\ Home(R, k)
  <2>1. CASE k \in DOMAIN P /\ Q[k] = P[k]
    BY <2>1
  <2>2. CASE k = m.key /\ Q[k].req = m.now.req
    <3>1. k \in DOMAIN run.before.props /\ Q[k].req = run.before.props[k].req
      BY <1>2, <2>2, FreshReq
    <3>2. Touch(k, Q[k].req) /\ Home(run.before.rows, k)
      BY <1>2, <3>1 DEF AddressInv
    <3>3. QED BY <3>2, AwayHome
  <2>3. CASE \E d \in deletions : k = d.key /\ Shares(k, m) /\ Q[k].req = m.key
    <3>1. m.i4 = m.key.v4 /\ m.i6 = m.key.v6
      BY FreshReq
    <3>2. QED BY <2>3, <3>1 DEF Shares, Touch
  <2>4. QED BY <1>1, <2>1, <2>2, <2>3 DEF Written
<1>3. AddressInv(done.rows, Q)
  BY <1>1, <1>2, AddressKept
<1>4. QED BY <1>3 DEF done, Q

(* ... writes no proposal that Converging does not allow, ...              *)
LEMMA SaveUntouched ==
    ASSUME NEW R, NEW P, Untouched(P), NEW m \in Instance, FreshIn(m, run.ids), Saving(m),
           NEW deletions \in SUBSET Instance
    PROVE  Untouched(Save(R, P, m, deletions).props)
<1> DEFINE Q == Save(R, P, m, deletions).props
<1>1. Written(P, m, deletions, Q) /\ (net[m.key.asn].allow => Written(P, m, {}, Q))
  BY SaveWritten, SaveAllowed
<1> HIDE DEF Q
<1>2. ASSUME NEW k \in DOMAIN Q, net[k.asn].allow
      PROVE  \/ k \in DOMAIN run.before.props /\ Q[k] = run.before.props[k]
             \/ OnList(k) /\ (Q[k].req # None => /\ k \in DOMAIN run.before.props
                                                 /\ Q[k].req = run.before.props[k].req)
  <2>1. CASE k \in DOMAIN P /\ Q[k] = P[k]
    BY <1>2, <2>1 DEF Untouched
  <2>2. CASE k = m.key /\ Q[k].req = m.now.req
    BY <2>2, FreshReq DEF Saving
  <2>3. CASE \E d \in deletions : k = d.key /\ Shares(k, m)
    <3>1. net[m.key.asn].allow
      BY <1>2, <2>3 DEF Shares
    <3>2. QED BY <1>1, <2>1, <2>2, <3>1 DEF Written
  <2>4. QED BY <1>1, <2>1, <2>2, <2>3 DEF Written
<1>3. QED BY <1>2 DEF Untouched, Q

(* ... and leaves those of the objects that are still in the queue.        *)
LEMMA SaveAsFound ==
    ASSUME NEW R, NEW P, ProposalTable(P), NEW m \in Instance,
           NEW deletions \in SUBSET Instance, NEW n \in Instance, n.key # m.key, AsFound(P, n)
    PROVE  AsFound(Save(R, P, m, deletions).props, n)
<1> DEFINE Q == Save(R, P, m, deletions).props
<1>1. Written(P, m, deletions, Q) /\ (net[m.key.asn].allow => Written(P, m, {}, Q))
  BY SaveWritten, SaveAllowed
<1>2. ASSUME NEW k \in DOMAIN P, k # m.key, P[k].req = None,
             k.asn = m.key.asn => net[m.key.asn].allow
      PROVE  k \in DOMAIN Q /\ Q[k] = P[k]
  BY <1>2, SaveOthers
<1> HIDE DEF Q
<1>3. ASSUME net[n.key.asn].allow, n.key \in DOMAIN Q PROVE n.key \in DOMAIN P
  <2>1. CASE \E d \in deletions : n.key = d.key /\ Shares(n.key, m)
    <3>1. net[m.key.asn].allow
      BY <1>3, <2>1 DEF Shares
    <3>2. QED BY <1>1, <1>3, <3>1 DEF Written
  <2>2. QED BY <1>1, <1>3, <2>1 DEF Written
<1>4. ASSUME net[n.key.asn].allow, n.saved, n.was.req = None
      PROVE  n.key \in DOMAIN Q /\ Q[n.key] = n.was
  <2>1. n.key \in DOMAIN P /\ P[n.key] = n.was
    BY <1>4 DEF AsFound
  <2>2. QED BY <1>2, <1>4, <2>1
<1>5. AsFound(Q, n)
  BY <1>3, <1>4 DEF AsFound
<1>6. QED BY <1>5 DEF Q

(* What cannot be added is recorded, or in the shadow of an earlier error. *)
LEMMA ConflictRecorded ==
    ASSUME NEW P, ProposalTable(P), Untouched(P), NEW m \in Instance, m.now.data = "member",
           FreshIn(m, run.ids), AsFound(P, m), m.now.req = None,
           net[m.key.asn].allow, run.feed \in Feeds, OnList(m.key),
           NEW e, KeyOf(e) = m.key, e.oper = m.now.oper
    PROVE  RecordedIn(SetConflict(P, m), e) \/ Shadowed(e)
<1> DEFINE known == \E k \in DOMAIN P : /\ k.asn = m.key.asn /\ P[k].error
                                        /\ \/ k.v4 # None /\ k.v4 = m.key.v4
                                           \/ k.v6 # None /\ k.v6 = m.key.v6
           n == [m EXCEPT !.now.error = TRUE]
<1>1. /\ m.now.req = m.was.req /\ m.now.error = m.was.error
      /\ \/ m.saved /\ m.key \in DOMAIN P /\ P[m.key] = m.was
         \/ ~m.saved /\ m.key \notin DOMAIN P /\ ~m.was.error
  BY FreshReq, FreshFound DEF AsFound
<1>2. CASE ~m.saved /\ known
  <2>1. PICK k \in DOMAIN P : k.asn = m.key.asn /\ P[k].error /\ Touch(k, m.key)
    BY <1>2 DEF Touch
  <2>2. k # m.key /\ k.asn = m.key.asn
    BY <1>1, <1>2, <2>1
  <2>3. ~OnList(k)
    BY <2>1, <2>2, OnListApart
  <2>4. k \in DOMAIN run.before.props /\ P[k] = run.before.props[k]
    BY <2>2, <2>3 DEF Untouched
  <2>5. Touch(k, e) /\ k # KeyOf(e)
    BY <2>1, <2>2 DEF Touch, KeyOf
  <2>6. QED BY <2>1, <2>4, <2>5 DEF Shadowed
<1>3. m.now \in Proposal /\ m.was \in Proposal
  BY DEF Instance
<1>4. ASSUME NEW p \in Proposal, p.data = "member", p.oper = e.oper, p.req = None, p.error
      PROVE  p = [data |-> "member", oper |-> e.oper, req |-> None, error |-> TRUE]
  BY <1>4 DEF Proposal
<1>5. n.now \in Proposal /\ n.key = m.key /\ n.now.data = "member" /\ n.now.oper = e.oper
      /\ n.now.req = None /\ n.now.error
  BY <1>3 DEF Instance, Proposal
<1> HIDE DEF n, known
<1>6. CASE ~(~m.saved /\ known) /\ (~m.was.error \/ (m.saved /\ m.was.oper # m.now.oper))
  <2>1. SetConflict(P, m) = Store(P, n)
    BY <1>6 DEF SetConflict, n, known
  <2>2. n.now = [data |-> "member", oper |-> e.oper, req |-> None, error |-> TRUE]
    BY <1>4, <1>5
  <2>3. QED BY <1>5, <2>1, <2>2 DEF RecordedIn, Store
<1>7. CASE m.saved /\ m.was.error /\ m.was.oper = m.now.oper
  <2>1. SetConflict(P, m) = IF Differs(m) THEN Store(P, m) ELSE P
    BY <1>7 DEF SetConflict
  <2>2. m.now = [data |-> "member", oper |-> e.oper, req |-> None, error |-> TRUE]
    BY <1>1, <1>3, <1>4, <1>7
  <2>3. CASE Differs(m)
    BY <2>1, <2>2, <2>3 DEF RecordedIn, Store
  <2>4. CASE ~Differs(m)
    <3>1. m.was = [data |-> "member", oper |-> e.oper, req |-> None, error |-> TRUE]
      BY <1>1, <1>3, <1>4, <1>7, <2>4 DEF Differs
    <3>2. QED BY <1>1, <1>7, <2>1, <2>4, <3>1 DEF RecordedIn
  <2>5. QED BY <2>3, <2>4
<1>8. QED BY <1>1, <1>2, <1>6, <1>7

(* An entry that cannot be added has an address off the LAN, or one that a *)
(* row of another LAN had when the run began.                              *)
LEMMA BlockedEntry ==
    ASSUME NEW R, Away(run.before.rows, R), NEW e, NEW k, KeyOf(e) = k, Blocked(R, k)
    PROVE  ~Unblocked(e)
<1>1. Blocked(run.before.rows, k)
  BY BlockedBefore
<1>2. k.asn = e.asn /\ k.v4 = e.v4 /\ k.v6 = e.v6
  BY DEF KeyOf
<1>3. CASE Outside(k.v4) \/ Outside(k.v6)
  BY <1>2, <1>3 DEF Unblocked
<1>4. ASSUME NEW j \in DOMAIN run.before.rows,
             ~run.before.rows[j].here, ~Apart(run.before.rows[j], k),
             Active(run.before.rows[j]) \/ run.before.rows[j].asn = k.asn
      PROVE  ~Free(e)
  <2>1. run.before.rows[j] \in Range(run.before.rows)
    BY DEF Range
  <2>2. ~Apart(run.before.rows[j], e)
    BY <1>2, <1>4 DEF Apart
  <2>3. QED BY <1>2, <1>4, <2>1, <2>2 DEF Free
<1>5. QED BY <1>1, <1>3, <1>4 DEF Blocked, Unblocked

(* Done, in terms of the identity of the entry.                            *)
LEMMA DoneIs ==
    ASSUME NEW R, NEW e
    PROVE  Done(R, e) <=> JoinedIn(R, KeyOf(e), e.oper) \/ Refused(R, KeyOf(e))
<1>1. KeyOf(e).asn = e.asn /\ KeyOf(e).v4 = e.v4 /\ KeyOf(e).v6 = e.v6
  BY DEF KeyOf
<1>2. Refused(R, KeyOf(e)) <=> Outside(e.v4) \/ Outside(e.v6) \/ Barred(R, e)
  BY <1>1 DEF Refused, Barred, Apart
<1>3. QED BY <1>2 DEF Done, JoinedIn

(* The entry whose object is saved is settled ...                          *)
LEMMA SaveSettles ==
    ASSUME DualStacked, NEW R \in Table, AddressInv(R, props), Away(run.before.rows, R),
           ProposalTable(props), SameNetwork(props),
           AddressInv(run.before.rows, run.before.props),
           ProposalTable(run.before.props), Plain(run.before.props), Untouched(props),
           run.feed \in Feeds,
           \A k \in run.ids : OnList(k), NEW m \in Instance, m.now.data = "member",
           FreshIn(m, run.ids), AsFound(props, m), NEW deletions \in SUBSET Instance,
           Save(R, props, m, deletions).verdict # "crash"
    PROVE  LET done == Save(R, props, m, deletions) IN
           /\ Sustained(R, done.rows, m.key)
           /\ \A e \in run.feed : KeyOf(e) = m.key /\ net[e.asn].allow =>
                 /\ SettledIn(done.rows, done.props, e)
                 /\ Separate(R) => Done(done.rows, e)
<1> DEFINE done == Save(R, props, m, deletions)
<1>1. PICK f \in run.feed : KeyOf(f) = m.key /\ f.oper = m.now.oper
  BY FreshReq
<1>2. m.key \in run.ids /\ OnList(m.key) /\ m.key \in Key
  BY FreshFound DEF Instance
<1>3. m.key.v4 # None \/ m.key.v6 # None
  <2>1. f.v4 # None \/ f.v6 # None
    BY <1>1 DEF Feeds
  <2>2. QED BY <1>1, <2>1 DEF KeyOf
<1>4. Unshared(R) /\ OnLan(R) /\ Disjoint(run.ids)
  BY IdsDisjoint DEF AddressInv, OnLan
<1>5. net[m.key.asn].allow => \A k \in Dependents(props, {m.key}) \ {m.key} :
                                 props[k].data = "gone" /\ k \notin run.ids
  <2>1. Backed(run.feed, run.before.props)
    BY PlainBacked
  <2>2. QED BY <1>2, <2>1, DependentsFound
<1>6. /\ Sustained(R, done.rows, m.key)
      /\ net[m.key.asn].allow /\ done.verdict # "crash" =>
           \/ JoinedIn(done.rows, m.key, m.now.oper)
           \/ Bars(R, done.rows, m.key) /\ done.props = SetConflict(props, m)
  <2>1. Saved(R, props, m, done)
    BY <1>2, <1>3, <1>4, <1>5, SaveSustained
  <2> HIDE DEF done
  <2>2. QED BY <2>1 DEF Saved
<1> HIDE DEF done
<1>7. ASSUME NEW e \in run.feed, KeyOf(e) = m.key, net[e.asn].allow
      PROVE  SettledIn(done.rows, done.props, e) /\ (Separate(R) => Done(done.rows, e))
  <2>1. e = f
    BY <1>1, <1>7, FeedApart
  <2>2. e.oper = m.now.oper /\ net[m.key.asn].allow
    BY <1>1, <1>7, <2>1 DEF KeyOf
  <2>3. CASE JoinedIn(done.rows, m.key, m.now.oper)
    BY <1>7, <2>2, <2>3, DoneIs DEF SettledIn
  <2>4. CASE Bars(R, done.rows, m.key) /\ done.props = SetConflict(props, m)
    <3>5. Blocked(R, m.key) /\ (Separate(R) => Done(done.rows, e))
      BY <1>7, <2>4, DoneIs DEF Bars
    <3>1. ~Unblocked(e)
      BY <1>7, <3>5, BlockedEntry
    <3>2. m.now.req = None
      <4>1. Blocked(run.before.rows, m.key)
        BY <3>5, BlockedBefore
      <4>2. ASSUME m.now.req # None PROVE FALSE
        <5>1. Home(run.before.rows, m.key)
          BY <4>2, FreshReq DEF AddressInv
        <5>2. QED BY <4>1, <5>1 DEF Blocked, Home
      <4>3. QED BY <4>2
    <3>3. RecordedIn(done.props, e) \/ Shadowed(e)
      BY <1>2, <1>7, <2>2, <2>4, <3>2, ConflictRecorded
    <3>4. QED BY <3>1, <3>3, <3>5 DEF SettledIn
  <2>5. done.verdict # "crash"
    BY DEF done
  <2>6. QED BY <1>6, <2>2, <2>3, <2>4, <2>5
<1>8. QED BY <1>6, <1>7 DEF done

(* ... and the others stay so.                                             *)
LEMMA SaveKeepsSettled ==
    ASSUME NEW R, NEW P, ProposalTable(P), NEW m \in Instance, NEW deletions,
           Sustained(R, Save(R, P, m, deletions).rows, m.key),
           run.feed \in Feeds, NEW e \in run.feed, KeyOf(e) # m.key, KeyOf(e) \in run.ids,
           net[e.asn].allow, SettledIn(R, P, e)
    PROVE  LET done == Save(R, P, m, deletions) IN SettledIn(done.rows, done.props, e)
<1> DEFINE done == Save(R, P, m, deletions)
<1>1. e.oper \in Operational
  BY FeedType DEF Entry
<1>2. ASSUME NEW k \in DOMAIN P, k # m.key, P[k].req = None,
             k.asn = m.key.asn => net[m.key.asn].allow
      PROVE  k \in DOMAIN done.props /\ done.props[k] = P[k]
  BY <1>2, SaveOthers
<1>3. JoinedIn(R, KeyOf(e), e.oper) => JoinedIn(done.rows, KeyOf(e), e.oper)
  BY <1>1 DEF Sustained
<1> HIDE DEF done
<1>4. KeyOf(e).asn = e.asn
  BY DEF KeyOf
<1>5. RecordedIn(P, e) => RecordedIn(done.props, e)
  <2> DEFINE k == KeyOf(e)
             p == [data |-> "member", oper |-> e.oper, req |-> None, error |-> TRUE]
  <2>1. k # m.key /\ (k.asn = m.key.asn => net[m.key.asn].allow)
    BY <1>4
  <2>2. p.req = None
    OBVIOUS
  <2> HIDE DEF k, p
  <2>3. k \in DOMAIN P /\ P[k] = p => k \in DOMAIN done.props /\ done.props[k] = p
    BY <1>2, <2>1, <2>2
  <2>4. QED BY <2>3 DEF RecordedIn, k, p
<1>6. SettledIn(done.rows, done.props, e)
  BY <1>3, <1>5 DEF SettledIn
<1>7. QED BY <1>6 DEF done

LEMMA SaveStepConverge ==
    ASSUME TypeInv, AllowInv, ConvergeInv, SaveStep
    PROVE  ConvergeInv'
<1> DEFINE m == Head(run.pending)
           done == Save(rows, props, m, run.deletions)
           S == done.rows
           Q == done.props
<1>1. /\ rows \in Table /\ ProposalTable(props) /\ Working(run)
      /\ run.phase = "apply" /\ run \notin {Idle, Failed} /\ run.todo = {}
      /\ run.feed \in Feeds /\ run.deletions \in SUBSET Instance
      /\ run.pending \in Seq(Instance) /\ run.pending # <<>>
  BY InUse, InRun, NotIdle DEF TypeInv, SaveStep, Working
<1>10. ProposalTable(run.before.props)
  BY <1>1, TablesShape DEF Working
<1>2. /\ DualStacked /\ SameNetwork(props)
      /\ \A i \in DOMAIN run.pending : Saving(run.pending[i])
  BY <1>1, AllowInRun
<1>3. /\ AddressInv(rows, props)
      /\ AddressInv(run.before.rows, run.before.props)
      /\ Away(run.before.rows, rows)
      /\ \A j \in DOMAIN run.pending : FreshIn(run.pending[j], run.ids)
      /\ Distinct(run.pending)
      /\ \A d \in run.deletions : Home(rows, d.key)
      /\ \A k \in run.ids : OnList(k)
      /\ Seen(run.phase, run.todo, run.ids, run.pending)
      /\ Plain(run.before.props) => ConvergingIn(rows, props, run.todo, run.ids, run.pending)
  BY <1>1, ConvergeInRun
<1>4. m = run.pending[1] /\ 1 \in DOMAIN run.pending /\ m \in Instance
  BY <1>1
<1> HIDE DEF m
<1>5. Saving(m) /\ m.now.data = "member" /\ FreshIn(m, run.ids)
  BY <1>2, <1>3, <1>4 DEF Saving
<1>6. Kept(rows, S) /\ AddressInv(S, Q)
  BY <1>1, <1>3, <1>4, <1>5, SaveKept, SaveAddresses
<1>7. /\ IF done.verdict = "crash" \/ ~ForeignKeys(Q) THEN Fail
         ELSE /\ rows' = S
              /\ props' = Q
              /\ run' = [run EXCEPT !.pending = Tail(@)]
              /\ UNCHANGED last
      /\ UNCHANGED <<net, runs, edits>>
  BY DEF SaveStep, m
<1>8. CASE done.verdict = "crash" \/ ~ForeignKeys(Q)
  <2>1. Fail
    BY <1>7, <1>8
  <2>2. QED BY <1>1, <2>1, FailConverge
<1>9. CASE ~(done.verdict = "crash" \/ ~ForeignKeys(Q))
  <2>1. /\ run'.feed = run.feed /\ run'.before = run.before /\ run'.phase = "apply"
        /\ run'.todo = {} /\ run'.ids = run.ids /\ run'.pending = Tail(run.pending)
        /\ run'.deletions = run.deletions
        /\ props' = Q /\ rows' = S /\ UNCHANGED net
    <3> HIDE DEF done, S, Q
    <3>1. QED BY <1>1, <1>7, <1>9 DEF Working
  <2>2. ASSUME NEW j \in DOMAIN run'.pending
        PROVE  /\ j + 1 \in DOMAIN run.pending /\ j + 1 # 1
               /\ run'.pending[j] = run.pending[j + 1] /\ run.pending[j + 1] \in Instance
               /\ run.pending[j + 1].key # m.key
    <3>1. /\ j + 1 \in DOMAIN run.pending /\ j + 1 # 1
          /\ run'.pending[j] = run.pending[j + 1] /\ run.pending[j + 1] \in Instance
      BY <1>1, <2>1
    <3>2. QED BY <1>3, <1>4, <3>1 DEF Distinct
  <2>3. ASSUME NEW j \in DOMAIN run.pending, j # 1
        PROVE  j - 1 \in DOMAIN run'.pending /\ run'.pending[j - 1] = run.pending[j]
    BY <1>1, <2>1, <2>3
  <2>4. \A j \in DOMAIN run'.pending : FreshIn(run'.pending[j], run'.ids)
    BY <1>3, <2>1, <2>2
  <2>5. Distinct(run'.pending)
    <3>1. \A i, j \in DOMAIN run'.pending : i # j => i + 1 # j + 1
      BY <1>1, <2>1
    <3>2. QED BY <1>3, <2>2, <3>1 DEF Distinct
  <2>6. Away(run.before.rows, S) /\ \A d \in run'.deletions : Home(S, d.key)
    BY <1>3, <1>6, <2>1, AwayThen, KeptHome DEF Kept
  <2>7. Seen(run'.phase, run'.todo, run'.ids, run'.pending)
    BY <1>1, <1>3, <2>1 DEF Seen
  <2>8. ASSUME Plain(run.before.props)
        PROVE  ConvergingIn(S, Q, run'.todo, run'.ids, run'.pending)
    <3>1. /\ OnIdsOr(rows, run.ids, {})
          /\ Untouched(props)
          /\ \A j \in DOMAIN run.pending : AsFound(props, run.pending[j])
          /\ \A e \in run.feed : Wanted(e) =>
                UnsavedIn(run.pending, e) \/ SettledIn(rows, props, e)
      BY <1>1, <1>3, <2>8 DEF ConvergingIn
    <3>2. /\ Sustained(rows, S, m.key)
          /\ \A e \in run.feed : KeyOf(e) = m.key /\ net[e.asn].allow => SettledIn(S, Q, e)
      BY <1>1, <1>10, <1>2, <1>3, <1>4, <1>5, <1>9, <2>8, <3>1, SaveSettles
    <3>3. OnIdsOr(S, run.ids, {})
      BY <3>1, <3>2 DEF OnIdsOr, OnIds, Sustained
    <3>4. Untouched(Q)
      BY <1>1, <1>4, <1>5, <3>1, SaveUntouched
    <3>5. ASSUME NEW j \in DOMAIN run'.pending PROVE AsFound(Q, run'.pending[j])
      BY <1>1, <1>4, <2>2, <3>1, SaveAsFound
    <3>6. ASSUME NEW e \in run.feed, Wanted(e)
          PROVE  UnsavedIn(run'.pending, e) \/ SettledIn(S, Q, e)
      <4>1. net[e.asn].allow /\ KeyOf(e) \in run.ids
        BY <1>1, <1>3, <3>6 DEF Wanted, Seen
      <4>2. CASE KeyOf(e) = m.key
        BY <3>2, <4>1, <4>2
      <4>3. CASE KeyOf(e) # m.key
        <5>1. CASE UnsavedIn(run.pending, e)
          <6>1. PICK j \in DOMAIN run.pending : run.pending[j].key = KeyOf(e)
            BY <5>1 DEF UnsavedIn
          <6>2. j # 1
            BY <1>4, <4>3, <6>1
          <6>3. UnsavedIn(run'.pending, e)
            BY <2>3, <6>1, <6>2 DEF UnsavedIn
          <6>4. QED BY <6>3
        <5>2. CASE SettledIn(rows, props, e)
          BY <1>1, <1>4, <3>2, <4>1, <4>3, <5>2, SaveKeepsSettled
        <5>3. QED BY <3>1, <3>6, <5>1, <5>2
      <4>4. QED BY <4>2, <4>3
    <3> HIDE DEF done, S, Q
    <3>7. QED BY <2>1, <3>3, <3>4, <3>5, <3>6 DEF ConvergingIn
  <2>9. run' \notin {Idle, Failed} /\ \A j \in run'.todo : run.before.rows[j].here
    BY <2>1 DEF Idle, Failed
  <2> HIDE DEF done, S, Q
  <2>10. QED BY <1>3, <1>6, <2>1, <2>4, <2>5, <2>6, <2>7, <2>8, <2>9, KeepConverge
<1>11. QED BY <1>8, <1>9

LEMMA CleanupConverge ==
    ASSUME TypeInv, AllowInv, ConvergeInv, Cleanup
    PROVE  ConvergeInv'
<1>1. /\ rows \in Table /\ ProposalTable(props) /\ Working(run)
      /\ run.phase = "apply" /\ run \notin {Idle, Failed} /\ run.todo = {} /\ run.pending = <<>>
  BY InUse, InRun, NotIdle DEF TypeInv, Cleanup
<1>2. DualStacked
  BY <1>1, AllowInRun
<1>3. /\ AddressInv(rows, props)
      /\ AddressInv(run.before.rows, run.before.props)
      /\ Away(run.before.rows, rows)
      /\ \A d \in run.deletions : Home(rows, d.key)
      /\ \A k \in run.ids : OnList(k)
      /\ Seen(run.phase, run.todo, run.ids, run.pending)
      /\ Plain(run.before.props) => ConvergingIn(rows, props, run.todo, run.ids, run.pending)
  BY <1>1, ConvergeInRun
<1>4. CASE \A k \in DOMAIN props : Unique(k)
  <2> DEFINE K == {k \in DOMAIN props :
                     /\ props[k].req = None
                     /\ \/ Action(k) = "noop"
                        \/ Action(k) = "change" /\ k \notin run.ids}
             Q == Without(props, K)
  <2>1. /\ props' = Q /\ run' = [run EXCEPT !.phase = "cleaned"] /\ UNCHANGED <<net, rows>>
    BY <1>4 DEF Cleanup
  <2>2. ASSUME NEW k \in K, k \in run.ids, props[k].data = "member"
        PROVE  JoinedIn(rows, k, props[k].oper)
    <3> DEFINE found == Matching(rows, k, props[k].data = "gone")
    <3>1. k \in Key
      BY <1>1 DEF ProposalTable
    <3>2. found \subseteq {j \in DOMAIN rows : KeyOf(rows[j]) = k}
      BY <1>1, <1>2, <3>1, MatchingDual
    <3>3. Action(k) = "noop"
      BY <2>2
    <3> HIDE DEF found
    <3>4. (\E i \in found : Active(rows[i])) /\ (\A i \in found : rows[i].oper = props[k].oper)
      BY <2>2, <3>3 DEF Action, found
    <3>5. QED BY <3>2, <3>4 DEF JoinedIn
  <2>3. ASSUME NEW k \in DOMAIN props \ K, props[k].req = None
        PROVE  k \in DOMAIN Q /\ Q[k] = props[k]
    BY <1>1, <2>3, WithoutOthers
  <2>4. AddressInv(rows, Q)
    <3>1. \A k \in DOMAIN Q : k \in DOMAIN props /\ Q[k] = props[k]
      BY WithoutThem
    <3>2. QED BY <1>3, <3>1, KeptSame, AddressKept
  <2>5. ASSUME Plain(run.before.props) PROVE Converged(rows, Q, run.ids)
    <3> HIDE DEF K, Q
    <3>1. /\ OnIdsOr(rows, run.ids, {})
          /\ \A e \in run.feed : Wanted(e) => SettledIn(rows, props, e)
      BY <1>1, <1>3, <2>5 DEF ConvergingIn, UnsavedIn
    <3>2. ASSUME NEW e \in run.feed, Wanted(e), RecordedIn(props, e)
          PROVE  JoinedIn(rows, KeyOf(e), e.oper) \/ RecordedIn(Q, e)
      <4> DEFINE k == KeyOf(e)
                 p == [data |-> "member", oper |-> e.oper, req |-> None, error |-> TRUE]
      <4>1. k \in run.ids
        BY <1>1, <1>3, <3>2 DEF Wanted, Seen
      <4>2. p.req = None /\ p.data = "member" /\ p.oper = e.oper
        OBVIOUS
      <4>3. k \in DOMAIN props /\ props[k] = p
        BY <3>2 DEF RecordedIn
      <4> HIDE DEF k, p
      <4>4. k \in K => JoinedIn(rows, k, e.oper)
        BY <2>2, <4>1, <4>2, <4>3
      <4>5. k \notin K => k \in DOMAIN Q /\ Q[k] = p
        BY <2>3, <4>2, <4>3
      <4>6. QED BY <4>4, <4>5 DEF RecordedIn, k, p
    <3>3. QED BY <3>1, <3>2 DEF Converged, SettledIn
  <2> HIDE DEF Q
  <2>6. /\ run'.feed = run.feed /\ run'.before = run.before /\ run'.phase = "cleaned"
        /\ run'.todo = {} /\ run'.ids = run.ids /\ run'.pending = <<>>
        /\ run'.deletions = run.deletions
    BY <1>1, <2>1 DEF Working
  <2>7. Seen(run'.phase, run'.todo, run'.ids, run'.pending)
    BY <1>1, <1>3, <2>6 DEF Seen
  <2>8. run' \notin {Idle, Failed} /\ DOMAIN run'.pending = {} /\ Distinct(run'.pending)
    BY <2>6 DEF Idle, Failed, Distinct
  <2>9. QED BY <1>3, <2>1, <2>4, <2>5, <2>6, <2>7, <2>8, KeepConverge
<1>5. CASE ~ \A k \in DOMAIN props : Unique(k)
  BY <1>1, <1>5, FailConverge DEF Cleanup
<1>6. QED BY <1>4, <1>5

(* What is deleted by age is trimmed.                                      *)
LEMMA FinishTrimmed ==
    ASSUME TypeInv, NEW K, Finish(K)
    PROVE  Trimmed(rows, rows')
<1>1. ASSUME NEW i \in DOMAIN rows
      PROVE  /\ rows'[i].here = rows[i].here /\ rows'[i].asn = rows[i].asn
             /\ rows'[i].v4 = rows[i].v4 /\ rows'[i].v6 = rows[i].v6
             /\ Active(rows'[i]) => Active(rows[i])
  <2>1. rows[i] \in Netixlan
    BY InUse, RowType DEF TypeInv
  <2>2. rows'[i] \in {rows[i], [rows[i] EXCEPT !.status = "deleted"]}
    BY DEF Finish
  <2>3. QED BY <2>1, <2>2 DEF Netixlan, Active
<1>2. DOMAIN rows' = DOMAIN rows
  BY DEF Finish
<1>3. QED BY <1>1, <1>2 DEF Trimmed

LEMMA FinishConverge ==
    ASSUME TypeInv, ConvergeInv, NEW K, Finish(K)
    PROVE  ConvergeInv'
<1>1. AddressInv(rows, props)
  BY DEF ConvergeInv
<1>2. \A k \in DOMAIN props' : k \in DOMAIN props /\ props'[k] = props[k]
  BY WithoutThem DEF Finish
<1>3. AddressInv(rows', props')
  BY <1>1, <1>2, FinishTrimmed, TrimmedKept, AddressKept
<1>4. run' = Idle
  BY DEF Finish
<1>5. QED BY <1>3, <1>4, LeaveConverge

(* The addresses keep what is true of them when updates are switched on.   *)
LEMMA TurnOnKept ==
    ASSUME TypeInv, NEW a \in Asns, NEW enabled \in BOOLEAN, TurnOn(a, enabled)
    PROVE  Kept(rows, rows')
<1>1. rows \in Table /\ ProposalTable(props)
  BY InUse DEF TypeInv
<1>2. CASE ~enabled
  BY <1>2, KeptSame DEF TurnOn
<1>3. CASE enabled
  <2> DEFINE Y == Outcome \cup [rows : Table, verdict : Verdicts, left : SUBSET Key]
             X == {s \in Y : Kept(rows, s.rows)}
             start == [rows |-> rows, verdict |-> "noop"]
  <2>1. start \in X
    <3>1. start \in Y /\ start.rows = rows
      BY <1>1 DEF Outcome, Verdicts
    <3> HIDE DEF Y, start
    <3>2. QED BY <3>1, KeptSame
  <2>2. ASSUME NEW s \in X, NEW k \in DOMAIN props
        PROVE  Apply(s.rows, props, FromTable(props, k), FALSE) \in X
    <3> DEFINE o == Apply(s.rows, props, FromTable(props, k), FALSE)
    <3>1. s.rows \in Table /\ FromTable(props, k) \in Instance /\ Kept(rows, s.rows)
      BY <1>1, FromTableType DEF Outcome
    <3>2. o \in Y
      BY <1>1, <3>1, ApplyType
    <3>3. Kept(s.rows, o.rows)
      BY <1>1, <3>1, ApplyKept
    <3> HIDE DEF o, Y
    <3>4. Kept(rows, o.rows)
      BY <3>1, <3>3, KeptThen
    <3>5. QED BY <3>2, <3>4 DEF o
  <2>3. TurnOn(a, TRUE)
    BY <1>3, enabled = TRUE
  <2> HIDE DEF Y
  <2>4. \A s \in X : Kept(rows, s.rows)
    OBVIOUS
  <2> HIDE DEF X
  <2>5. PICK s \in X : rows' = s.rows
    BY <2>1, <2>2, <2>3, TurnOnStays
  <2>6. QED BY <2>4, <2>5
<1>4. QED BY <1>2, <1>3

(* Users write while no run is in progress, and keep what is true of the   *)
(* addresses.                                                              *)
LEMMA UserKept ==
    ASSUME TypeInv, UserStep
    PROVE  Kept(rows, rows')
<1>1. rows \in Table
  BY InUse DEF TypeInv
<1>2. ASSUME NEW a \in Asns, NEW enabled \in BOOLEAN, TurnOn(a, enabled)
      PROVE  Kept(rows, rows')
  BY <1>2, TurnOnKept
<1>3. ASSUME NEW a \in Asns, TurnOff(a) \/ \E p \in Supports : SetSupport(a, p)
      PROVE  Kept(rows, rows')
  BY <1>3, KeptSame DEF TurnOff, SetSupport
<1>4. ASSUME NEW e \in Entry, UserAdd(e)
      PROVE  Kept(rows, rows')
  <2> DEFINE r == [asn |-> e.asn, v4 |-> e.v4, v6 |-> e.v6, oper |-> e.oper,
                   here |-> TRUE, status |-> "ok"]
  <2>1. r \in Netixlan /\ r.v4 = e.v4 /\ r.v6 = e.v6 /\ r.here
    BY DEF Entry, Netixlan
  <2>2. rows' = Append(rows, r)
    BY <1>4 DEF UserAdd
  <2> HIDE DEF r
  <2>3. ~Collides(rows, 0, r) /\ ~Outside(r.v4) /\ ~Outside(r.v6)
    BY <1>4, <2>1 DEF UserAdd, Collides
  <2>4. QED BY <1>1, <2>1, <2>2, <2>3, AppendKept
<1>5. ASSUME NEW i \in DOMAIN rows, UserDelete(i)
      PROVE  Kept(rows, rows')
  <2>1. rows[i] \in Netixlan
    BY <1>1, RowType
  <2>2. rows' = [rows EXCEPT ![i] = [rows[i] EXCEPT !.status = "deleted"]]
    BY <1>5 DEF UserDelete
  <2> DEFINE r == [rows[i] EXCEPT !.status = "deleted"]
  <2>3. /\ r.here = rows[i].here /\ r.asn = rows[i].asn
        /\ r.v4 = rows[i].v4 /\ r.v6 = rows[i].v6 /\ ~Active(r)
    BY <2>1 DEF Netixlan, Active
  <2>4. rows' = [rows EXCEPT ![i] = r]
    BY <2>2
  <2> HIDE DEF r
  <2>5. Trimmed(rows, rows')
    BY <1>1, <2>3, <2>4 DEF Trimmed
  <2>6. QED BY <2>5, TrimmedKept
<1>6. QED BY <1>2, <1>3, <1>4, <1>5 DEF UserStep

LEMMA UserConverge ==
    ASSUME TypeInv, ConvergeInv, UserStep
    PROVE  ConvergeInv'
<1>1. AddressInv(rows, props)
  BY DEF ConvergeInv
<1>2. run' \in {Idle, Failed} /\ UNCHANGED props
  BY DEF UserStep, TurnOn, TurnOff, SetSupport, UserAdd, UserDelete, Edit
<1>3. AddressInv(rows', props')
  BY <1>1, <1>2, UserKept, AddressKept
<1>4. QED BY <1>2, <1>3, LeaveConverge

(* Every step keeps ConvergeInv.                                           *)
LEMMA ConvergeStep ==
    TypeInv /\ AllowInv /\ ConvergeInv /\ [Next]_vars => ConvergeInv'
<1> SUFFICES ASSUME TypeInv, AllowInv, ConvergeInv, [Next]_vars PROVE ConvergeInv'
  OBVIOUS
<1>1. CASE RunStep
  BY <1>1, StartConverge, ParseConverge, BeginDeletionsConverge, DeleteStepConverge,
     SaveStepConverge, CleanupConverge, FinishConverge DEF RunStep
<1>2. CASE UserStep
  BY <1>2, UserConverge
<1>3. CASE UNCHANGED vars
  <2>1. UNCHANGED <<net, rows, props, run>>
    BY <1>3 DEF vars
  <2>2. /\ \A e : Wanted(e)' <=> Wanted(e)
        /\ \A e : Unblocked(e)' <=> Unblocked(e)
        /\ \A e : Shadowed(e)' <=> Shadowed(e)
        /\ \A k : OnList(k)' <=> OnList(k)
        /\ Plain(run.before.props)' <=> Plain(run.before.props)
    BY <2>1, Carried
  <2>3. /\ AddressInv(rows, props)' <=> AddressInv(rows, props)
        /\ AddressInv(run.before.rows, run.before.props)'
             <=> AddressInv(run.before.rows, run.before.props)
        /\ Away(run.before.rows, rows)' <=> Away(run.before.rows, rows)
        /\ \A k : Home(rows, k)' <=> Home(rows, k)
    BY <2>1 DEF AddressInv, Home, Away, Unshared, Outside, Touch, Apart, Active
  <2>4. \A m : Fresh(m)' <=> Fresh(m)
    BY <2>1 DEF Fresh, KeyOf
  <2>5. /\ \A e : Settled(e)' <=> Settled(e)
        /\ \A e : Unsaved(e)' <=> Unsaved(e)
    BY <2>1, <2>2 DEF Settled, Joined, Recorded, Unsaved, KeyOf, Active
  <2>6. Converging' <=> Converging
    BY <2>1, <2>2, <2>5 DEF Present, Converging, Untouched, Active, KeyOf
  <2>7. /\ \A e : Listed(e)' <=> Listed(e)
        /\ \A k, l : Same(k, l, FALSE)' <=> Same(k, l, FALSE)
        /\ Cleaned' <=> Cleaned
    BY <2>1 DEF Listed, Same, KeyOf, Active, Cleaned
  <2>8. (Converges' <=> Converges) /\ (DeletedDoNotBlock' <=> DeletedDoNotBlock)
    BY <2>1, <2>2, <2>7 DEF Present, Converges, DeletedDoNotBlock, Active, KeyOf
  <2>9. QED BY <2>1, <2>2, <2>3, <2>4, <2>5, <2>6, <2>8 DEF ConvergeInv, KeyOf
<1>4. QED BY <1>1, <1>2, <1>3 DEF Next

LEMMA ConvergeInit == Init => ConvergeInv
<1> SUFFICES ASSUME Init PROVE ConvergeInv
  OBVIOUS
<1>1. rows \in Initial /\ props = <<>> /\ run = Idle
  BY DEF Init
<1>2. Unshared(rows) /\ \A i \in DOMAIN rows :
         rows[i].here => ~Outside(rows[i].v4) /\ ~Outside(rows[i].v6)
  <2> DEFINE T == {r \in Netixlan : r.here => ~Outside(r.v4) /\ ~Outside(r.v6)}
  <2>1. rows \in Seq(T) /\ Unshared(rows)
    BY <1>1, InitialAssumption
  <2>2. \A r \in T : r.here => ~Outside(r.v4) /\ ~Outside(r.v6)
    OBVIOUS
  <2> HIDE DEF T
  <2>3. \A i \in DOMAIN rows : rows[i] \in T
    BY <2>1
  <2>4. QED BY <2>1, <2>2, <2>3
<1>3. DOMAIN props = {}
  BY <1>1
<1>4. AddressInv(rows, props)
  BY <1>2, <1>3 DEF AddressInv
<1>5. ~Cleaned
  BY <1>1 DEF Cleaned, Idle
<1>6. QED BY <1>1, <1>4, <1>5 DEF ConvergeInv, Converges, DeletedDoNotBlock

LEMMA ConvergeAlways ==
    Supports = {<<TRUE, TRUE>>} /\ Spec => []ConvergeInv
<1> SUFFICES ASSUME Supports = {<<TRUE, TRUE>>} PROVE Spec => []ConvergeInv
  OBVIOUS
<1>1. Spec => []TypeInv
  BY TypeInit, TypeStep, PTL DEF Spec
<1>2. Init => AllowInv /\ ConvergeInv
  BY AllowInit, ConvergeInit
<1>3. TypeInv /\ AllowInv /\ ConvergeInv /\ [Next]_vars => AllowInv' /\ ConvergeInv'
  BY AllowStep, ConvergeStep
<1>4. QED BY <1>1, <1>2, <1>3, PTL DEF Spec

(* What the importer promises, of networks that support both protocols:    *)
(* when a run is over, every entry of a network that allows updates is an  *)
(* active connection with the speed on the list, or its error is recorded, *)
(* or one recorded before for an identity that shares an address with it,  *)
(* and every active connection of such a network on the LAN is on the      *)
(* list; runs that begin with stale or chained requirements are excepted.  *)
(* parse, process_deletions, process_saves and apply have to agree on the  *)
(* identity of an entry, and what one object writes must not undo what     *)
(* another has written.                                                    *)
THEOREM ConvergesHolds ==
    Supports = {<<TRUE, TRUE>>} /\ Spec => []Converges
<1>1. ConvergeInv => Converges
  BY DEF ConvergeInv
<1>2. QED BY <1>1, ConvergeAlways, PTL

(* What was deleted blocks no entry of the list, for networks that support *)
(* both protocols: when a run is over, every entry of a network that allows*)
(* updates whose addresses belong to the LAN, and at its beginning to no   *)
(* active connection and to no deleted one of the network elsewhere, is an *)
(* active connection.  add_netixlan resets the addresses of the deleted    *)
(* connections it meets (_reset_netixlan_if_deleted), process_saves frees  *)
(* those that only deletions to come still hold, and no later object of the*)
(* run takes them back; runs that begin with stale or chained requirements *)
(* are excepted.                                                           *)
THEOREM DeletedDoNotBlockHolds ==
    Supports = {<<TRUE, TRUE>>} /\ Spec => []DeletedDoNotBlock
<1>1. ConvergeInv => DeletedDoNotBlock
  BY DEF ConvergeInv
<1>2. QED BY <1>1, ConvergeAlways, PTL

-----------------------------------------------------------------------------
(* A second run of the same list: what it meets it leaves as it is (apply, *)
(* delete, save), and what the first one leaves behind (Quiet).            *)

(* Where the connection of m is as it should be, or its add is refused and *)
(* writes nothing, applying m writes nothing; ...                          *)
LEMMA ApplyOneIdle ==
    ASSUME DualStacked, NEW R \in Table, Unshared(R), OnLan(R), Separate(R),
           NEW m \in Instance, m.now.data = "member", m.key.v4 \in Prefix \/ m.key.v6 \in Prefix,
           JoinedIn(R, m.key, m.now.oper) \/ Refused(R, m.key)
    PROVE  ApplyOne(R, m, FALSE).rows = R
<1> DEFINE found == Matching(R, m.key, m.now.data = "gone")
           i == CHOOSE i \in found : TRUE
           info == AddInfo(R, m, found)
           absent == IF found = {} THEN TRUE ELSE ~Active(R[i])
           done == ApplyOne(R, m, FALSE)
           modified == [R EXCEPT ![i].oper = m.now.oper]
           added == AddNetixlan(R, info)
<1>1. m.key \in Key /\ (m.key.v4 # None \/ m.key.v6 # None)
  BY ImportAssumption DEF Instance
<1>2. found = {j \in DOMAIN R : KeyOf(R[j]) = m.key} /\ IsFiniteSet(found)
  BY <1>1, MatchingDual, MatchingRows
<1>3. found # {} => i \in found
  OBVIOUS
<1>4. /\ info \in Netixlan
      /\ info.asn = m.key.asn /\ info.v4 = m.key.v4 /\ info.v6 = m.key.v6
  BY AddInfoDual
<1>5. \/ done.rows = R
      \/ ~(Cardinality(found) > 1) /\ absent /\ done.rows = added.rows
      \/ ~(Cardinality(found) > 1) /\ ~absent /\ found # {} /\ done.rows = modified
  <2> DEFINE gone == [R EXCEPT ![i].status = "deleted"]
  <2>1. \/ Cardinality(found) > 1 /\ done = [rows |-> R, verdict |-> "crash"]
        \/ /\ ~(Cardinality(found) > 1)
           /\ found = {} /\ m.now.data = "gone" /\ FALSE /\ done = InsertDeleted(R, m)
        \/ /\ ~(Cardinality(found) > 1)
           /\ absent /\ m.now.data = "gone" /\ done = [rows |-> R, verdict |-> "noop"]
        \/ /\ ~(Cardinality(found) > 1)
           /\ ~absent /\ found # {} /\ m.now.data = "gone"
           /\ done = [rows |-> gone, verdict |-> "delete"]
        \/ /\ ~(Cardinality(found) > 1)
           /\ absent /\ m.now.data = "member" /\ info.v4 = None /\ info.v6 = None
           /\ done = [rows |-> R, verdict |-> "noop"]
        \/ /\ ~(Cardinality(found) > 1)
           /\ absent /\ m.now.data = "member" /\ ~(info.v4 = None /\ info.v6 = None)
           /\ done = AddNetixlan(R, info)
        \/ /\ ~(Cardinality(found) > 1)
           /\ ~absent /\ found # {} /\ m.now.data = "member"
           /\ done = [rows |-> modified, verdict |-> "modify"]
    BY ApplyOneShape
  <2> HIDE DEF found, i, info, absent, done, gone, modified
  <2>2. QED BY <2>1 DEF added
<1>6. absent <=> found = {} \/ ~Active(R[i])
  OBVIOUS
<1>7. found # {} /\ R[i].oper = m.now.oper => modified = R
  <2>1. found # {} => R[i] \in Netixlan /\ i \in DOMAIN R
    BY <1>2, <1>3, RowType
  <2> HIDE DEF found, i
  <2>2. R[i] \in Netixlan /\ R[i].oper = m.now.oper => [R[i] EXCEPT !.oper = m.now.oper] = R[i]
    BY DEF Netixlan
  <2>3. modified = [R EXCEPT ![i] = [R[i] EXCEPT !.oper = m.now.oper]]
    OBVIOUS
  <2>4. R = [j \in DOMAIN R |-> R[j]]
    BY DEF Table
  <2>5. QED BY <2>1, <2>2, <2>3, <2>4
<1> HIDE DEF found, i, absent, modified, info, done
<1>8. ~(Cardinality(found) > 1) => \A j \in found : j = i
  BY <1>2, <1>3, OnlyMember
<1>9. CASE ~(Cardinality(found) > 1) /\ absent /\ done.rows = added.rows
  <2>1. ~JoinedIn(R, m.key, m.now.oper)
    BY <1>2, <1>6, <1>8, <1>9 DEF JoinedIn
  <2>2. Refused(R, info)
    BY <1>4, <2>1 DEF Refused, Barred, Apart
  <2>3. added.rows = R
    BY <1>4, <2>2, RefusedIdle
  <2>4. QED BY <1>9, <2>3 DEF done
<1>10. CASE ~(Cardinality(found) > 1) /\ ~absent /\ found # {} /\ done.rows = modified
  <2>1. i \in DOMAIN R /\ KeyOf(R[i]) = m.key /\ Active(R[i])
    BY <1>2, <1>3, <1>6, <1>10
  <2>2. m.key.v4 = R[i].v4 /\ m.key.v6 = R[i].v6 /\ R[i].here
    BY <2>1 DEF KeyOf, Separate
  <2>3. ~Refused(R, m.key)
    BY <2>1, <2>2 DEF OnLan, Refused, Barred, Apart, Unshared
  <2>4. R[i].oper = m.now.oper
    BY <1>2, <1>8, <1>10, <2>3 DEF JoinedIn
  <2>5. QED BY <1>7, <1>10, <2>4 DEF done
<1>11. QED BY <1>5, <1>9, <1>10 DEF done

(* ... as does applying the deletion of what is not there, ...             *)
LEMMA ApplyGoneIdle ==
    ASSUME DualStacked, NEW R \in Table, NEW m \in Instance, m.now.data = "gone",
           NoneActive(R, m.key)
    PROVE  ApplyOne(R, m, FALSE).rows = R
<1> DEFINE found == Matching(R, m.key, m.now.data = "gone")
           i == CHOOSE i \in found : TRUE
           absent == IF found = {} THEN TRUE ELSE ~Active(R[i])
           done == ApplyOne(R, m, FALSE)
<1>1. m.key \in Key
  BY DEF Instance
<1>2. found = {j \in DOMAIN R : KeyOf(R[j]) = m.key /\ (m.key.v4 # None \/ m.key.v6 # None)}
  BY <1>1, MatchingDual
<1>3. absent
  BY <1>2 DEF NoneActive
<1>4. done.rows = R
  <2> DEFINE info == AddInfo(R, m, found)
             modified == [R EXCEPT ![i].oper = m.now.oper]
             gone == [R EXCEPT ![i].status = "deleted"]
  <2>1. \/ Cardinality(found) > 1 /\ done = [rows |-> R, verdict |-> "crash"]
        \/ /\ ~(Cardinality(found) > 1)
           /\ found = {} /\ m.now.data = "gone" /\ FALSE /\ done = InsertDeleted(R, m)
        \/ /\ ~(Cardinality(found) > 1)
           /\ absent /\ m.now.data = "gone" /\ done = [rows |-> R, verdict |-> "noop"]
        \/ /\ ~(Cardinality(found) > 1)
           /\ ~absent /\ found # {} /\ m.now.data = "gone"
           /\ done = [rows |-> gone, verdict |-> "delete"]
        \/ /\ ~(Cardinality(found) > 1)
           /\ absent /\ m.now.data = "member" /\ info.v4 = None /\ info.v6 = None
           /\ done = [rows |-> R, verdict |-> "noop"]
        \/ /\ ~(Cardinality(found) > 1)
           /\ absent /\ m.now.data = "member" /\ ~(info.v4 = None /\ info.v6 = None)
           /\ done = AddNetixlan(R, info)
        \/ /\ ~(Cardinality(found) > 1)
           /\ ~absent /\ found # {} /\ m.now.data = "member"
           /\ done = [rows |-> modified, verdict |-> "modify"]
    BY ApplyOneShape
  <2> HIDE DEF found, i, info, absent, done, gone, modified
  <2>2. QED BY <1>3, <2>1
<1>5. QED BY <1>4

(* ... and so does applying m with requirements that are gone already.     *)
LEMMA ApplyIdle ==
    ASSUME DualStacked, NEW R \in Table, Unshared(R), OnLan(R), Separate(R),
           NEW P, ProposalTable(P), NEW m \in Instance, m.now.data = "member",
           m.key.v4 \in Prefix \/ m.key.v6 \in Prefix,
           JoinedIn(R, m.key, m.now.oper) \/ Refused(R, m.key),
           \A k \in Dependents(P, {m.key}) \ {m.key} : P[k].data = "gone" /\ NoneActive(R, k)
    PROVE  Apply(R, P, m, FALSE).rows = R
<1> DEFINE X == {s \in Applying(P, m) : s.rows = R}
<1>1. [rows |-> R, verdict |-> "noop", left |-> Applied(P, m)] \in X
  BY ApplyingType
<1>2. ASSUME NEW s \in X PROVE ApplyNext(P, m, FALSE, s) \in X
  <2> DEFINE next == ApplyNext(P, m, FALSE, s)
  <2>1. s \in Applying(P, m) /\ s.rows = R
    OBVIOUS
  <2>2. \/ next = s
        \/ next.rows = s.rows /\ next.verdict = "crash"
        \/ Takes(s, next, ApplyOne(s.rows, m, FALSE), m.key)
        \/ \E k \in Dependents(P, {m.key}) \ {m.key} :
              /\ k \in DOMAIN P /\ FromTable(P, k) \in Instance
              /\ Takes(s, next, ApplyOne(s.rows, FromTable(P, k), FALSE), k)
    BY <2>1, ApplyNextShape
  <2>3. ApplyOne(R, m, FALSE).rows = R
    BY ApplyOneIdle
  <2>4. ASSUME NEW k \in Dependents(P, {m.key}) \ {m.key}, k \in DOMAIN P,
               FromTable(P, k) \in Instance
        PROVE  ApplyOne(R, FromTable(P, k), FALSE).rows = R
    <3> DEFINE n == FromTable(P, k)
    <3>1. n.key = k /\ n.now.data = "gone" /\ n \in Instance /\ NoneActive(R, k)
      BY <2>4 DEF FromTable
    <3> HIDE DEF n
    <3>2. ApplyOne(R, n, FALSE).rows = R
      BY <3>1, ApplyGoneIdle
    <3>3. QED BY <3>2 DEF n
  <2>5. next \in Applying(P, m)
    BY <2>1, ApplyingType
  <2> HIDE DEF X, next
  <2>6. next.rows = R
    BY <2>1, <2>2, <2>3, <2>4 DEF Takes
  <2>7. QED BY <2>5, <2>6 DEF X, next
<1> HIDE DEF X
<1>3. Apply(R, P, m, FALSE) \in X
  BY <1>1, <1>2, ApplyStays
<1>4. QED BY <1>3 DEF X

(* A second round for an entry of the list, when Quiet holds: it frees no  *)
(* ghosts, ...                                                             *)
LEMMA GhostsIdle ==
    ASSUME run.feed \in Feeds, NEW R \in Table, Separate(R), NEW m, OnList(m.key),
           ~Outside(m.key.v4), ~Outside(m.key.v6), NEW P, Quiet(run.feed, R, P)
    PROVE  FreeGhosts(R, m) = R
<1>1. ASSUME NEW j \in DOMAIN R PROVE FreeGhosts(R, m)[j] = R[j]
  <2>1. ASSUME Active(R[j]), R[j].asn # m.key.asn PROVE Apart(R[j], m.key)
    <3>1. SUFFICES ASSUME ~Apart(R[j], m.key) PROVE FALSE
      OBVIOUS
    <3>2. GivenBy(run.feed, R[j])
      BY <2>1, <3>1, OnListGives
    <3>3. R[j].here
      BY <2>1, <3>1 DEF Separate, Outside, Apart
    <3>4. OnList(KeyOf(R[j]))
      BY <2>1, <3>2, <3>3 DEF Quiet, Present, GivenBy, Entered, OnList
    <3>5. KeyOf(R[j]) # m.key
      BY <2>1 DEF KeyOf
    <3>6. Apart(KeyOf(R[j]), m.key)
      BY <3>4, <3>5, OnListApart
    <3>7. QED BY <3>1, <3>6, KeyApart
  <2>2. QED BY <2>1, FreedRow
<1>2. DOMAIN FreeGhosts(R, m) = DOMAIN R /\ FreeGhosts(R, m) \in Table
  BY FreeGhostsType DEF FreeGhosts
<1>3. QED BY <1>1, <1>2, SameRows

(* ... the entry is done, ...                                              *)
LEMMA EntryDone ==
    ASSUME DualStacked, run.feed \in Feeds, NEW R, NEW P, Quiet(run.feed, R, P),
           NEW e \in run.feed, net[e.asn].allow
    PROVE  Done(R, e)
<1>1. e \in Entry /\ (e.v4 # None \/ e.v6 # None)
  BY FeedType DEF Feeds
<1>2. CASE e.v4 \in Prefix \/ e.v6 \in Prefix
  <2>1. Wanted(e)
    BY <1>1, <1>2 DEF Wanted, DualStacked, Entry
  <2>2. QED BY <2>1 DEF Quiet
<1>3. CASE ~(e.v4 \in Prefix \/ e.v6 \in Prefix)
  BY <1>1, <1>3 DEF Done, Outside
<1>4. QED BY <1>2, <1>3

(* ... and nothing is written.                                             *)
LEMMA SaveIdle ==
    ASSUME DualStacked, NEW R \in Table, AddressInv(R, props), Separate(R),
           ProposalTable(props), SameNetwork(props), Untouched(props), run.feed \in Feeds,
           Quiet(run.feed, R, run.before.props), \A k \in run.ids : OnList(k),
           \A k \in run.ids : k.v4 \in Prefix \/ k.v6 \in Prefix,
           NEW m \in Instance, m.now.data = "member", FreshIn(m, run.ids),
           NEW deletions
    PROVE  Save(R, props, m, deletions).rows = R
<1>1. PICK e \in run.feed : KeyOf(e) = m.key /\ e.oper = m.now.oper
  BY FreshReq
<1>2. m.key \in Key /\ OnList(m.key) /\ m.key.asn = e.asn
  BY <1>1 DEF OnList, Instance, KeyOf
<1>3. Unshared(R) /\ OnLan(R)
  BY DEF AddressInv, OnLan
<1>4. ASSUME net[m.key.asn].allow PROVE Apply(R, props, m, FALSE).rows = R
  <2>1. JoinedIn(R, m.key, m.now.oper) \/ Refused(R, m.key)
    BY <1>1, <1>2, <1>4, EntryDone, DoneIs
  <2>2. ASSUME NEW k \in Dependents(props, {m.key}) \ {m.key}
        PROVE  props[k].data = "gone" /\ NoneActive(R, k)
    <3>1. Backed(run.feed, run.before.props)
      BY DEF Quiet
    <3>2. props[k].data = "gone" /\ ~OnList(k) /\ k.asn = m.key.asn
      BY <1>2, <1>4, <3>1, DependentsFound
    <3>3. ASSUME NEW j \in DOMAIN R, Active(R[j]), KeyOf(R[j]) = k PROVE FALSE
      <4>1. R[j].asn = k.asn /\ R[j].v4 = k.v4 /\ R[j].v6 = k.v6
        BY <3>3 DEF KeyOf
      <4>2. k \in DOMAIN props /\ props[k].req # None
        BY <1>2, DependentsOf
      <4>3. R[j].here
        BY <3>3, <4>1, <4>2 DEF AddressInv, Home, Touch, Apart
      <4>4. k.v4 # None \/ k.v6 # None
        BY <4>2 DEF AddressInv, Touch
      <4>5. QED BY <1>4, <3>2, <3>3, <4>1, <4>3, <4>4 DEF Quiet, Present, Entered, OnList
    <3>4. QED BY <3>2, <3>3 DEF NoneActive
  <2>3. m.key.v4 \in Prefix \/ m.key.v6 \in Prefix
    BY FreshFound
  <2>4. QED BY <1>3, <2>1, <2>2, <2>3, ApplyIdle
<1>5. ~Outside(m.key.v4) /\ ~Outside(m.key.v6) => FreeGhosts(R, m) = R
  BY <1>2, GhostsIdle
<1>6. SaveCase(R, props, m, deletions, Save(R, props, m, deletions), Apply(R, props, m, FALSE))
  BY SaveCases
<1>7. QED BY <1>4, <1>5, <1>6, SetAddRows DEF SaveCase, Becomes

(* No row is found for a deletion without addresses, which is no proposal's*)
(* requirement and has none.                                               *)
LEMMA DeleteAddressless ==
    ASSUME DualStacked, NEW R \in Table, NEW P, ProposalTable(P), NEW r \in Netixlan,
           r.v4 = None, r.v6 = None, \A j \in DOMAIN P : P[j].req # KeyOf(r)
    PROVE  Delete(R, P, r, FALSE).after.rows = R
<1> DEFINE k == KeyOf(r)
           m == Instantiate(P, k, "gone", r.oper)
           X == {s \in Applying(P, m) : s.rows = R}
<1>1. k \in Key /\ r.oper \in Operational /\ k.v4 = None /\ k.v6 = None
  BY KeyOfType DEF Netixlan, KeyOf
<1>2. Dependents(P, {k}) \ {k} = {}
  <2>1. {k} \cap DOMAIN P \in SUBSET DOMAIN P /\ Closed(P, {k} \cap DOMAIN P)
    BY DEF Closed
  <2> HIDE DEF k
  <2>2. QED BY <2>1 DEF Dependents
<1> HIDE DEF k
<1>3. m \in Instance /\ m.key = k /\ m.now.data = "gone"
  BY <1>1, InstantiateGone
<1> HIDE DEF m
<1>4. [rows |-> R, verdict |-> "noop", left |-> Applied(P, m)] \in X
  BY <1>3, ApplyingType
<1>5. ASSUME NEW s \in X PROVE ApplyNext(P, m, FALSE, s) \in X
  <2> DEFINE next == ApplyNext(P, m, FALSE, s)
  <2>1. s \in Applying(P, m) /\ s.rows = R
    OBVIOUS
  <2>2. \/ next = s
        \/ next.rows = s.rows /\ next.verdict = "crash"
        \/ Takes(s, next, ApplyOne(s.rows, m, FALSE), m.key)
    BY <1>2, <1>3, <2>1, ApplyNextShape
  <2>3. ApplyOne(R, m, FALSE).rows = R
    BY <1>1, <1>3, ApplyGoneIdle DEF NoneActive
  <2>4. next \in Applying(P, m)
    BY <1>3, <2>1, ApplyingType
  <2> HIDE DEF X, next
  <2>5. next.rows = R
    BY <2>1, <2>2, <2>3 DEF Takes
  <2>6. QED BY <2>4, <2>5 DEF X, next
<1> HIDE DEF X
<1>6. Apply(R, P, m, FALSE).rows = R
  <2>1. Apply(R, P, m, FALSE) \in X
    BY <1>3, <1>4, <1>5, ApplyStays
  <2>2. QED BY <2>1 DEF X
<1>7. Deduped(P, k) = P
  BY <1>1, DedupedDual
<1>8. QED BY <1>6, <1>7 DEF Delete, k, m

(* A row that is kept although it is not on the list is not deleted.       *)
LEMMA DeleteIdle ==
    ASSUME NEW R, NEW P, NEW r, NEW reassigned, ~reassigned, ~net[r.asn].allow
    PROVE  Delete(R, P, r, reassigned).after.rows = R
  BY DEF Delete

(* What bars an entry still does after a step for an identity that shares  *)
(* no address with it.                                                     *)
LEMMA BarredStays ==
    ASSUME NEW R, NEW S, Away(R, S), NEW key, Stay(R, S, key), NEW k, Apart(key, k),
           Barred(R, k)
    PROVE  Barred(S, k)
<1>1. \E i \in DOMAIN S : ~S[i].here /\ S[i].asn = k.asn /\ ~Apart(S[i], k)
  <2>1. PICK i \in DOMAIN R : ~R[i].here /\ R[i].asn = k.asn /\ ~Apart(R[i], k)
    BY DEF Barred
  <2>2. /\ i \in DOMAIN S /\ ~S[i].here /\ S[i].asn = R[i].asn
        /\ S[i].v4 = R[i].v4 \/ (R[i].v4 = key.v4 /\ key.v4 # None)
        /\ S[i].v6 = R[i].v6 \/ (R[i].v6 = key.v6 /\ key.v6 # None)
    BY <2>1 DEF Stay
  <2>3. QED BY <2>1, <2>2 DEF Apart
<1>2. \A i \in DOMAIN S : ~S[i].here /\ S[i].asn # k.asn => Apart(S[i], k)
  BY DEF Away, Barred, Apart
<1>3. QED BY <1>1, <1>2 DEF Barred

LEMMA DoneStays ==
    ASSUME NEW R, NEW S, Away(R, S), NEW key \in run.ids, Sustained(R, S, key),
           Disjoint(run.ids), run.feed \in Feeds, NEW e \in run.feed, KeyOf(e) \in run.ids,
           KeyOf(e) # key, Done(R, e)
    PROVE  Done(S, e)
<1>1. e.oper \in Operational
  BY FeedType DEF Entry
<1>2. JoinedIn(R, KeyOf(e), e.oper) => JoinedIn(S, KeyOf(e), e.oper)
  BY <1>1 DEF Sustained
<1>3. Apart(key, KeyOf(e)) /\ Stay(R, S, key)
  BY DEF Disjoint, Sustained
<1>4. Refused(R, KeyOf(e)) => Refused(S, KeyOf(e))
  BY <1>3, BarredStays DEF Refused
<1>5. QED BY <1>2, <1>4, DoneIs

(* A proposal that remains is backed as it was; and so are those that a    *)
(* run writes for the networks that allow updates.                         *)
LEMMA BackedFewer ==
    ASSUME NEW F, NEW P, Backed(F, P), NEW Q,
           \A k \in DOMAIN Q : k \in DOMAIN P /\ Q[k] = P[k]
    PROVE  Backed(F, Q)
  BY DEF Backed

LEMMA UntouchedFewer ==
    ASSUME NEW P, Untouched(P), NEW Q, \A k \in DOMAIN Q : k \in DOMAIN P /\ Q[k] = P[k]
    PROVE  Untouched(Q)
  BY DEF Untouched

LEMMA UntouchedBacked ==
    ASSUME NEW P, Untouched(P), SameNetwork(P), Backed(run.feed, run.before.props)
    PROVE  Backed(run.feed, P)
<1> DEFINE B == run.before.props
<1>1. ASSUME NEW k \in DOMAIN P, net[k.asn].allow, P[k].req # None
      PROVE  /\ P[k].data = "gone" \/ Entered(run.feed, k)
             /\ k \in DOMAIN B /\ P[k].req = B[k].req
  BY <1>1 DEF Untouched, Backed, Entered, OnList
<1>2. ASSUME NEW k \in DOMAIN P, net[k.asn].allow, P[k].req # None, P[k].req \in DOMAIN P
      PROVE  P[P[k].req].req = None
  <2> DEFINE l == P[k].req
  <2>1. net[l.asn].allow
    BY <1>2 DEF SameNetwork
  <2>2. SUFFICES ASSUME P[l].req # None PROVE FALSE
    OBVIOUS
  <2>3. l \in DOMAIN B /\ B[l].req # None
    BY <1>1, <1>2, <2>1, <2>2
  <2>4. k \in DOMAIN B /\ B[k].req = l
    BY <1>1, <1>2
  <2>5. QED BY <1>2, <2>3, <2>4 DEF Backed
<1>3. QED BY <1>1, <1>2 DEF Backed

(* The parts of QuietInv, of any tables and what is left of the run: whose *)
(* the addresses are that were read, ...                                   *)
Owned(owner, phase, todo) ==
    \A e \in run.feed :
       (e.v4 \in Prefix \/ e.v6 \in Prefix) /\ ~(phase = "parse" /\ e \in todo) =>
       \A v \in {e.v4, e.v6} \ {None} : owner[v] = e.asn

(* ... that what is read has an address of the LAN, ...                    *)
Near(phase, todo, ids) ==
    /\ \A k \in ids : k.v4 \in Prefix \/ k.v6 \in Prefix
    /\ phase = "parse" => \A e \in todo : e.v4 \in Prefix \/ e.v6 \in Prefix

(* ... the connections that are still to be deleted, ...                   *)
Unlisted(todo, ids) ==
    \A i \in todo : Active(run.before.rows[i]) /\ KeyOf(run.before.rows[i]) \notin ids

(* ... and, in a run that is not excepted, what is active although its     *)
(* address is given away, and which entries are done.                      *)
QuietingIn(R, todo, ids, pending) ==
    /\ \A i \in DOMAIN R : Active(R[i]) /\ R[i].here /\ GivenBy(run.feed, R[i])
          => KeyOf(R[i]) \in ids \/ i \in todo
    /\ \A e \in run.feed : Wanted(e) => UnsavedIn(pending, e) \/ (todo = {} /\ Done(R, e))

(* QuietInv in terms of its parts.                                         *)
LEMMA QuietInRun ==
    ASSUME QuietInv, run \notin {Idle, Failed}
    PROVE  /\ Separate(rows) /\ Separate(run.before.rows)
           /\ last # None => Quiet(last, run.before.rows, run.before.props)
           /\ last = run.feed => rows = run.before.rows /\ Untouched(props)
           /\ Owned(run.owner, run.phase, run.todo) /\ Near(run.phase, run.todo, run.ids)
           /\ run.phase = "apply" => Unlisted(run.todo, run.ids)
           /\ run.phase = "apply" /\ Plain(run.before.props)
                => QuietingIn(rows, run.todo, run.ids, run.pending)
           /\ run.phase = "cleaned" /\ Plain(run.before.props) => Quiet(run.feed, rows, props)
<1>1. \A e : Unsaved(e) <=> UnsavedIn(run.pending, e)
  BY DEF Unsaved, UnsavedIn
<1>2. Owned(run.owner, run.phase, run.todo) /\ Near(run.phase, run.todo, run.ids)
  BY DEF QuietInv, Owned, Near
<1>3. run.phase = "apply" => Unlisted(run.todo, run.ids)
  BY DEF QuietInv, Unlisted
<1>4. run.phase = "apply" /\ Plain(run.before.props)
        => QuietingIn(rows, run.todo, run.ids, run.pending)
  BY <1>1 DEF QuietInv, QuietingIn
<1>5. QED BY <1>2, <1>3, <1>4 DEF QuietInv

(* What a step that changes no network does not change.                    *)
LEMMA QuietSame ==
    ASSUME UNCHANGED net
    PROVE  /\ \A R : Separate(R)' <=> Separate(R)
           /\ \A R, e : Done(R, e)' <=> Done(R, e)
           /\ \A F, R, P : Quiet(F, R, P)' <=> Quiet(F, R, P)
           /\ \A e : Wanted(e)' <=> Wanted(e)
           /\ \A F, r : GivenBy(F, r)' <=> GivenBy(F, r)
<1>1. \A R : Separate(R)' <=> Separate(R)
  BY DEF Separate, Active
<1>2. \A R, e : Done(R, e)' <=> Done(R, e)
  BY DEF Done, Barred, Apart, Outside, Active, KeyOf
<1>3. \A e : Wanted(e)' <=> Wanted(e)
  BY DEF Wanted
<1>4. \A F, P : Backed(F, P)' <=> Backed(F, P)
  BY DEF Backed, Entered, KeyOf
<1>5. \A F, r : GivenBy(F, r)' <=> GivenBy(F, r)
  BY DEF GivenBy
<1>6. \A F, R, P : Quiet(F, R, P)' <=> Quiet(F, R, P)
  BY <1>2, <1>3, <1>4, <1>5 DEF Quiet, Present, Entered, Active, KeyOf
<1>7. QED BY <1>1, <1>2, <1>3, <1>5, <1>6

(* What is left to show of a step within a run ...                         *)
LEMMA KeepQuiet ==
    ASSUME UNCHANGED <<net, last>>, run' \notin {Idle, Failed},
           run'.feed = run.feed, run'.before = run.before,
           Separate(rows'), Separate(run.before.rows),
           last # None => Quiet(last, run.before.rows, run.before.props),
           last = run.feed => rows' = run.before.rows /\ Untouched(props'),
           Owned(run'.owner, run'.phase, run'.todo), Near(run'.phase, run'.todo, run'.ids),
           run'.phase = "apply" => Unlisted(run'.todo, run'.ids),
           run'.phase = "apply" /\ Plain(run.before.props)
              => QuietingIn(rows', run'.todo, run'.ids, run'.pending),
           run'.phase = "cleaned" /\ Plain(run.before.props) => Quiet(run.feed, rows', props')
    PROVE  QuietInv'
<1>1. /\ \A R : Separate(R)' <=> Separate(R)
      /\ \A R, e : Done(R, e)' <=> Done(R, e)
      /\ \A F, R, P : Quiet(F, R, P)' <=> Quiet(F, R, P)
      /\ \A e : Wanted(e)' <=> Wanted(e)
      /\ \A F, r : GivenBy(F, r)' <=> GivenBy(F, r)
  BY QuietSame
<1>2. Plain(run.before.props)' <=> Plain(run.before.props)
  BY DEF Plain, Stale, Chained
<1>3. Separate(rows)' /\ Separate(run.before.rows)'
  BY DEF Separate, Active
<1>4. \A e : UnsavedIn(run'.pending, e) <=> Unsaved(e)'
  BY DEF UnsavedIn, Unsaved, KeyOf
<1>5. ASSUME last' # None PROVE Quiet(last, run.before.rows, run.before.props)'
  <2>1. Quiet(last, run.before.rows, run.before.props)
    BY <1>5
  <2>2. \A i \in DOMAIN run'.before.rows :
           Present(run.before.rows[i])' =>
           \/ Entered(last, KeyOf(run.before.rows[i]))'
           \/ ~net'[run'.before.rows[i].asn].allow /\ ~GivenBy(last, run.before.rows[i])'
    BY <2>1 DEF Quiet, Present, Entered, GivenBy, Active, KeyOf
  <2>3. \A e : Done(run.before.rows, e) => Done(run.before.rows, e)'
    BY DEF Done, Barred, Apart, Outside, Active, KeyOf
  <2>4. \A e \in last' : Wanted(e)' => Done(run.before.rows, e)'
    BY <1>1, <2>1, <2>3 DEF Quiet
  <2>5. Backed(last, run.before.props)'
    BY <2>1 DEF Quiet, Backed, Entered, KeyOf
  <2>6. QED BY <2>2, <2>4, <2>5 DEF Quiet
<1>6. last' = run'.feed => rows' = run'.before.rows /\ Untouched(props)'
  BY DEF Untouched, OnList, KeyOf
<1>7. \A e \in run'.feed :
         (e.v4 \in Prefix \/ e.v6 \in Prefix) /\ ~(run'.phase = "parse" /\ e \in run'.todo) =>
         \A v \in {e.v4, e.v6} \ {None} : run'.owner[v] = e.asn
  BY DEF Owned
<1>8. /\ \A k \in run'.ids : k.v4 \in Prefix \/ k.v6 \in Prefix
      /\ run'.phase = "parse" => \A e \in run'.todo : e.v4 \in Prefix \/ e.v6 \in Prefix
  BY DEF Near
<1>9. run'.phase = "apply" => \A i \in run'.todo :
         Active(run.before.rows[i])' /\ KeyOf(run.before.rows[i])' \notin run'.ids
  BY DEF Unlisted, Active, KeyOf
<1>10. ASSUME run'.phase = "apply", Plain(run.before.props)'
       PROVE  /\ \A i \in DOMAIN rows' :
                    Active(rows[i])' /\ rows'[i].here /\ GivenBy(run.feed, rows[i])'
                    => KeyOf(rows[i])' \in run'.ids \/ i \in run'.todo
              /\ \A e \in run'.feed : Wanted(e)'
                    => Unsaved(e)' \/ (run'.todo = {} /\ Done(rows, e)')
  <2>1. QuietingIn(rows', run'.todo, run'.ids, run'.pending)
    BY <1>2, <1>10
  <2>2. \A i \in DOMAIN rows' : Active(rows[i])' /\ rows'[i].here /\ GivenBy(run.feed, rows[i])'
           => KeyOf(rows[i])' \in run'.ids \/ i \in run'.todo
    BY <2>1 DEF QuietingIn, Active, GivenBy, KeyOf
  <2>3. \A e : Done(rows', e) => Done(rows, e)'
    BY DEF Done, Barred, Apart, Outside, Active, KeyOf
  <2>4. QED BY <1>1, <1>4, <2>1, <2>2, <2>3 DEF QuietingIn
<1>11. run'.phase = "cleaned" /\ Plain(run.before.props)' => Quiet(run.feed, rows, props)'
  <2>1. SUFFICES ASSUME Quiet(run.feed, rows', props') PROVE Quiet(run.feed, rows, props)'
    BY <1>2
  <2>2. \A i \in DOMAIN rows' : Present(rows[i])' =>
           \/ Entered(run.feed, KeyOf(rows[i]))'
           \/ ~net'[rows'[i].asn].allow /\ ~GivenBy(run.feed, rows[i])'
    BY <2>1 DEF Quiet, Present, Entered, GivenBy, Active, KeyOf
  <2>3. \A e : Done(rows', e) => Done(rows, e)'
    BY DEF Done, Barred, Apart, Outside, Active, KeyOf
  <2>4. \A e \in run'.feed : Wanted(e)' => Done(rows, e)'
    BY <1>1, <2>1, <2>3 DEF Quiet
  <2>5. Backed(run.feed, props)'
    BY <2>1 DEF Quiet, Backed, Entered, KeyOf
  <2>6. QED BY <2>2, <2>4, <2>5 DEF Quiet
<1>12. SecondRunIdle'
  BY <1>6 DEF SecondRunIdle, Cleaned
<1>13. QED BY <1>3, <1>5, <1>6, <1>7, <1>8, <1>9, <1>10, <1>11, <1>12 DEF QuietInv

(* ... and of one that leaves it, or that is taken outside of it.          *)
LEMMA LeaveQuiet ==
    ASSUME Separate(rows'), run' \in {Idle, Failed}, last' = None
    PROVE  QuietInv'
<1>1. Separate(rows)'
  BY DEF Separate, Active
<1>2. ~Cleaned'
  BY DEF Cleaned, Idle, Failed
<1>3. QED BY <1>1, <1>2 DEF QuietInv, SecondRunIdle

LEMMA FailQuiet ==
    ASSUME QuietInv, run \notin {Idle, Failed}, Fail
    PROVE  QuietInv'
  BY QuietInRun, LeaveQuiet DEF Fail

LEMMA StartQuiet ==
    ASSUME QuietInv, NEW F \in Feeds, Start(F)
    PROVE  QuietInv'
<1>1. /\ run'.phase = "parse" /\ run'.feed = F
      /\ run'.todo = {e \in F : e.v4 \in Prefix \/ e.v6 \in Prefix} /\ run'.ids = {}
      /\ run'.before = [rows |-> rows, props |-> props]
      /\ run \in {Idle, Failed} /\ UNCHANGED <<net, rows, props, last>>
  BY DEF Start
<1>2. run'.before.rows = rows /\ run'.before.props = props
  BY <1>1
<1>3. Separate(rows)' /\ Separate(run.before.rows)'
  BY <1>1, <1>2 DEF QuietInv, Separate, Active
<1>4. ASSUME last' # None PROVE Quiet(last, run.before.rows, run.before.props)'
  <2>1. Quiet(last, rows, props)
    BY <1>1, <1>4 DEF QuietInv
  <2>2. \A i \in DOMAIN run'.before.rows :
           Present(run.before.rows[i])' =>
           \/ Entered(last, KeyOf(run.before.rows[i]))'
           \/ ~net'[run'.before.rows[i].asn].allow /\ ~GivenBy(last, run.before.rows[i])'
    BY <1>1, <1>2, <2>1 DEF Quiet, Present, Entered, GivenBy, Active, KeyOf
  <2>3. \A e : Done(rows, e) => Done(run.before.rows, e)'
    BY <1>1, <1>2 DEF Done, Barred, Apart, Outside, Active, KeyOf
  <2>4. \A e \in last' : Wanted(e)' => Done(run.before.rows, e)'
    BY <1>1, <2>1, <2>3 DEF Quiet, Wanted
  <2>5. Backed(last, run.before.props)'
    BY <1>1, <1>2, <2>1 DEF Quiet, Backed, Entered, KeyOf
  <2>6. QED BY <2>2, <2>4, <2>5 DEF Quiet
<1>5. rows' = run'.before.rows /\ Untouched(props)'
  BY <1>1, <1>2 DEF Untouched
<1>6. \A e \in run'.feed : e.v4 \in Prefix \/ e.v6 \in Prefix =>
         run'.phase = "parse" /\ e \in run'.todo
  BY <1>1
<1>7. /\ \A k \in run'.ids : k.v4 \in Prefix \/ k.v6 \in Prefix
      /\ \A e \in run'.todo : e.v4 \in Prefix \/ e.v6 \in Prefix
  BY <1>1
<1>8. ~Cleaned' /\ run'.phase # "apply" /\ run'.phase # "cleaned"
      /\ run' \notin {Idle, Failed}
  BY <1>1 DEF Cleaned, Idle, Failed
<1>9. QED BY <1>3, <1>4, <1>5, <1>6, <1>8, <1>7 DEF QuietInv, SecondRunIdle

LEMMA ParseQuiet ==
    ASSUME TypeInv, AllowInv, ConvergeInv, QuietInv, NEW e \in run.todo, Parse(e)
    PROVE  QuietInv'
<1> USE ImportAssumption
<1>1. Working(run) /\ ProposalTable(props) /\ run \notin {Idle, Failed} /\ run.phase = "parse"
  BY InRun, InUse, NotIdle DEF TypeInv, Parse
<1>2. run.feed \in Feeds /\ e \in run.feed /\ e \in Entry /\ KeyOf(e) \in Key
  <2>1. e \in run.feed /\ e \in Entry /\ run.feed \in Feeds
    BY <1>1, FeedType DEF Working
  <2>2. QED BY <2>1, KeyOfType DEF Entry
<1>3. DualStacked
  BY <1>1, AllowInRun
<1>4. props' = props
  BY <1>1, <1>2, <1>3, DedupedDual DEF Parse
<1>5. /\ Separate(rows) /\ Separate(run.before.rows)
      /\ last # None => Quiet(last, run.before.rows, run.before.props)
      /\ last = run.feed => rows = run.before.rows /\ Untouched(props)
      /\ Owned(run.owner, run.phase, run.todo) /\ Near(run.phase, run.todo, run.ids)
  BY <1>1, QuietInRun
<1>6. IdsOf(e) = {KeyOf(e)}
  BY <1>2, <1>3 DEF IdsOf, DualStacked, Entry
<1>7. UNION {{k.v4, k.v6} : k \in IdsOf(e)} = {e.v4, e.v6}
  BY <1>6 DEF KeyOf
<1>8. /\ run'.feed = run.feed /\ run'.before = run.before /\ run'.phase = "parse"
      /\ run'.todo = run.todo \ {e} /\ run'.ids = run.ids \cup IdsOf(e)
      /\ run'.owner = [v \in V4 \cup V6 |-> IF v \in {e.v4, e.v6} THEN e.asn ELSE run.owner[v]]
      /\ rows' = rows /\ UNCHANGED <<net, last>>
  BY <1>1, <1>7 DEF Parse, Working
<1>9. ASSUME NEW f \in run.feed, f.v4 \in Prefix \/ f.v6 \in Prefix, f \notin run'.todo,
             NEW v \in {f.v4, f.v6} \ {None}
      PROVE  run'.owner[v] = f.asn
  <2>1. f \in Entry
    BY <1>2, FeedType
  <2>2. v \in V4 \cup V6
    BY <2>1 DEF Entry
  <2>3. CASE f = e
    BY <1>8, <2>2, <2>3
  <2>4. CASE f # e
    <3>1. run.owner[v] = f.asn
      BY <1>5, <1>8, <1>9, <2>4 DEF Owned
    <3>2. Apart(f, e)
      BY <1>2, <2>4, FeedApart
    <3>3. v \notin {e.v4, e.v6}
      BY <1>2, <2>1, <3>2 DEF Apart, Entry
    <3>4. QED BY <1>8, <2>2, <3>1, <3>3
  <2>5. QED BY <2>3, <2>4
<1>10. Owned(run'.owner, run'.phase, run'.todo)
  BY <1>8, <1>9 DEF Owned
<1>11. Near(run'.phase, run'.todo, run'.ids)
  <2>1. e.v4 \in Prefix \/ e.v6 \in Prefix
    BY <1>1, <1>5 DEF Near
  <2>2. run'.ids = run.ids \cup {KeyOf(e)} /\ KeyOf(e).v4 = e.v4 /\ KeyOf(e).v6 = e.v6
    BY <1>6, <1>8 DEF KeyOf
  <2>3. QED BY <1>1, <1>5, <1>8, <2>1, <2>2 DEF Near
<1>12. run' \notin {Idle, Failed} /\ run'.phase # "apply" /\ run'.phase # "cleaned"
  BY <1>8 DEF Idle, Failed
<1>13. QED BY <1>4, <1>5, <1>8, <1>10, <1>12, <1>11, KeepQuiet

LEMMA BeginDeletionsQuiet ==
    ASSUME TypeInv, AllowInv, ConvergeInv, QuietInv, BeginDeletions
    PROVE  QuietInv'
<1>1. Working(run) /\ run \notin {Idle, Failed} /\ run.phase = "parse" /\ run.todo = {}
      /\ rows = run.before.rows
  BY InRun, NotIdle DEF TypeInv, BeginDeletions
<1>2. Seen(run.phase, run.todo, run.ids, run.pending)
  BY <1>1, ConvergeInRun
<1>3. /\ Separate(rows) /\ Separate(run.before.rows)
      /\ last # None => Quiet(last, run.before.rows, run.before.props)
      /\ last = run.feed => rows = run.before.rows /\ Untouched(props)
      /\ Owned(run.owner, run.phase, run.todo) /\ Near(run.phase, run.todo, run.ids)
  BY <1>1, QuietInRun
<1>4. /\ run'.feed = run.feed /\ run'.before = run.before /\ run'.phase = "apply"
      /\ run'.todo = {i \in DOMAIN rows : /\ Active(rows[i]) /\ rows[i].here
                                          /\ KeyOf(rows[i]) \notin run.ids}
      /\ run'.ids = run.ids /\ run'.pending = run.pending /\ run'.owner = run.owner
      /\ props' = props /\ rows' = rows /\ UNCHANGED <<net, last>>
  BY <1>1 DEF BeginDeletions, Working
<1>5. Owned(run'.owner, run'.phase, run'.todo) /\ Near(run'.phase, run'.todo, run'.ids)
  BY <1>1, <1>3, <1>4 DEF Owned, Near
<1>6. Unlisted(run'.todo, run'.ids)
  BY <1>1, <1>4 DEF Unlisted
<1>7. \A e \in run.feed : Wanted(e) => UnsavedIn(run'.pending, e)
  BY <1>1, <1>2, <1>4 DEF Wanted, Seen
<1>8. QuietingIn(rows', run'.todo, run'.ids, run'.pending)
  BY <1>3, <1>4, <1>7 DEF QuietingIn, Separate
<1>9. run' \notin {Idle, Failed} /\ run'.phase # "cleaned"
  BY <1>4 DEF Idle, Failed
<1>10. QED BY <1>3, <1>4, <1>5, <1>6, <1>8, <1>9, KeepQuiet

(* What the list gives to another network is reassigned, of the LAN.       *)
LEMMA GivenReassigned ==
    ASSUME run.feed \in Feeds, NEW todo, Owned(run.owner, "apply", todo), NEW r,
           ~Outside(r.v4), ~Outside(r.v6), GivenBy(run.feed, r)
    PROVE  Reassigned(r)
<1> USE ImportAssumption
<1>1. PICK e \in run.feed : /\ e.asn # r.asn
                            /\ \/ r.v4 # None /\ e.v4 = r.v4
                               \/ r.v6 # None /\ e.v6 = r.v6
  BY DEF GivenBy
<1>2. e.v4 \in Prefix \/ e.v6 \in Prefix
  BY <1>1 DEF Outside
<1>3. \A v \in {e.v4, e.v6} \ {None} : run.owner[v] = e.asn
  BY <1>2 DEF Owned
<1>4. e.asn \in Asns
  BY FeedType DEF Entry
<1>5. QED BY <1>1, <1>3, <1>4 DEF Reassigned

(* A connection that is to be deleted is not on the list.                  *)
LEMMA UnlistedRow ==
    ASSUME run.feed \in Feeds, NEW todo, NEW pending, Seen("apply", todo, run.ids, pending),
           NEW r, r.here, ~Outside(r.v4), ~Outside(r.v6), KeyOf(r) \notin run.ids
    PROVE  ~Entered(run.feed, KeyOf(r))
<1>1. SUFFICES ASSUME NEW e \in run.feed, KeyOf(e) = KeyOf(r) PROVE FALSE
  BY DEF Entered
<1>2. e.v4 = r.v4 /\ e.v6 = r.v6
  BY <1>1 DEF KeyOf
<1>3. e.v4 # None \/ e.v6 # None
  BY DEF Feeds
<1>4. e.v4 \in Prefix \/ e.v6 \in Prefix
  BY <1>2, <1>3 DEF Outside
<1>5. QED BY <1>1, <1>4 DEF Seen

(* A second run deletes nothing, and a first one what the list gives away. *)
LEMMA DeleteStepQuiet ==
    ASSUME TypeInv, AllowInv, ConvergeInv, QuietInv, NEW i \in run.todo, DeleteStep(i)
    PROVE  QuietInv'
<1> DEFINE r == run.before.rows[i]
           done == Delete(rows, props, r, Reassigned(r))
           S == done.after.rows
           Q == done.after.props
<1>1. /\ rows \in Table /\ ProposalTable(props) /\ Working(run) /\ run.feed \in Feeds
      /\ run.phase = "apply" /\ run \notin {Idle, Failed}
  BY InUse, InRun, NotIdle DEF TypeInv, DeleteStep, Working
<1>2. r \in Netixlan /\ i \in DOMAIN run.before.rows
  <2>1. i \in DOMAIN run.before.rows /\ run.before.rows \in Table
    BY <1>1, TablesShape DEF Working
  <2>2. QED BY <2>1, RowType
<1>3. DualStacked /\ Owners(run.owner) /\ (~Stale(run.before.props) => Inherited(props))
  BY <1>1, AllowInRun
<1>4. /\ AddressInv(rows, props)
      /\ AddressInv(run.before.rows, run.before.props)
      /\ Seen(run.phase, run.todo, run.ids, run.pending)
      /\ \A j \in run.todo : run.before.rows[j].here
      /\ Plain(run.before.props) => ConvergingIn(rows, props, run.todo, run.ids, run.pending)
  BY <1>1, ConvergeInRun
<1>5. /\ Separate(rows) /\ Separate(run.before.rows)
      /\ last # None => Quiet(last, run.before.rows, run.before.props)
      /\ last = run.feed => rows = run.before.rows /\ Untouched(props)
      /\ Owned(run.owner, run.phase, run.todo) /\ Near(run.phase, run.todo, run.ids)
      /\ Unlisted(run.todo, run.ids)
      /\ Plain(run.before.props) => QuietingIn(rows, run.todo, run.ids, run.pending)
  BY <1>1, QuietInRun
<1>6. r.here /\ ~Outside(r.v4) /\ ~Outside(r.v6) /\ Active(r) /\ KeyOf(r) \notin run.ids
  BY <1>2, <1>4, <1>5 DEF AddressInv, Unlisted
<1>7. last = run.feed =>
         ~GivenBy(run.feed, r) /\ (~net[r.asn].allow \/ (r.v4 = None /\ r.v6 = None))
  <2>1. SUFFICES ASSUME last = run.feed, r.v4 # None \/ r.v6 # None
                 PROVE  ~net[r.asn].allow /\ ~GivenBy(run.feed, r)
    BY DEF GivenBy
  <2>2. run.feed # None
    BY <1>1, FeedAssumption
  <2>3. ~Entered(run.feed, KeyOf(r))
    BY <1>1, <1>4, <1>6, UnlistedRow
  <2>4. QED BY <1>2, <1>5, <1>6, <2>1, <2>2, <2>3 DEF Quiet, Present
<1> HIDE DEF r
<1>8. Reassigned(r) \in BOOLEAN
  BY DEF Reassigned
<1>9. GivenAway(r) <=> GivenBy(run.feed, r)
  BY DEF GivenAway
<1>10. GivenBy(run.feed, r) <=> Reassigned(r)
  BY <1>1, <1>2, <1>3, <1>5, <1>6, <1>9, GivenReassigned, ReassignedGivenAway
<1>11. /\ done.m.key = KeyOf(r)
       /\ Kept(rows, S)
       /\ (\A k \in DOMAIN props : props[k].req # None => props[k].data = "gone") =>
            /\ Lesser(rows, S)
            /\ (Reassigned(r) \/ net[r.asn].allow) /\ ~Stopped(done.after)
                 => NoneActive(S, KeyOf(r))
  BY <1>1, <1>2, <1>3, <1>6, <1>8, DeleteRows
<1>12. OwnerWrites(props, Q, r)
  BY <1>1, <1>2, <1>3, <1>8, DeleteProps
<1>13. last = run.feed => S = rows
  <2>1. CASE r.v4 = None /\ r.v6 = None
    <3>1. ASSUME NEW j \in DOMAIN props, props[j].req = KeyOf(r) PROVE FALSE
      <4>1. KeyOf(r) # None
        BY <1>2, KeyOfType, KeyAssumption DEF Netixlan
      <4>2. Touch(j, KeyOf(r))
        BY <1>4, <3>1, <4>1 DEF AddressInv
      <4>3. QED BY <2>1, <4>2 DEF Touch, KeyOf
    <3>2. Reassigned(r) = FALSE
      BY <2>1 DEF Reassigned
    <3>3. \A j \in DOMAIN props : props[j].req # KeyOf(r)
      BY <3>1
    <3>4. Delete(rows, props, r, FALSE).after.rows = rows
      <4>1. rows \in Table /\ ProposalTable(props) /\ r \in Netixlan /\ DualStacked
        BY <1>1, <1>2, <1>3
      <4>2. QED BY ONLY <2>1, <3>3, <4>1, DeleteAddressless
    <3>5. QED BY <3>2, <3>4
  <2>2. CASE ~(r.v4 = None /\ r.v6 = None)
    BY <1>7, <1>8, <1>10, <2>2, DeleteIdle
  <2>3. QED BY <2>1, <2>2
<1>14. /\ IF Stopped(done.after) THEN Fail
          ELSE /\ rows' = S
               /\ props' = Q
               /\ run' = [run EXCEPT !.todo = @ \ {i},
                                     !.deletions = {d \in @ : d.key # done.m.key} \cup {done.m},
                                     !.seen = @ \cup {done.m.key}]
               /\ UNCHANGED last
       /\ UNCHANGED <<net, runs, edits>>
  BY DEF DeleteStep, r
<1> HIDE DEF done, S, Q
<1>15. CASE Stopped(done.after)
  BY <1>1, <1>14, <1>15, FailQuiet
<1>16. CASE ~Stopped(done.after)
  <2>1. /\ run'.feed = run.feed /\ run'.before = run.before /\ run'.phase = "apply"
        /\ run'.todo = run.todo \ {i} /\ run'.ids = run.ids /\ run'.pending = run.pending
        /\ run'.owner = run.owner
        /\ props' = Q /\ rows' = S /\ UNCHANGED <<net, last>>
    BY <1>1, <1>14, <1>16 DEF Working
  <2>2. Separate(rows')
    BY <1>5, <1>11, <2>1, SeparateKept DEF Kept
  <2>3. last = run.feed => rows' = run.before.rows /\ Untouched(props')
    <3>1. SUFFICES ASSUME last = run.feed PROVE rows' = run.before.rows /\ Untouched(Q)
      BY <2>1
    <3>2. Untouched(props)
      BY <1>5, <3>1
    <3>3. \A k \in DOMAIN Q : net[k.asn].allow => k \in DOMAIN props /\ Q[k] = props[k]
      BY <1>12 DEF OwnerWrites, KeyOf
    <3>4. Untouched(Q)
      BY <3>2, <3>3 DEF Untouched
    <3>5. QED BY <1>5, <1>13, <2>1, <3>1, <3>4
  <2>4. /\ Owned(run'.owner, run'.phase, run'.todo) /\ Near(run'.phase, run'.todo, run'.ids)
        /\ Unlisted(run'.todo, run'.ids)
    BY <1>1, <1>5, <2>1 DEF Owned, Near, Unlisted
  <2>5. ASSUME Plain(run.before.props)
        PROVE  QuietingIn(S, run.todo \ {i}, run.ids, run.pending)
    <3>1. Fewest(rows)
      BY <1>4, <2>5 DEF ConvergingIn
    <3>2. /\ Lesser(rows, S)
          /\ Reassigned(r) => NoneActive(S, KeyOf(r))
      BY <1>3, <1>11, <1>16, <2>5 DEF Plain, Inherited
    <3>3. ASSUME NEW j \in DOMAIN S, Active(S[j]), S[j].here, GivenBy(run.feed, S[j]),
                 KeyOf(S[j]) \notin run.ids
          PROVE  j \in run.todo \ {i}
      <4>1. j \in DOMAIN rows /\ S[j] = rows[j]
        BY <3>2, <3>3 DEF Lesser
      <4>2. j \in run.todo
        BY <1>5, <2>5, <3>3, <4>1 DEF QuietingIn
      <4>3. ASSUME j = i PROVE FALSE
        <5>1. S[j] = r
          BY <3>1, <3>3, <4>1, <4>3 DEF Fewest, r
        <5>2. r.v4 # None \/ r.v6 # None
          BY <3>3, <5>1 DEF GivenBy
        <5>3. QED BY <1>10, <3>2, <3>3, <5>1, <5>2 DEF NoneActive, KeyOf
      <4>4. QED BY <4>2, <4>3
    <3>4. \A e \in run.feed : Wanted(e) => UnsavedIn(run.pending, e)
      BY <1>5, <2>5 DEF QuietingIn
    <3>5. QED BY <3>3, <3>4 DEF QuietingIn
  <2>6. run' \notin {Idle, Failed} /\ run'.phase # "cleaned"
    BY <2>1 DEF Idle, Failed
  <2>7. Plain(run.before.props) => QuietingIn(rows', run'.todo, run'.ids, run'.pending)
    BY <2>1, <2>5
  <2>8. QED BY <1>5, <2>1, <2>2, <2>3, <2>4, <2>6, <2>7, KeepQuiet
<1>17. QED BY <1>15, <1>16

(* A second run saves nothing, and a first one gets the entry done.        *)
LEMMA SaveStepQuiet ==
    ASSUME TypeInv, AllowInv, ConvergeInv, QuietInv, SaveStep
    PROVE  QuietInv'
<1> DEFINE m == Head(run.pending)
           done == Save(rows, props, m, run.deletions)
           S == done.rows
           Q == done.props
<1>1. /\ rows \in Table /\ ProposalTable(props) /\ Working(run)
      /\ run.phase = "apply" /\ run \notin {Idle, Failed} /\ run.todo = {}
      /\ run.feed \in Feeds /\ run.deletions \in SUBSET Instance
      /\ run.pending \in Seq(Instance) /\ run.pending # <<>>
      /\ ProposalTable(run.before.props)
  BY InUse, InRun, NotIdle, TablesShape DEF TypeInv, SaveStep, Working
<1>2. /\ DualStacked /\ SameNetwork(props)
      /\ \A i \in DOMAIN run.pending : Saving(run.pending[i])
  BY <1>1, AllowInRun
<1>3. /\ AddressInv(rows, props)
      /\ AddressInv(run.before.rows, run.before.props)
      /\ Away(run.before.rows, rows)
      /\ \A j \in DOMAIN run.pending : FreshIn(run.pending[j], run.ids)
      /\ \A k \in run.ids : OnList(k)
      /\ Seen(run.phase, run.todo, run.ids, run.pending)
      /\ Plain(run.before.props) => ConvergingIn(rows, props, run.todo, run.ids, run.pending)
  BY <1>1, ConvergeInRun
<1>4. /\ Separate(rows) /\ Separate(run.before.rows)
      /\ last # None => Quiet(last, run.before.rows, run.before.props)
      /\ last = run.feed => rows = run.before.rows /\ Untouched(props)
      /\ Owned(run.owner, run.phase, run.todo) /\ Near(run.phase, run.todo, run.ids)
      /\ Plain(run.before.props) => QuietingIn(rows, run.todo, run.ids, run.pending)
  BY <1>1, QuietInRun
<1>5. m = run.pending[1] /\ 1 \in DOMAIN run.pending /\ m \in Instance
  BY <1>1
<1> HIDE DEF m
<1>6. Saving(m) /\ m.now.data = "member" /\ FreshIn(m, run.ids) /\ m.key \in run.ids
  BY <1>2, <1>3, <1>5, FreshFound DEF Saving
<1>7. Kept(rows, S)
  BY <1>1, <1>5, <1>6, SaveKept
<1>8. last = run.feed => S = rows /\ Untouched(Q)
  <2>1. SUFFICES ASSUME last = run.feed PROVE S = rows /\ Untouched(Q)
    OBVIOUS
  <2>2. Quiet(run.feed, rows, run.before.props) /\ Untouched(props)
    BY <1>1, <1>4, <2>1, FeedAssumption
  <2>3. S = rows
    <3>1. \A k \in run.ids : k.v4 \in Prefix \/ k.v6 \in Prefix
      BY <1>4 DEF Near
    <3>2. QED BY <1>1, <1>2, <1>3, <1>4, <1>5, <1>6, <2>2, <3>1, SaveIdle
  <2>4. Untouched(Q)
    BY <1>1, <1>5, <1>6, <2>2, SaveUntouched
  <2>5. QED BY <2>3, <2>4
<1>9. /\ IF done.verdict = "crash" \/ ~ForeignKeys(Q) THEN Fail
         ELSE /\ rows' = S
              /\ props' = Q
              /\ run' = [run EXCEPT !.pending = Tail(@)]
              /\ UNCHANGED last
      /\ UNCHANGED <<net, runs, edits>>
  BY DEF SaveStep, m
<1>10. CASE done.verdict = "crash" \/ ~ForeignKeys(Q)
  <2>1. Fail
    BY <1>9, <1>10
  <2>2. QED BY <1>1, <2>1, FailQuiet
<1>11. CASE ~(done.verdict = "crash" \/ ~ForeignKeys(Q))
  <2>1. /\ run'.feed = run.feed /\ run'.before = run.before /\ run'.phase = "apply"
        /\ run'.todo = {} /\ run'.ids = run.ids /\ run'.pending = Tail(run.pending)
        /\ run'.owner = run.owner
        /\ props' = Q /\ rows' = S /\ UNCHANGED <<net, last>>
    <3> HIDE DEF done, S, Q
    <3>1. QED BY <1>1, <1>9, <1>11 DEF Working
  <2>2. ASSUME NEW j \in DOMAIN run.pending, j # 1
        PROVE  j - 1 \in DOMAIN run'.pending /\ run'.pending[j - 1] = run.pending[j]
    BY <1>1, <2>1, <2>2
  <2>3. ASSUME Plain(run.before.props)
        PROVE  QuietingIn(S, {}, run.ids, run'.pending)
    <3>1. /\ OnIdsOr(rows, run.ids, {}) /\ Untouched(props) /\ AsFound(props, m)
      BY <1>1, <1>3, <1>5, <2>3 DEF ConvergingIn
    <3>2. /\ \A i \in DOMAIN rows : Active(rows[i]) /\ rows[i].here /\ GivenBy(run.feed, rows[i])
                => KeyOf(rows[i]) \in run.ids
          /\ \A e \in run.feed : Wanted(e) => UnsavedIn(run.pending, e) \/ Done(rows, e)
      BY <1>1, <1>4, <2>3 DEF QuietingIn
    <3>3. Confined(rows)
      BY <1>4, <3>1, <3>2 DEF Confined, OnIds, GivenOn, OnIdsOr
    <3>4. /\ Sustained(rows, S, m.key)
          /\ \A e \in run.feed : KeyOf(e) = m.key /\ net[e.asn].allow => Done(S, e)
      BY <1>1, <1>2, <1>3, <1>4, <1>5, <1>6, <1>11, <2>3, <3>1, SaveSettles
    <3>5. Confined(S)
      BY <3>3, <3>4 DEF Sustained
    <3>6. Disjoint(run.ids)
      BY <1>1, <1>3, IdsDisjoint
    <3>7. ASSUME NEW e \in run.feed, Wanted(e)
          PROVE  UnsavedIn(run'.pending, e) \/ Done(S, e)
      <4>1. net[e.asn].allow /\ KeyOf(e) \in run.ids
        BY <1>1, <1>3, <3>7 DEF Wanted, Seen
      <4>2. CASE KeyOf(e) = m.key
        BY <3>4, <4>1, <4>2
      <4>3. CASE KeyOf(e) # m.key
        <5>1. CASE UnsavedIn(run.pending, e)
          <6>1. PICK j \in DOMAIN run.pending : run.pending[j].key = KeyOf(e)
            BY <5>1 DEF UnsavedIn
          <6>2. j # 1
            BY <1>5, <4>3, <6>1
          <6>3. UnsavedIn(run'.pending, e)
            BY <2>2, <6>1, <6>2 DEF UnsavedIn
          <6>4. QED BY <6>3
        <5>2. CASE Done(rows, e)
          <6>1. Away(rows, S)
            BY <1>7 DEF Kept
          <6>2. Done(S, e)
            BY <1>1, <1>6, <3>4, <3>6, <4>1, <4>3, <5>2, <6>1, DoneStays
          <6>3. QED BY <6>2
        <5>3. QED BY <3>2, <3>7, <5>1, <5>2
      <4>4. QED BY <4>2, <4>3
    <3> HIDE DEF done, S, Q
    <3>8. \A i \in DOMAIN S : Active(S[i]) /\ S[i].here /\ GivenBy(run.feed, S[i])
             => KeyOf(S[i]) \in run.ids
      BY <3>5 DEF Confined, GivenOn
    <3>9. QED BY <3>7, <3>8 DEF QuietingIn
  <2> HIDE DEF done, S, Q
  <2>4. Separate(rows')
    BY <1>4, <1>7, <2>1, SeparateKept DEF Kept
  <2>5. last = run.feed => rows' = run.before.rows /\ Untouched(props')
    BY <1>4, <1>8, <2>1
  <2>6. /\ Owned(run'.owner, run'.phase, run'.todo) /\ Near(run'.phase, run'.todo, run'.ids)
        /\ Unlisted(run'.todo, run'.ids)
    BY <1>1, <1>4, <2>1 DEF Owned, Near, Unlisted
  <2>7. run' \notin {Idle, Failed} /\ run'.phase # "cleaned"
    BY <2>1 DEF Idle, Failed
  <2>8. Plain(run.before.props) => QuietingIn(rows', run'.todo, run'.ids, run'.pending)
    BY <2>1, <2>3
  <2>9. QED BY <1>4, <2>1, <2>4, <2>5, <2>6, <2>7, <2>8, KeepQuiet
<1>12. QED BY <1>10, <1>11

(* A first run leaves a second one nothing to do, ...                      *)
LEMMA CleanupQuiet ==
    ASSUME TypeInv, AllowInv, ConvergeInv, QuietInv, Cleanup
    PROVE  QuietInv'
<1>1. /\ ProposalTable(run.before.props) /\ Working(run)
      /\ run.phase = "apply" /\ run \notin {Idle, Failed} /\ run.todo = {} /\ run.pending = <<>>
  BY InRun, NotIdle, TablesShape DEF TypeInv, Cleanup, Working
<1>2. SameNetwork(props)
  BY <1>1, AllowInRun
<1>3. /\ \A k \in run.ids : OnList(k)
      /\ Plain(run.before.props) => ConvergingIn(rows, props, run.todo, run.ids, run.pending)
  BY <1>1, ConvergeInRun
<1>4. /\ Separate(rows) /\ Separate(run.before.rows)
      /\ last # None => Quiet(last, run.before.rows, run.before.props)
      /\ last = run.feed => rows = run.before.rows /\ Untouched(props)
      /\ Owned(run.owner, run.phase, run.todo) /\ Near(run.phase, run.todo, run.ids)
      /\ Plain(run.before.props) => QuietingIn(rows, run.todo, run.ids, run.pending)
  BY <1>1, QuietInRun
<1>5. CASE \A k \in DOMAIN props : Unique(k)
  <2>1. /\ run' = [run EXCEPT !.phase = "cleaned"] /\ UNCHANGED <<net, rows, last>>
        /\ \A k \in DOMAIN props' : k \in DOMAIN props /\ props'[k] = props[k]
    BY <1>5, WithoutThem DEF Cleanup
  <2>2. /\ run'.feed = run.feed /\ run'.before = run.before /\ run'.phase = "cleaned"
        /\ run'.todo = {} /\ run'.owner = run.owner /\ run'.ids = run.ids
    BY <1>1, <2>1 DEF Working
  <2>3. last = run.feed => rows' = run.before.rows /\ Untouched(props')
    BY <1>4, <2>1, UntouchedFewer
  <2>4. ASSUME Plain(run.before.props) PROVE Quiet(run.feed, rows', props')
    <3>1. OnIdsOr(rows, run.ids, {}) /\ Untouched(props)
      BY <1>1, <1>3, <2>4 DEF ConvergingIn
    <3>2. /\ \A i \in DOMAIN rows : Active(rows[i]) /\ rows[i].here /\ GivenBy(run.feed, rows[i])
                => KeyOf(rows[i]) \in run.ids
          /\ \A e \in run.feed : Wanted(e) => Done(rows, e)
      BY <1>1, <1>4, <2>4 DEF QuietingIn, UnsavedIn
    <3>3. \A i \in DOMAIN rows : Present(rows[i]) =>
             \/ Entered(run.feed, KeyOf(rows[i]))
             \/ ~net[rows[i].asn].allow /\ ~GivenBy(run.feed, rows[i])
      BY <1>3, <1>4, <3>1, <3>2 DEF Present, OnIdsOr, OnList, Entered
    <3>4. Backed(run.feed, props')
      BY <1>1, <1>2, <2>1, <2>4, <3>1, PlainBacked, UntouchedBacked, BackedFewer
    <3>5. QED BY <2>1, <3>2, <3>3, <3>4 DEF Quiet
  <2>5. Owned(run'.owner, run'.phase, run'.todo) /\ Near(run'.phase, run'.todo, run'.ids)
    BY <1>1, <1>4, <2>2 DEF Owned, Near
  <2>6. run' \notin {Idle, Failed} /\ run'.phase # "apply" /\ Separate(rows')
    BY <1>4, <2>1, <2>2 DEF Idle, Failed
  <2>7. QED BY <1>4, <2>1, <2>2, <2>3, <2>4, <2>5, <2>6, KeepQuiet
<1>6. CASE ~ \A k \in DOMAIN props : Unique(k)
  BY <1>1, <1>6, FailQuiet DEF Cleanup
<1>7. QED BY <1>5, <1>6

(* ... and its list is the last if no deletion was due by age.             *)
LEMMA FinishQuiet ==
    ASSUME TypeInv, QuietInv, NEW K, Finish(K)
    PROVE  QuietInv'
<1>1. run.phase = "cleaned" /\ run \notin {Idle, Failed} /\ run' = Idle /\ rows \in Table
      /\ UNCHANGED net
  BY InUse, NotIdle DEF TypeInv, Finish
<1>2. /\ Separate(rows)
      /\ Plain(run.before.props) => Quiet(run.feed, rows, props)
  BY <1>1, QuietInRun
<1>3. Separate(rows')
  <2>1. Away(rows, rows')
    BY FinishTrimmed, TrimmedKept DEF Kept
  <2>2. QED BY <1>2, <2>1, SeparateKept
<1>4. CASE K = {} /\ Plain(run.before.props)
  <2>1. last' = run.feed /\ DOMAIN rows' = DOMAIN rows /\ \A i \in DOMAIN rows : rows'[i] = rows[i]
    BY <1>4 DEF Finish
  <2>2. \A k \in DOMAIN props' : k \in DOMAIN props /\ props'[k] = props[k]
    BY WithoutThem DEF Finish
  <2>3. /\ \A i \in DOMAIN rows : Present(rows[i]) =>
              \/ Entered(run.feed, KeyOf(rows[i]))
              \/ ~net[rows[i].asn].allow /\ ~GivenBy(run.feed, rows[i])
        /\ \A e \in run.feed : Wanted(e) => Done(rows, e)
        /\ Backed(run.feed, props')
    BY <1>2, <1>4, <2>2, BackedFewer DEF Quiet
  <2>4. \A i \in DOMAIN rows' : Present(rows[i])' =>
           \/ Entered(last, KeyOf(rows[i]))'
           \/ ~net'[rows'[i].asn].allow /\ ~GivenBy(last, rows[i])'
    BY <1>1, <2>1, <2>3 DEF Present, Entered, GivenBy, Active, KeyOf
  <2>5. ASSUME NEW e \in last', Wanted(e)' PROVE Done(rows, e)'
    <3>1. Done(rows, e)
      BY <1>1, <2>1, <2>3, <2>5 DEF Wanted
    <3>2. QED BY <1>1, <2>1, <3>1 DEF Done, Barred, Apart, Outside, Active, KeyOf
  <2>6. Backed(last, props)'
    BY <1>1, <2>1, <2>3 DEF Backed, Entered, KeyOf
  <2>7. Quiet(last, rows, props)'
    BY <2>4, <2>5, <2>6 DEF Quiet
  <2>8. ~Cleaned' /\ Separate(rows)'
    BY <1>1, <1>3 DEF Cleaned, Idle, Separate, Active
  <2>9. QED BY <1>1, <2>7, <2>8 DEF QuietInv, SecondRunIdle
<1>5. CASE ~(K = {} /\ Plain(run.before.props))
  <2>1. last' = None
    BY <1>5 DEF Finish
  <2>2. QED BY <1>1, <1>3, <2>1, LeaveQuiet
<1>6. QED BY <1>4, <1>5

(* What users do makes nothing active on another LAN.                      *)
LEMMA UserQuiet ==
    ASSUME TypeInv, QuietInv, UserStep
    PROVE  QuietInv'
<1>1. run' \in {Idle, Failed} /\ last' = None
  BY DEF UserStep, TurnOn, TurnOff, SetSupport, UserAdd, UserDelete, Edit
<1>2. Away(rows, rows') /\ Separate(rows)
  BY UserKept DEF Kept, QuietInv
<1>3. QED BY <1>1, <1>2, SeparateKept, LeaveQuiet

(* Every step keeps QuietInv.                                              *)
LEMMA QuietStep ==
    TypeInv /\ AllowInv /\ ConvergeInv /\ QuietInv /\ [Next]_vars => QuietInv'
<1> SUFFICES ASSUME TypeInv, AllowInv, ConvergeInv, QuietInv, [Next]_vars PROVE QuietInv'
  OBVIOUS
<1>1. CASE RunStep
  BY <1>1, StartQuiet, ParseQuiet, BeginDeletionsQuiet, DeleteStepQuiet,
     SaveStepQuiet, CleanupQuiet, FinishQuiet DEF RunStep
<1>2. CASE UserStep
  BY <1>2, UserQuiet
<1>3. CASE UNCHANGED vars
  <2>1. UNCHANGED <<net, rows, props, run, last>>
    BY <1>3 DEF vars
  <2>2. CASE run \notin {Idle, Failed}
    <3>1. /\ Separate(rows) /\ Separate(run.before.rows)
          /\ last # None => Quiet(last, run.before.rows, run.before.props)
          /\ last = run.feed => rows = run.before.rows /\ Untouched(props)
          /\ Owned(run.owner, run.phase, run.todo) /\ Near(run.phase, run.todo, run.ids)
          /\ run.phase = "apply" => Unlisted(run.todo, run.ids)
          /\ run.phase = "apply" /\ Plain(run.before.props)
               => QuietingIn(rows, run.todo, run.ids, run.pending)
          /\ run.phase = "cleaned" /\ Plain(run.before.props) => Quiet(run.feed, rows, props)
      BY <2>2, QuietInRun
    <3>2. QED BY <2>1, <2>2, <3>1, KeepQuiet
  <2>3. CASE run \in {Idle, Failed}
    <3>1. Separate(rows) /\ (last # None => Quiet(last, rows, props))
      BY <2>3 DEF QuietInv
    <3>2. last' # None => Quiet(last, rows, props)'
      <4>1. SUFFICES ASSUME Quiet(last, rows, props) PROVE Quiet(last, rows, props)'
        BY <2>1, <3>1
      <4>2. \A i \in DOMAIN rows' : Present(rows[i])' =>
               \/ Entered(last, KeyOf(rows[i]))'
               \/ ~net'[rows'[i].asn].allow /\ ~GivenBy(last, rows[i])'
        BY <2>1, <4>1 DEF Quiet, Present, Entered, GivenBy, Active, KeyOf
      <4>3. ASSUME NEW e \in last', Wanted(e)' PROVE Done(rows, e)'
        <5>1. Done(rows, e)
          BY <2>1, <4>1, <4>3 DEF Quiet, Wanted
        <5>2. QED BY <2>1, <5>1 DEF Done, Barred, Apart, Outside, Active, KeyOf
      <4>4. Backed(last, props)'
        BY <2>1, <4>1 DEF Quiet, Backed, Entered, KeyOf
      <4>5. QED BY <4>2, <4>3, <4>4 DEF Quiet
    <3>3. ~Cleaned' /\ Separate(rows)'
      BY <2>1, <2>3, <3>1 DEF Cleaned, Idle, Failed, Separate, Active
    <3>4. QED BY <2>1, <2>3, <3>2, <3>3 DEF QuietInv, SecondRunIdle
  <2>4. QED BY <2>2, <2>3
<1>4. QED BY <1>1, <1>2, <1>3 DEF Next

LEMMA QuietInit == (\A R \in Initial : Separate(R)) /\ Init => QuietInv
<1> SUFFICES ASSUME \A R \in Initial : Separate(R), Init PROVE QuietInv
  OBVIOUS
<1>1. rows \in Initial /\ run = Idle /\ last = None
  BY DEF Init
<1>2. Separate(rows)
  BY <1>1
<1>3. ~Cleaned
  BY <1>1 DEF Cleaned, Idle
<1>4. QED BY <1>1, <1>2, <1>3 DEF QuietInv, SecondRunIdle

(* A second run of the same list is idle, for networks that support both   *)
(* protocols, where no connection that is active on another LAN holds an   *)
(* address of this one: if the last run ended with this list, took no aged *)
(* deletion and did not begin with stale or chained requirements, and no   *)
(* user has written since, then this one leaves every connection as it     *)
(* found it.  apply has to find what it made the time before,              *)
(* process_deletions must not meet what process_saves adds, and a refused  *)
(* add must free no address of what it is refused for.                     *)
THEOREM SecondRunIdleHolds ==
    /\ \A R \in Initial : Separate(R)
    /\ Supports = {<<TRUE, TRUE>>}
    /\ Spec
    => []SecondRunIdle
<1> SUFFICES ASSUME \A R \in Initial : Separate(R), Supports = {<<TRUE, TRUE>>}
             PROVE  Spec => []SecondRunIdle
  OBVIOUS
<1>1. Spec => []TypeInv
  BY TypeInit, TypeStep, PTL DEF Spec
<1>2. Init => AllowInv /\ ConvergeInv
  BY AllowInit, ConvergeInit
<1>3. Init => QuietInv
  BY QuietInit
<1>4. TypeInv /\ AllowInv /\ ConvergeInv /\ QuietInv /\ [Next]_vars
         => AllowInv' /\ ConvergeInv' /\ QuietInv'
  BY AllowStep, ConvergeStep, QuietStep
<1>5. QuietInv => SecondRunIdle
  BY DEF QuietInv
<1>6. QED BY <1>1, <1>2, <1>3, <1>4, <1>5, PTL DEF Spec

-----------------------------------------------------------------------------
(* The jobs.                                                               *)

(* A job that works on an exchange is in the shape the saves rely on. *)
LEMMA WorkingShape ==
    ASSUME JobsTypeOK, NEW j \in Jobs, job[j].phase \in {"fetch", "commit", "flag"}
    PROVE  job[j] \in Importing
  BY DEF JobsTypeOK, NoBatch, Between, Importing

(* So is a request of a user that holds an exchange row. *)
LEMMA HeldShape ==
    ASSUME JobsTypeOK, NEW u \in Editors, edit[u].of = "exchange"
    PROVE  edit[u] \in ExchangeEdit
  BY DEF JobsTypeOK, NoEdit, LanEdit

LEMMA RestLoaded ==
    ASSUME NEW f \in Loaded, NEW x
    PROVE  Restrict(f, DOMAIN f \ {x}) \in Loaded
<1>1. PICK S \in SUBSET Exchanges : f \in [S -> Lan]
  BY DEF Loaded
<1>2. Restrict(f, DOMAIN f \ {x}) \in [S \ {x} -> Lan]
  BY <1>1 DEF Restrict
<1>3. QED BY <1>2 DEF Loaded

LEMMA SyncedType ==
    ASSUME NEW l \in [Exchanges -> Lan], NEW x, NEW status \in Statuses
    PROVE  Synced(l, x, status) \in [Exchanges -> Lan]
<1>1. CASE x \in Exchanges
  <2>1. [l[x] EXCEPT !.status = status] \in Lan
    BY <1>1 DEF Lan
  <2>2. QED BY <1>1, <2>1 DEF Synced
<1>2. CASE x \notin Exchanges
  BY <1>2 DEF Synced
<1>3. QED BY <1>1, <1>2

LEMMA RestShape ==
    ASSUME NEW j \in Jobs, job[j] \in Importing
    PROVE  Rest(j) \in {NoBatch} \cup Between
  BY DEF Rest, Importing, Between

LEMMA JobsTypeStep == JobsTypeOK /\ [JobsNext]_jobsVars => JobsTypeOK'
<1> SUFFICES ASSUME JobsTypeOK, [JobsNext]_jobsVars PROVE JobsTypeOK'
  OBVIOUS
<1> USE JobsAssumption
<1>1. ASSUME NEW u \in Editors, RequestImport(u) PROVE JobsTypeOK'
  <2>1. requests + 1 \in 0..MaxRequests
    BY <1>1 DEF RequestImport, JobsTypeOK
  <2>2. edit[u].cur \in Exchanges /\ edit[u].row \in Exchange
    BY <1>1, HeldShape DEF RequestImport, ExchangeEdit
  <2>3. [edit[u].row EXCEPT !.request = requests + 1, !.reqStatus = "queued"] \in Exchange
    BY <2>1, <2>2 DEF Exchange
  <2>4. ix' \in [Exchanges -> Exchange]
    BY <1>1, <2>2, <2>3 DEF RequestImport, JobsTypeOK
  <2>5. edit[u].row.status \in Statuses
    BY <2>2 DEF Exchange
  <2>6. lan' \in [Exchanges -> Lan]
    BY <1>1, <2>5, SyncedType DEF RequestImport, JobsTypeOK
  <2>7. QED
    BY <1>1, <2>1, <2>4, <2>6 DEF RequestImport, JobsTypeOK
<1>2. ASSUME NEW u \in Editors, NEW url \in {"null", "empty", "set"},
             NEW enabled \in BOOLEAN, SaveLan(u, url, enabled)
      PROVE  JobsTypeOK'
  <2>1. edit[u].status \in Statuses
    BY <1>2 DEF SaveLan, JobsTypeOK, NoEdit, ExchangeEdit, LanEdit
  <2>2. lan' \in [Exchanges -> Lan]
    BY <1>2, <2>1 DEF SaveLan, JobsTypeOK, Lan
  <2>3. QED
    BY <1>2, <2>2 DEF SaveLan, JobsTypeOK
<1>3. ASSUME NEW u \in Editors, NEW status \in Statuses, SaveExchange(u, status)
      PROVE  JobsTypeOK'
  <2>1. edit[u].cur \in Exchanges /\ edit[u].row \in Exchange
    BY <1>3, HeldShape DEF SaveExchange, ExchangeEdit
  <2>2. [edit[u].row EXCEPT !.status = status] \in Exchange
    BY <2>1 DEF Exchange
  <2>3. ix' \in [Exchanges -> Exchange]
    BY <1>3, <2>1, <2>2 DEF SaveExchange, JobsTypeOK
  <2>4. lan' \in [Exchanges -> Lan]
    BY <1>3, SyncedType DEF SaveExchange, JobsTypeOK
  <2>5. QED
    BY <1>3, <2>3, <2>4 DEF SaveExchange, JobsTypeOK
<1>12. ASSUME NEW u \in Editors, NEW x \in Exchanges, LoadExchange(u, x)
       PROVE  JobsTypeOK'
  <2>1. [of |-> "exchange", cur |-> x, row |-> ix[x]] \in ExchangeEdit
    BY DEF ExchangeEdit, JobsTypeOK
  <2>2. changes' \in 0..MaxChanges
    BY <1>12 DEF LoadExchange, JobsTypeOK
  <2>3. QED
    BY <1>12, <2>1, <2>2 DEF LoadExchange, JobsTypeOK
<1>13. ASSUME NEW u \in Editors, NEW x \in Exchanges, LoadLan(u, x)
       PROVE  JobsTypeOK'
  <2>1. [of |-> "ixlan", cur |-> x, status |-> lan[x].status] \in LanEdit
    BY DEF LanEdit, JobsTypeOK, Lan
  <2>2. changes' \in 0..MaxChanges
    BY <1>13 DEF LoadLan, JobsTypeOK
  <2>3. QED
    BY <1>13, <2>1, <2>2 DEF LoadLan, JobsTypeOK
<1>14. ASSUME NEW u \in Editors, Refuse(u) PROVE JobsTypeOK'
  BY <1>14 DEF Refuse, JobsTypeOK
<1>4. ASSUME NEW j \in Jobs, StartBatch(j) PROVE JobsTypeOK'
  <2>1. [x \in Batch(j) |-> lan[x]] \in [Batch(j) -> Lan] /\ Batch(j) \subseteq Exchanges
    BY DEF Batch, JobsTypeOK
  <2>2. [x \in Batch(j) |-> lan[x]] \in Loaded
    BY <2>1 DEF Loaded
  <2>3. [phase |-> "next", todo |-> [x \in Batch(j) |-> lan[x]]] \in Between
    BY <2>2 DEF Between
  <2>4. QED
    BY <1>4, <2>3 DEF StartBatch, JobsTypeOK
<1>5. ASSUME NEW j \in Jobs, NEW x \in Exchanges, Load(j, x) PROVE JobsTypeOK'
  <2>1. job[j].todo \in Loaded /\ x \in DOMAIN job[j].todo
    BY <1>5 DEF Load, JobsTypeOK, NoBatch, Between, Importing
  <2>2. job[j].todo[x] \in Lan
    BY <2>1 DEF Loaded
  <2>3. [phase |-> "fetch", todo |->
           Restrict(job[j].todo, DOMAIN job[j].todo \ {x}),
         cur |-> x, ix |-> ix[x], lan |-> job[j].todo[x], outcome |-> "none"] \in Importing
    BY <2>1, <2>2, RestLoaded DEF Importing, JobsTypeOK
  <2>4. QED
    BY <1>5, <2>3 DEF Load, JobsTypeOK
<1>6. ASSUME NEW j \in Jobs, NEW outcome \in {"ok", "failed", "raised"},
             Fetch(j, outcome)
      PROVE  JobsTypeOK'
  <2>1. job[j] \in Importing
    BY <1>6, WorkingShape DEF Fetch
  <2>2. [job[j] EXCEPT !.phase = "commit", !.outcome = outcome] \in Importing
    BY <2>1 DEF Importing
  <2>3. job' = [job EXCEPT ![j] = [job[j] EXCEPT !.phase = "commit", !.outcome = outcome]]
    BY <1>6, <2>1 DEF Fetch, JobsTypeOK, Importing
  <2>4. QED
    BY <1>6, <2>2, <2>3 DEF Fetch, JobsTypeOK
<1>7. ASSUME NEW j \in Jobs, Commit(j) PROVE JobsTypeOK'
  <2>1. job[j] \in Importing
    BY <1>7, WorkingShape DEF Commit
  <2>2. /\ job[j].cur \in Exchanges
        /\ job[j].ix \in Exchange
        /\ job[j].lan \in Lan
        /\ job[j].ix.status \in Statuses
    BY <2>1 DEF Importing, Exchange
  <2>3. [job[j] EXCEPT !.phase = "flag"] \in Importing
    BY <2>1 DEF Importing
  <2>4. job' \in [Jobs -> {NoBatch} \cup Between \cup Importing]
    BY <1>7, <2>3 DEF Commit, JobsTypeOK
  <2>5. ix' \in [Exchanges -> Exchange]
    BY <1>7, <2>2 DEF Commit, JobsTypeOK
  <2>6. DEFINE saved == [lan EXCEPT ![job[j].cur] = job[j].lan]
  <2>7. saved \in [Exchanges -> Lan]
    BY <2>2 DEF JobsTypeOK
  <2>9. lan' \in [Exchanges -> Lan]
    <3>1. lan \in [Exchanges -> Lan]
      BY DEF JobsTypeOK
    <3>2. \/ lan' = lan
          \/ lan' = saved
          \/ lan' = Synced(lan, job[j].cur, job[j].ix.status)
          \/ lan' = Synced(saved, job[j].cur, job[j].ix.status)
      BY <1>7 DEF Commit
    <3>3. Synced(lan, job[j].cur, job[j].ix.status) \in [Exchanges -> Lan]
      BY <2>2, <3>1, SyncedType
    <3>4. Synced(saved, job[j].cur, job[j].ix.status) \in [Exchanges -> Lan]
      BY <2>2, <2>7, SyncedType
    <3>5. QED BY <2>7, <3>1, <3>2, <3>3, <3>4
  <2>10. QED
    BY <1>7, <2>4, <2>5, <2>9 DEF Commit, JobsTypeOK
<1>8. ASSUME NEW j \in Jobs, Flag(j) PROVE JobsTypeOK'
  <2>1. job[j] \in Importing
    BY <1>8, WorkingShape DEF Flag
  <2>2. /\ job[j].cur \in Exchanges
        /\ job[j].ix \in Exchange
        /\ job[j].ix.status \in Statuses
        /\ job[j].ix.request \in 0..MaxRequests
    BY <2>1 DEF Importing, Exchange
  <2>3. job' \in [Jobs -> {NoBatch} \cup Between \cup Importing]
    BY <1>8, <2>1, RestShape DEF Flag, JobsTypeOK
  <2>4. ix' \in [Exchanges -> Exchange]
    <3>1. ASSUME NEW s \in {"finished", "error"}
          PROVE  [job[j].ix EXCEPT !.reqStatus = s] \in Exchange
      BY <2>2 DEF Exchange
    <3>2. QED BY <1>8, <2>2, <3>1 DEF Flag, JobsTypeOK
  <2>5. lan' \in [Exchanges -> Lan]
    BY <1>8, <2>2, SyncedType DEF Flag, JobsTypeOK
  <2>6. decided' \in [Exchanges -> 0..MaxRequests]
    BY <1>8, <2>2 DEF Flag, JobsTypeOK
  <2>7. QED
    BY <1>8, <2>3, <2>4, <2>5, <2>6 DEF Flag, JobsTypeOK
<1>9. ASSUME NEW j \in Jobs, Kill(j) PROVE JobsTypeOK'
  BY <1>9 DEF Kill, JobsTypeOK
<1>10. CASE UNCHANGED jobsVars
  BY <1>10 DEF jobsVars, JobsTypeOK
<1>11. QED
  BY <1>1, <1>2, <1>3, <1>4, <1>5, <1>6, <1>7, <1>8, <1>9, <1>10, <1>12, <1>13, <1>14
     DEF JobsNext, JobStep

LEMMA JobsInitType == JobsInit => JobsTypeOK
<1> SUFFICES ASSUME JobsInit PROVE JobsTypeOK
  OBVIOUS
<1> USE JobsAssumption
<1>1. ix \in [Exchanges -> Exchange]
  BY DEF JobsInit, Earliest, Exchange, Statuses
<1>2. lan \in [Exchanges -> Lan]
  BY DEF JobsInit, Lan, Statuses
<1>3. QED BY <1>1, <1>2 DEF JobsInit, Earliest, JobsTypeOK

(* Every state of the import jobs' model is well typed. *)
THEOREM JobsTypeCorrect == JobsSpec => []JobsTypeOK
  BY JobsInitType, JobsTypeStep, PTL DEF JobsSpec

-----------------------------------------------------------------------------
LEMMA JobsInitInv == JobsInit => JobsInv
<1> SUFFICES ASSUME JobsInit PROVE JobsInv
  OBVIOUS
<1>1. ASSUME NEW x \in Exchanges PROVE Tracked(x)
  BY DEF JobsInit, Earliest, Tracked, On, NoBatch, Holds, NoEdit, Undecided
<1>2. QED BY <1>1, JobsInitType DEF JobsInv

(* What is said of an exchange depends on its own request, on its row, and *)
(* on the copies of the jobs and the requests of users that are on it.     *)
LEMMA TrackedFrame ==
    ASSUME JobsTypeOK, JobsTypeOK', NEW x \in Exchanges, Tracked(x),
           UNCHANGED <<asked, raced, requests>>,
           decided'[x] = decided[x],
           ix'[x] = ix[x],
           \A j \in Jobs : On(j, x)' => On(j, x) /\ job'[j].ix = job[j].ix,
           \A u \in Editors : Holds(u, x)' => Holds(u, x) /\ edit'[u].row = edit[u].row
    PROVE  Tracked(x)'
  BY DEF Tracked, Undecided

LEMMA JobsStepInv == JobsInv /\ [JobsNext]_jobsVars => JobsInv'
<1> SUFFICES ASSUME JobsInv, [JobsNext]_jobsVars, NEW x \in Exchanges PROVE Tracked(x)'
  BY JobsTypeStep DEF JobsInv
<1>t. JobsTypeOK /\ JobsTypeOK' /\ Tracked(x)
  BY JobsTypeStep DEF JobsInv
<1>1. ASSUME NEW u \in Editors, RequestImport(u) PROVE Tracked(x)'
  <2>1. requests \in Nat /\ asked[x] \in Nat /\ decided[x] \in Nat
    BY <1>t, JobsAssumption DEF JobsTypeOK
  <2>2. edit[u].cur \in Exchanges /\ edit[u].row \in Exchange
    BY <1>1, <1>t, HeldShape DEF RequestImport, ExchangeEdit
  <2>3. ASSUME NEW v \in Editors, Holds(v, x)'
        PROVE  v # u /\ Holds(v, x) /\ edit'[v] = edit[v]
    BY <1>1, <1>t, <2>3 DEF RequestImport, Holds, JobsTypeOK, NoEdit
  <2>4. CASE x = edit[u].cur
    <3>1. /\ requests' = requests + 1
          /\ asked'[x] = requests + 1
          /\ ix'[x].request = requests + 1
          /\ ix'[x].reqStatus = "queued"
      BY <1>1, <1>t, <2>2, <2>4 DEF RequestImport, JobsTypeOK, Exchange
    <3>2. /\ job' = job /\ decided' = decided
          /\ raced'[x] = (\/ \E j \in Jobs : On(j, x)
                         \/ \E v \in Editors \ {u} : Holds(v, x))
      BY <1>1, <1>t, <2>4 DEF RequestImport, JobsTypeOK
    <3>3. ASSUME NEW j \in Jobs, On(j, x)'
          PROVE  On(j, x) /\ job'[j].ix.request <= requests + 1
      <4>1. On(j, x) /\ job'[j].ix = job[j].ix
        BY <3>2, <3>3 DEF On
      <4>2. job[j].ix.request \in Nat
        BY <1>t, <4>1, WorkingShape, JobsAssumption DEF On, Importing, Exchange
      <4>3. QED BY <1>t, <2>1, <4>1, <4>2 DEF Tracked
    <3>4. ASSUME NEW v \in Editors, Holds(v, x)'
          PROVE  v # u /\ Holds(v, x) /\ edit'[v].row.request <= requests + 1
      <4>1. edit[v].row.request \in Nat
        BY <1>t, <2>3, <3>4, HeldShape, JobsAssumption DEF Holds, ExchangeEdit, Exchange
      <4>2. QED BY <1>t, <2>1, <2>3, <3>4, <4>1 DEF Tracked
    <3>5. ~raced'[x] => /\ \A j \in Jobs : ~On(j, x)'
                        /\ \A v \in Editors : ~Holds(v, x)'
      BY <3>2, <3>3, <3>4
    <3>6. decided'[x] <= asked'[x] /\ asked'[x] <= requests'
      BY <1>t, <2>1, <3>1, <3>2 DEF Tracked
    <3>7. ix'[x].request <= asked'[x]
      BY <2>1, <3>1
    <3>8. \A j \in Jobs : On(j, x)' => job'[j].ix.request <= asked'[x]
      BY <3>1, <3>3
    <3>9. \A v \in Editors : Holds(v, x)' => edit'[v].row.request <= asked'[x]
      BY <3>1, <3>4
    <3>10. QED BY <3>1, <3>5, <3>6, <3>7, <3>8, <3>9 DEF Tracked
  <2>5. CASE x # edit[u].cur
    <3>1. /\ requests' = requests + 1
          /\ asked'[x] = asked[x] /\ raced'[x] = raced[x]
          /\ ix'[x] = ix[x] /\ decided' = decided /\ job' = job
      BY <1>1, <1>t, <2>5 DEF RequestImport, JobsTypeOK
    <3>2. QED BY <1>t, <2>1, <2>3, <3>1 DEF Tracked, Undecided, On
  <2>6. QED BY <2>4, <2>5
<1>2. ASSUME NEW u \in Editors, NEW url \in {"null", "empty", "set"},
             NEW enabled \in BOOLEAN, SaveLan(u, url, enabled)
      PROVE  Tracked(x)'
  <2>1. ASSUME NEW v \in Editors, Holds(v, x)'
        PROVE  Holds(v, x) /\ edit'[v].row = edit[v].row
    BY <1>2, <1>t, <2>1 DEF SaveLan, Holds, JobsTypeOK, NoEdit
  <2>2. QED BY <1>2, <1>t, <2>1, TrackedFrame DEF SaveLan, On
<1>3. ASSUME NEW u \in Editors, NEW status \in Statuses, SaveExchange(u, status)
      PROVE  Tracked(x)'
  <2>1. edit[u].cur \in Exchanges /\ edit[u].row \in Exchange
    BY <1>3, <1>t, HeldShape DEF SaveExchange, ExchangeEdit
  <2>2. ASSUME NEW v \in Editors, Holds(v, x)'
        PROVE  Holds(v, x) /\ edit'[v].row = edit[v].row
    BY <1>3, <1>t, <2>2 DEF SaveExchange, Holds, JobsTypeOK, NoEdit
  <2>3. UNCHANGED <<job, asked, decided, raced, requests>>
    BY <1>3 DEF SaveExchange
  <2>4. CASE x = edit[u].cur
    <3>1. /\ ix'[x].request = edit[u].row.request
          /\ ix'[x].reqStatus = edit[u].row.reqStatus
      BY <1>3, <1>t, <2>1, <2>4 DEF SaveExchange, JobsTypeOK, Exchange
    <3>2. Holds(u, x)
      BY <1>3, <2>4 DEF SaveExchange, Holds
    <3>3. QED BY <1>t, <2>2, <2>3, <3>1, <3>2 DEF Tracked, Undecided, On
  <2>5. CASE x # edit[u].cur
    <3>1. ix'[x] = ix[x]
      BY <1>3, <1>t, <2>5 DEF SaveExchange, JobsTypeOK
    <3>2. QED BY <1>t, <2>2, <2>3, <3>1, TrackedFrame DEF On
  <2>6. QED BY <2>4, <2>5
<1>12. ASSUME NEW u \in Editors, NEW y \in Exchanges, LoadExchange(u, y)
       PROVE  Tracked(x)'
  <2>1. ASSUME NEW v \in Editors, Holds(v, x)'
        PROVE  \/ Holds(v, x) /\ edit'[v].row = edit[v].row
               \/ edit'[v].row = ix[x]
    BY <1>12, <1>t, <2>1 DEF LoadExchange, Holds, JobsTypeOK
  <2>2. UNCHANGED <<ix, job, asked, decided, raced, requests>>
    BY <1>12 DEF LoadExchange
  <2>3. QED BY <1>t, <2>1, <2>2 DEF Tracked, Undecided, On
<1>13. ASSUME NEW u \in Editors, NEW y \in Exchanges, LoadLan(u, y)
       PROVE  Tracked(x)'
  <2>1. ASSUME NEW v \in Editors, Holds(v, x)'
        PROVE  Holds(v, x) /\ edit'[v].row = edit[v].row
    BY <1>13, <1>t, <2>1 DEF LoadLan, Holds, JobsTypeOK
  <2>2. QED BY <1>13, <1>t, <2>1, TrackedFrame DEF LoadLan, On
<1>14. ASSUME NEW u \in Editors, Refuse(u) PROVE Tracked(x)'
  <2>1. ASSUME NEW v \in Editors, Holds(v, x)'
        PROVE  Holds(v, x) /\ edit'[v].row = edit[v].row
    BY <1>14, <1>t, <2>1 DEF Refuse, Holds, JobsTypeOK, NoEdit
  <2>2. QED BY <1>14, <1>t, <2>1, TrackedFrame DEF Refuse, On
<1>4. ASSUME NEW j \in Jobs, StartBatch(j) PROVE Tracked(x)'
  <2>1. ASSUME NEW k \in Jobs, On(k, x)' PROVE On(k, x) /\ job'[k].ix = job[k].ix
    BY <1>4, <1>t, <2>1 DEF StartBatch, On, JobsTypeOK
  <2>2. QED BY <1>4, <1>t, <2>1, TrackedFrame DEF StartBatch, Holds
<1>5. ASSUME NEW j \in Jobs, NEW y \in Exchanges, Load(j, y) PROVE Tracked(x)'
  <2>1. ASSUME NEW k \in Jobs, On(k, x)'
        PROVE  \/ On(k, x) /\ job'[k].ix = job[k].ix
               \/ job'[k].ix = ix[x]
    BY <1>5, <1>t, <2>1 DEF Load, On, JobsTypeOK
  <2>2. UNCHANGED <<ix, edit, asked, decided, raced, requests>>
    BY <1>5 DEF Load
  <2>3. QED BY <1>t, <2>1, <2>2 DEF Tracked, Undecided, Holds
<1>6. ASSUME NEW j \in Jobs, NEW outcome \in {"ok", "failed", "raised"},
             Fetch(j, outcome)
      PROVE  Tracked(x)'
  <2>1. job[j] \in Importing
    BY <1>6, <1>t, WorkingShape DEF Fetch
  <2>2. ASSUME NEW k \in Jobs, On(k, x)' PROVE On(k, x) /\ job'[k].ix = job[k].ix
    BY <1>6, <1>t, <2>1, <2>2 DEF Fetch, On, JobsTypeOK, Importing
  <2>3. QED BY <1>6, <1>t, <2>2, TrackedFrame DEF Fetch, Holds
<1>7. ASSUME NEW j \in Jobs, Commit(j) PROVE Tracked(x)'
  <2>1. job[j] \in Importing /\ job[j].cur \in Exchanges
    BY <1>7, <1>t, WorkingShape DEF Commit, Importing
  <2>2. ASSUME NEW k \in Jobs, On(k, x)' PROVE On(k, x) /\ job'[k].ix = job[k].ix
    BY <1>7, <1>t, <2>1, <2>2 DEF Commit, On, JobsTypeOK, Importing
  <2>3. UNCHANGED <<edit, asked, decided, raced, requests>>
    BY <1>7 DEF Commit
  <2>4. CASE ix'[x] = ix[x]
    BY <1>t, <2>2, <2>3, <2>4, TrackedFrame DEF Holds
  <2>5. CASE ix'[x] # ix[x]
    <3>1. ix'[x] = job[j].ix /\ On(j, x)
      BY <1>7, <1>t, <2>1, <2>5 DEF Commit, On, JobsTypeOK
    <3>2. QED BY <1>t, <2>2, <2>3, <3>1 DEF Tracked, Undecided, Holds
  <2>6. QED BY <2>4, <2>5
<1>8. ASSUME NEW j \in Jobs, Flag(j) PROVE Tracked(x)'
  <2>1. job[j] \in Importing /\ job[j].cur \in Exchanges /\ job[j].ix \in Exchange
    BY <1>8, <1>t, WorkingShape DEF Flag, Importing
  <2>2. ASSUME NEW k \in Jobs, On(k, x)' PROVE On(k, x) /\ job'[k].ix = job[k].ix
    BY <1>8, <1>t, <2>2 DEF Flag, On, JobsTypeOK, Rest, NoBatch
  <2>3. UNCHANGED <<edit, asked, raced, requests>>
    BY <1>8 DEF Flag
  <2>4. CASE j \in RequestJobs /\ x = job[j].cur
    <3>1. /\ ix'[x].request = job[j].ix.request
          /\ decided'[x] = job[j].ix.request
      BY <1>8, <1>t, <2>1, <2>4 DEF Flag, JobsTypeOK, Exchange
    <3>2. On(j, x)
      BY <1>8, <2>4 DEF Flag, On
    <3>3. job[j].ix.request \in Nat /\ asked[x] \in Nat
      BY <1>t, <2>1, JobsAssumption DEF Exchange, JobsTypeOK
    <3>4. QED BY <1>t, <2>2, <2>3, <3>1, <3>2, <3>3 DEF Tracked, Undecided, Holds
  <2>5. CASE ~(j \in RequestJobs /\ x = job[j].cur)
    <3>1. ix'[x] = ix[x] /\ decided'[x] = decided[x]
      BY <1>8, <1>t, <2>1, <2>5 DEF Flag, JobsTypeOK
    <3>2. QED BY <1>t, <2>2, <2>3, <3>1, TrackedFrame DEF Holds
  <2>6. QED BY <2>4, <2>5
<1>9. ASSUME NEW j \in Jobs, Kill(j) PROVE Tracked(x)'
  <2>1. ASSUME NEW k \in Jobs, On(k, x)' PROVE On(k, x) /\ job'[k].ix = job[k].ix
    BY <1>9, <1>t, <2>1 DEF Kill, On, JobsTypeOK, NoBatch
  <2>2. QED BY <1>9, <1>t, <2>1, TrackedFrame DEF Kill, Holds
<1>10. CASE UNCHANGED jobsVars
  BY <1>10, <1>t, TrackedFrame DEF jobsVars, On, Holds
<1>11. QED
  BY <1>1, <1>2, <1>3, <1>4, <1>5, <1>6, <1>7, <1>8, <1>9, <1>10, <1>12, <1>13, <1>14
     DEF JobsNext, JobStep

(* A request that was made while nobody else held a copy of the exchange's *)
(* row is never lost, whatever jobs, users, failures and kills do.         *)
THEOREM RequestStaysQueuedHolds == JobsSpec => []RequestStaysQueued
<1>1. JobsInv => RequestStaysQueued
  BY DEF JobsInv, Tracked, RequestStaysQueued
<1>2. QED BY <1>1, JobsInitInv, JobsStepInv, PTL DEF JobsSpec
=============================================================================
