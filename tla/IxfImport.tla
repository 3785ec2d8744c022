------------------------------ MODULE IxfImport ------------------------------
(***************************************************************************)
(* One exchange LAN and the IX-F importer (ixf.py Importer, models.py      *)
(* IXFMemberData, IXLan.add_netixlan).  A run reads the member list of the *)
(* exchange, removes and adds connections (netixlans) of the networks that *)
(* allow it, and keeps a proposal (IXFMemberData) for everything else.     *)
(* Each loop of Importer.update is a phase, each of its rounds a step; a   *)
(* run is one transaction, so users act only between runs.  Of the data of *)
(* a connection only "operational" is kept, the one field that is compared *)
(* whether or not the network allows updates.                              *)
(***************************************************************************)
EXTENDS Naturals, FiniteSets, SequencesExt, TLC

CONSTANTS
    Asns,       \* the networks, by their autonomous system number
    V4, V6,     \* addresses that a feed may contain
    Prefix,     \* those that are inside the active prefixes of the LAN
    None,       \* no address, no proposal, no network
    Operational,\* the values of the operational field that occur
    Supports,   \* the protocols <<IPv4, IPv6>> that a network may support
    FeedSize,   \* bound on the number of entries of a feed
    Initial,    \* the tables of connections to begin with, also on other LANs
    MaxRuns,    \* bound on the runs that are no repetition of the one before
    MaxEdits    \* bound on the number of changes made by users

ASSUME ImportAssumption ==
    /\ V4 \cap V6 = {}
    /\ Prefix \subseteq V4 \cup V6
    /\ None \notin V4 \cup V6 \cup Asns
    /\ Operational \subseteq BOOLEAN
    /\ Supports \subseteq (BOOLEAN \X BOOLEAN) \ {<<FALSE, FALSE>>}
    /\ {FeedSize, MaxRuns, MaxEdits} \subseteq Nat
    /\ \A S \in {Asns, V4, V6} : IsFiniteSet(S)

VARIABLES
    net,   \* per network: allow (allow_ixp_update) and the protocols it supports
    rows,  \* the netixlan table; a row's index is its id
    props, \* the IXFMemberData table; its keys are (asn, ipaddr4, ipaddr6)
    run,   \* the import that is in progress
    last,  \* the feed of the last run, unless the properties say nothing of it
           \* or anybody but the importer acted since
    runs, edits

vars == <<net, rows, props, run, last, runs, edits>>

(* ixf_id: what identifies a connection, a proposal, and a feed entry.     *)
Key == [asn : Asns, v4 : V4 \cup {None}, v6 : V6 \cup {None}]

ASSUME KeyAssumption == None \notin Key

\* Mutant of KeyOf: the addresses are swapped.
KeyOfSwapped(r) == [asn |-> r.asn, v4 |-> r.v6, v6 |-> r.v4]

KeyOf(r) == [asn |-> r.asn, v4 |-> r.v4, v6 |-> r.v6]

Netixlan ==
    [asn : Asns, v4 : V4 \cup {None}, v6 : V6 \cup {None},
     oper : Operational, here : BOOLEAN, status : {"ok", "deleted"}]

(* unique_ipaddr4 and unique_ipaddr6: no two rows hold the same address.    *)
Unshared(R) ==
    \A i, j \in DOMAIN R : i # j =>
       /\ R[i].v4 = None \/ R[i].v4 # R[j].v4
       /\ R[i].v6 = None \/ R[i].v6 # R[j].v6

(* validate_ipaddr4 and validate_ipaddr6: on the LAN are its addresses.     *)
Outside(v) == v # None /\ v \notin Prefix

ASSUME InitialAssumption ==
    \A R \in Initial :
       /\ R \in Seq({r \in Netixlan : r.here => ~Outside(r.v4) /\ ~Outside(r.v6)})
       /\ Unshared(R)

Proposal ==
    [data : {"member", "gone"},  \* is there member data, or is it "{}"?
     oper : Operational, req : Key \cup {None}, error : BOOLEAN]

Entry == [asn : Asns, v4 : V4 \cup {None}, v6 : V6 \cup {None}, oper : Operational]

(* Importer.sanitize refuses a list that assigns an address twice.         *)
Feeds ==
    {F \in UNION {{Range(f) : f \in [1..n -> Entry]} : n \in 0..FeedSize} :
        /\ \A e \in F : e.v4 # None \/ e.v6 # None
        /\ \A e, f \in F : e # f => /\ e.v4 = None \/ e.v4 # f.v4
                                    /\ e.v6 = None \/ e.v6 # f.v6}

ASSUME FeedAssumption == None \notin Feeds

(***************************************************************************)
(* An IXFMemberData object in memory: a proposal, whether it has a row in  *)
(* the table, what it held before this run (was), and the addresses that   *)
(* the feed or the netixlan gave (init_ipaddr4, init_ipaddr6).             *)
(***************************************************************************)
Instance ==
    [key : Key, i4 : V4 \cup {None}, i6 : V6 \cup {None}, saved : BOOLEAN,
     now : Proposal, was : Proposal]

Idle == [phase |-> "idle"]
Failed == [phase |-> "failed"]  \* an exception has rolled the run back

Tables(R, P) ==
    /\ R \in Seq(Netixlan)
    /\ DOMAIN P \subseteq Key
    /\ \A k \in DOMAIN P : P[k] \in Proposal

Working(r) ==
    /\ DOMAIN r = {"phase", "feed", "todo", "ids", "owner", "pending", "deletions",
                   "seen", "before"}
    /\ r.phase \in {"parse", "apply", "cleaned"}
    /\ r.feed \in Feeds
    /\ r.todo \subseteq IF r.phase = "parse" THEN r.feed  \* to loop over
                         ELSE DOMAIN r.before.rows
    /\ r.ids \subseteq Key                             \* ixf_ids
    /\ r.owner \in [V4 \cup V6 -> Asns \cup {None}]    \* _build_ip_to_asn
    /\ r.pending \in Seq(Instance)                     \* pending_save
    /\ r.deletions \subseteq Instance
    /\ r.seen \subseteq Key                            \* proposals fetched anew
    /\ Tables(r.before.rows, r.before.props)           \* as the run found them

TypeOK ==
    /\ net \in [Asns -> [allow : BOOLEAN, p4 : BOOLEAN, p6 : BOOLEAN]]
    /\ Tables(rows, props)
    /\ run \in {Idle, Failed} \/ Working(run)
    /\ last \in {None} \cup Feeds
    /\ runs \in 0..MaxRuns
    /\ edits \in 0..MaxEdits

Init ==
    /\ net \in [Asns -> {[allow |-> a, p4 |-> p[1], p6 |-> p[2]] :
                           a \in BOOLEAN, p \in Supports}]
    /\ rows \in Initial
    /\ props = <<>>
    /\ run = Idle
    /\ last = None
    /\ runs = 0
    /\ edits = 0

-----------------------------------------------------------------------------
Active(r) == r.status = "ok"

(* id_filters: a protocol that the network does not support is no part of  *)
(* the identity, unless the check is off because the object is a deletion. *)
Same(k, l, exact) ==
    /\ k.asn = l.asn
    /\ exact \/ net[k.asn].p4 => k.v4 = l.v4
    /\ exact \/ net[k.asn].p6 => k.v6 = l.v6

\* Is there an address in the identity?
Addressed(k, exact) ==
    \/ k.v4 # None /\ (exact \/ net[k.asn].p4)
    \/ k.v6 # None /\ (exact \/ net[k.asn].p6)

\* IXFMemberData.netixlan: the rows it may stand for, whatever their LAN.
Matching(R, k, exact) == {i \in DOMAIN R : Addressed(k, exact) /\ Same(k, R[i], exact)}

\* Mutant of Dependents: no cascade.
DependentsNone(P, K) == K

(* requirement_of is on_delete=CASCADE: the least set of proposals that    *)
(* has those of K and all that are requirements of its members.            *)
Closed(P, C) == \A k \in DOMAIN P : P[k].req \in C => k \in C

Dependents(P, K) ==
    {k \in DOMAIN P :
        \A C \in SUBSET DOMAIN P :
           K \cap DOMAIN P \subseteq C /\ Closed(P, C) => k \in C}

(* The foreign key: no proposal is a requirement of one that is not there. *)
ForeignKeys(P) == \A k \in DOMAIN P : P[k].req \in DOMAIN P \cup {None}

Without(P, K) == Restrict(P, DOMAIN P \ Dependents(P, K))

Store(P, m) == [k \in DOMAIN P \cup {m.key} |-> IF k = m.key THEN m.now ELSE P[k]]

\* set_resolved: hard, but never while it is the requirement of another.
Resolve(P, m) == IF m.saved /\ m.now.req = None THEN Without(P, {m.key}) ELSE P

(* IXFMemberData.instantiate: the proposal for k if there is one.  When    *)
(* several match, protocol support was switched between two runs, and the  *)
(* ones that are not exactly k are dropped.                                *)
Candidates(P, k) == {j \in DOMAIN P : Same(k, j, FALSE)}

Deduped(P, k) ==
    IF Cardinality(Candidates(P, k)) > 1
      THEN Without(P, Candidates(P, k) \ {k})
      ELSE P

Instantiate(P, k, data, oper) ==
    IF Candidates(P, k) # {}
      THEN LET j == CHOOSE j \in Candidates(P, k) : TRUE IN
           [key |-> j, i4 |-> k.v4, i6 |-> k.v6, saved |-> TRUE,
            now |-> [P[j] EXCEPT !.data = data, !.oper = oper], was |-> P[j]]
      ELSE LET new == [data |-> data, oper |-> oper, req |-> None, error |-> FALSE] IN
           [key |-> [asn |-> k.asn,
                     v4 |-> IF net[k.asn].p4 \/ data = "gone" THEN k.v4 ELSE None,
                     v6 |-> IF net[k.asn].p6 \/ data = "gone" THEN k.v6 ELSE None],
            i4 |-> k.v4, i6 |-> k.v6, saved |-> FALSE, now |-> new, was |-> new]

FromTable(P, k) ==
    [key |-> k, i4 |-> k.v4, i6 |-> k.v6, saved |-> TRUE, now |-> P[k], was |-> P[k]]

-----------------------------------------------------------------------------
(***************************************************************************)
(* IXLan.add_netixlan, on the rows R of the table.  The result is the rows *)
(* and a verdict: "invalid" is a ValidationError, which leaves behind what *)
(* was written before it.                                                  *)
(***************************************************************************)
HeldElsewhere(R, v4, v6) ==
    \E i \in DOMAIN R : /\ Active(R[i]) /\ ~R[i].here
                        /\ \/ v4 # None /\ R[i].v4 = v4
                           \/ v6 # None /\ R[i].v6 = v6

\* The id of the row on this LAN, active or not, that holds an address.
Holder4(R, v) == {i \in DOMAIN R : v # None /\ R[i].here /\ R[i].v4 = v}
Holder6(R, v) == {i \in DOMAIN R : v # None /\ R[i].here /\ R[i].v6 = v}

\* An address is claimed from the deleted connections of other networks.
Claim4(R, asn, v) ==
    [i \in DOMAIN R |-> IF ~Active(R[i]) /\ R[i].asn # asn /\ R[i].v4 = v
                          THEN [R[i] EXCEPT !.v4 = None] ELSE R[i]]
Claim6(R, asn, v) ==
    [i \in DOMAIN R |-> IF ~Active(R[i]) /\ R[i].asn # asn /\ R[i].v6 = v
                          THEN [R[i] EXCEPT !.v6 = None] ELSE R[i]]

\* unique_ipaddr4 and unique_ipaddr6 count deleted rows too.
Collides(R, i, r) ==
    \E j \in DOMAIN R \ {i} : \/ r.v4 # None /\ R[j].v4 = r.v4
                              \/ r.v6 # None /\ R[j].v6 = r.v6

\* Mutant of Put: the data of a row that is used again are kept.
PutKeepingData(R, i, r) ==
    IF i \in DOMAIN R THEN [R EXCEPT ![i] = [r EXCEPT !.oper = R[i].oper]] ELSE Append(R, r)

Put(R, i, r) == IF i \in DOMAIN R THEN [R EXCEPT ![i] = r] ELSE Append(R, r)

\* The row to write: the holder of the IPv4 address, or of the IPv6 address.
Target(R, info) ==
    CHOOSE i \in IF Holder4(R, info.v4) # {} THEN Holder4(R, info.v4)
                 ELSE IF Holder6(R, info.v6) # {} THEN Holder6(R, info.v6)
                 ELSE {Len(R) + 1} : TRUE

\* The other rows give up the addresses that the target does not have yet.
Claimed(R, info) ==
    LET i == Target(R, info)
        reset == [j \in DOMAIN R |->
                    IF Holder4(R, info.v4) # {} /\ j \in Holder6(R, info.v6) \ {i}
                      THEN [R[j] EXCEPT !.v6 = None] ELSE R[j]]
        has4 == info.v4 = None \/ i \in Holder4(R, info.v4)
        has6 == info.v6 = None \/ i \in Holder6(R, info.v6)
        claimed4 == IF has4 THEN reset ELSE Claim4(reset, info.asn, info.v4)
    IN IF has6 THEN claimed4 ELSE Claim6(claimed4, info.asn, info.v6)

\* Mutant of AddNetixlan: the row is validated before addresses are claimed.
AddNetixlanClaimingLate(R, info) ==
    IF Outside(info.v4) \/ Outside(info.v6) \/ HeldElsewhere(R, info.v4, info.v6)
      THEN [rows |-> R, verdict |-> "invalid"]
    ELSE IF Collides(R, Target(R, info), info)
      THEN [rows |-> Claimed(R, info), verdict |-> "invalid"]
    ELSE [rows |-> Put(Claimed(R, info), Target(R, info), info), verdict |-> "add"]

AddNetixlan(R, info) ==
    IF Outside(info.v4) \/ Outside(info.v6) \/ HeldElsewhere(R, info.v4, info.v6)
      THEN [rows |-> R, verdict |-> "invalid"]
    ELSE IF Collides(Claimed(R, info), Target(R, info), info)
      THEN [rows |-> Claimed(R, info), verdict |-> "invalid"]
    ELSE [rows |-> Put(Claimed(R, info), Target(R, info), info), verdict |-> "add"]

(***************************************************************************)
(* IXFMemberData.apply for one object, its requirements aside: the action  *)
(* it stands for (add, modify, delete or noop) is done.  The addresses of  *)
(* an add come from the deleted row that matches, if one does.             *)
(***************************************************************************)
AddInfo(R, m, found) ==
    LET from == IF found = {} THEN m.key ELSE KeyOf(R[CHOOSE i \in found : TRUE]) IN
    [asn |-> m.key.asn,
     v4 |-> IF net[m.key.asn].p4 THEN from.v4 ELSE None,
     v6 |-> IF net[m.key.asn].p6 THEN from.v6 ELSE None,
     oper |-> m.now.oper, here |-> TRUE, status |-> "ok"]

(* A reassigned deletion is done even if no row matches it: a deleted row  *)
(* is then inserted, unless the database finds one of its addresses taken. *)
InsertDeleted(R, m) ==
    LET r == [asn |-> m.key.asn, v4 |-> m.key.v4, v6 |-> m.key.v6,
              oper |-> m.now.oper, here |-> TRUE, status |-> "deleted"] IN
    IF Collides(R, 0, r) THEN [rows |-> R, verdict |-> "crash"]
    ELSE [rows |-> Append(R, r), verdict |-> "delete"]

ApplyOne(R, m, reassigned) ==
    LET found == Matching(R, m.key, m.now.data = "gone")
        i == CHOOSE i \in found : TRUE
        info == AddInfo(R, m, found)
        absent == IF found = {} THEN TRUE ELSE ~Active(R[i])
    IN
    IF Cardinality(found) > 1 THEN [rows |-> R, verdict |-> "crash"] ELSE
    CASE found = {} /\ m.now.data = "gone" /\ reassigned -> InsertDeleted(R, m)
      [] absent /\ m.now.data = "gone" /\ ~(found = {} /\ reassigned) ->
           [rows |-> R, verdict |-> "noop"]
      [] ~absent /\ m.now.data = "gone" ->
           [rows |-> [R EXCEPT ![i].status = "deleted"], verdict |-> "delete"]
      [] absent /\ m.now.data = "member" ->
           IF info.v4 = None /\ info.v6 = None
             THEN [rows |-> R, verdict |-> "noop"]
             ELSE AddNetixlan(R, info)
      [] ~absent /\ m.now.data = "member" ->
           [rows |-> [R EXCEPT ![i].oper = m.now.oper], verdict |-> "modify"]

Stopped(s) == s.verdict \in {"invalid", "crash"}

(* apply_requirements: the requirements of m, and theirs, come before it.  *)
(* When each of those that are left has a requirement among them, the      *)
(* recursion has no end, and Python stops it with an exception.            *)
ApplyNext(P, m, reassigned, s) ==
    LET ready == {k \in s.left : \A j \in s.left \cap DOMAIN P : P[j].req # k}
        k == CHOOSE k \in ready : TRUE
        done == IF k = m.key THEN ApplyOne(s.rows, m, reassigned)
                ELSE ApplyOne(s.rows, FromTable(P, k), FALSE)
    IN
    CASE Stopped(s) -> s
      [] ~Stopped(s) /\ ready = {} -> [s EXCEPT !.verdict = "crash"]
      [] ~Stopped(s) /\ ready # {} ->
           [rows |-> done.rows, verdict |-> done.verdict, left |-> s.left \ {k}]

Apply(R, P, m, reassigned) ==
    LET all == {m.key} \cup (IF m.saved THEN Dependents(P, {m.key}) ELSE {})
        applied[n \in 0..Cardinality(all)] ==
          IF n = 0 THEN [rows |-> R, verdict |-> "noop", left |-> all]
          ELSE ApplyNext(P, m, reassigned, applied[n - 1])
    IN applied[Cardinality(all)]

-----------------------------------------------------------------------------
(***************************************************************************)
(* What the importer does with an object it does not apply.  S is the      *)
(* state of a run: the rows, the proposals and a verdict.                  *)
(***************************************************************************)
Differs(m) == m.was.data # m.now.data \/ m.was.oper # m.now.oper

SetConflict(P, m) ==
    LET known ==
          \E k \in DOMAIN P : /\ k.asn = m.key.asn /\ P[k].error
                              /\ \/ k.v4 # None /\ k.v4 = m.key.v4
                                 \/ k.v6 # None /\ k.v6 = m.key.v6
    IN
    IF ~m.saved /\ known THEN P
    ELSE IF ~m.was.error \/ (m.saved /\ m.was.oper # m.now.oper)
      THEN Store(P, [m EXCEPT !.now.error = TRUE])
    ELSE IF Differs(m) THEN Store(P, m)
    ELSE P

SetUpdate(P, m) == IF ~m.saved \/ Differs(m) THEN Store(P, m) ELSE P

SetRemove(R, P, m) ==
    LET marked == \E i \in Matching(R, m.key, TRUE) : Active(R[i]) IN
    IF (~m.saved /\ marked) \/ (m.saved /\ m.was.data = "member")
      THEN Store(P, m) ELSE P

\* Mutant of FreeGhosts: connections of the network itself are ghosts too.
FreeGhostsOwn(R, m) ==
    [i \in DOMAIN R |-> [R[i] EXCEPT
       !.v4 = IF Active(R[i]) /\ R[i].v4 = m.key.v4 THEN None ELSE R[i].v4,
       !.v6 = IF Active(R[i]) /\ R[i].v6 = m.key.v6 THEN None ELSE R[i].v6]]

(* validate_real_peer_vs_ghost_peer, for a connection that the feed lists: *)
(* active connections of other networks give up its addresses.             *)
FreeGhosts(R, m) ==
    [i \in DOMAIN R |->
       LET r == R[i]
           ghost == Active(r) /\ r.asn # m.key.asn
           v4 == IF ghost /\ r.v4 = m.key.v4 THEN None ELSE r.v4
           v6 == IF ghost /\ r.v6 = m.key.v6 THEN None ELSE r.v6
       IN [r EXCEPT !.v4 = v4, !.v6 = v6,
                    !.status = IF <<v4, v6>> # <<r.v4, r.v6>> /\ v4 = None /\ v6 = None
                                 THEN "deleted" ELSE r.status]]

(* set_add: a new proposal is validated first, and that has the effect of  *)
(* freeing ghosts, although the network does not let the importer write.   *)
SetAdd(R, P, m) ==
    LET isNew == Matching(R, m.key, FALSE) = {}
        outside == Outside(m.key.v4) \/ Outside(m.key.v6)
        freed == IF isNew /\ ~outside THEN FreeGhosts(R, m) ELSE R
        invalid == isNew /\ (outside \/ Collides(freed, 0, m.key))
    IN
    IF ~m.saved
      THEN [rows |-> freed, verdict |-> "noop",
            props |-> Store(P, [m EXCEPT !.now.error = invalid])]
    ELSE [rows |-> R, verdict |-> "noop",
          props |-> IF Differs(m) THEN Store(P, m) ELSE P]

(* consolidate_delete_add: deletions of the same network that hold one of  *)
(* the addresses of an add become its requirements (#770).                 *)
Consolidate(R, P, m, deletions) ==
    LET touching == {d \in deletions :
                       /\ d.key.asn = m.key.asn
                       /\ \/ d.key.v4 # None /\ d.key.v4 = m.i4
                          \/ d.key.v6 # None /\ d.key.v6 = m.i6}
        required == {d \in touching :
                       /\ ~(d.key \in DOMAIN P /\ P[d.key].req = m.key)
                       /\ Matching(R, d.key, TRUE) \cap Matching(R, m.key, FALSE) = {}}
        keys == {d.key : d \in required}
        with == [k \in DOMAIN P \cup keys |->
                   IF k \in keys
                     THEN [(CHOOSE d \in required : d.key = k).now EXCEPT !.req = m.key]
                     ELSE P[k]]
    IN
    IF required = {} THEN P ELSE Store(with, [m EXCEPT !.now.error = FALSE])

\* apply_add_or_update.
Save(R, P, m, deletions) ==
    LET found == Matching(R, m.key, FALSE)
        exists == \E i \in found : Active(R[i])
        listed == exists /\ \A i \in found : R[i].oper = m.now.oper
        applied == Apply(R, P, m, FALSE)
        allow == net[m.key.asn].allow
        added == SetAdd(R, P, m)
        settled == [rows |-> applied.rows, verdict |-> applied.verdict,
                    props |-> CASE applied.verdict = "invalid" -> SetConflict(P, m)
                                [] applied.verdict = "noop" /\ ~exists -> Resolve(P, m)
                                [] OTHER -> P]
    IN
    IF Cardinality(found) > 1 THEN [rows |-> R, props |-> P, verdict |-> "crash"] ELSE
    CASE listed -> [rows |-> R, props |-> Resolve(P, m), verdict |-> "noop"]
      [] exists /\ ~listed /\ ~allow ->
           [rows |-> R, props |-> SetUpdate(P, m), verdict |-> "noop"]
      [] ~exists /\ ~allow ->
           [added EXCEPT !.props = Consolidate(added.rows, @, m, deletions)]
      [] OTHER -> settled

\* One round of process_deletions, for the connection r.
Delete(R, P, r, reassigned) ==
    LET m == Instantiate(Deduped(P, KeyOf(r)), KeyOf(r), "gone", r.oper)
        Q == Deduped(P, KeyOf(r))
        applied == Apply(R, Q, m, reassigned)
    IN
    [m |-> m,
     after |-> IF reassigned \/ net[r.asn].allow
                 THEN [rows |-> applied.rows, props |-> Q, verdict |-> applied.verdict]
                 ELSE [rows |-> R, props |-> SetRemove(R, Q, m), verdict |-> "noop"]]

-----------------------------------------------------------------------------
\* Importer.update begins, with the member list of the exchange in hand.
Start(F) ==
    /\ run \in {Idle, Failed}
    /\ F # last => runs < MaxRuns
    /\ runs' = IF F = last THEN runs ELSE runs + 1
    /\ run' = [phase |-> "parse", feed |-> F,
               todo |-> {e \in F : e.v4 \in Prefix \/ e.v6 \in Prefix},
               ids |-> {}, owner |-> [v \in V4 \cup V6 |-> None],
               pending |-> <<>>, deletions |-> {}, seen |-> {},
               before |-> [rows |-> rows, props |-> props]]
    /\ UNCHANGED <<net, rows, props, last, edits>>

\* An exception: the transaction of the run is rolled back.
Fail ==
    /\ run' = Failed
    /\ rows' = run.before.rows
    /\ props' = run.before.props
    /\ last' = None

(* The identities that parse_vlans appends for an entry.  For a network    *)
(* without a protocol, connections keep the address of that protocol, here *)
(* by the first active row with the same other address, whose ever it is.  *)
First(S) == {rows[i] : i \in {i \in S : \A j \in S : i <= j}}

IdsOf(e) ==
    LET active == {i \in DOMAIN rows : Active(rows[i])} IN
    {KeyOf(e)}
    \cup (IF net[e.asn].p6 THEN {}
          ELSE {[KeyOf(e) EXCEPT !.v6 = v] :
                  v \in {None} \cup {r.v6 : r \in First({i \in active : rows[i].v4 = e.v4})}})
    \cup (IF net[e.asn].p4 THEN {}
          ELSE {[KeyOf(e) EXCEPT !.v4 = v] :
                  v \in {None} \cup {r.v4 : r \in First({i \in active : rows[i].v6 = e.v6})}})

\* One entry of the member list (parse_vlans, IXFMemberData.instantiate).
Parse(e) ==
    LET m == Instantiate(Deduped(props, KeyOf(e)), KeyOf(e), "member", e.oper)
        named == UNION {{k.v4, k.v6} : k \in IdsOf(e)}
    IN
    /\ run.phase = "parse"
    /\ e \in run.todo
    /\ props' = Deduped(props, KeyOf(e))
    /\ run' = [run EXCEPT
                 !.todo = @ \ {e},
                 !.ids = @ \cup IdsOf(e),
                 !.owner = [v \in V4 \cup V6 |-> IF v \in named THEN e.asn ELSE @[v]],
                 !.pending = IF m.key.v4 = None /\ m.key.v6 = None THEN @ ELSE Append(@, m),
                 !.seen = @ \cup {m.key}]
    /\ UNCHANGED <<net, rows, last, runs, edits>>

\* process_deletions: the connections that the member list lacks.
BeginDeletions ==
    /\ run.phase = "parse"
    /\ run.todo = {}
    /\ run' = [run EXCEPT
                 !.phase = "apply",
                 !.todo = {i \in DOMAIN rows : /\ Active(rows[i]) /\ rows[i].here
                                               /\ KeyOf(rows[i]) \notin run.ids}]
    /\ UNCHANGED <<net, rows, props, last, runs, edits>>

\* Mutant of Reassigned: an address that is gone counts as reassigned.
ReassignedOrGone(r) ==
    \/ r.v4 # None /\ run.owner[r.v4] # r.asn
    \/ r.v6 # None /\ run.owner[r.v6] # r.asn

\* _ip_reassigned_in_feed.
Reassigned(r) ==
    \/ r.v4 # None /\ run.owner[r.v4] \notin {None, r.asn}
    \/ r.v6 # None /\ run.owner[r.v6] \notin {None, r.asn}

DeleteStep(i) ==
    LET r == run.before.rows[i] IN  \* as it was when the loop began
    /\ run.phase = "apply"
    /\ i \in run.todo
    /\ \E done \in {Delete(rows, props, r, Reassigned(r))} :
       IF Stopped(done.after) THEN Fail
       ELSE /\ rows' = done.after.rows
            /\ props' = done.after.props
            /\ run' = [run EXCEPT !.todo = @ \ {i},
                                  !.deletions = {d \in @ : d.key # done.m.key} \cup {done.m},
                                  !.seen = @ \cup {done.m.key}]
            /\ UNCHANGED last
    /\ UNCHANGED <<net, runs, edits>>

\* process_saves: the next entry, in the order of the list.
SaveStep ==
    /\ run.phase = "apply"
    /\ run.todo = {}
    /\ run.pending # <<>>
    /\ \E done \in {Save(rows, props, Head(run.pending), run.deletions)} :
       IF done.verdict = "crash" \/ ~ForeignKeys(done.props) THEN Fail
       ELSE /\ rows' = done.rows
            /\ props' = done.props
            /\ run' = [run EXCEPT !.pending = Tail(@)]
            /\ UNCHANGED last
    /\ UNCHANGED <<net, runs, edits>>

\* IXFMemberData.action of a proposal in the table, add and modify in one.
Action(k) ==
    LET found == Matching(rows, k, props[k].data = "gone")
        exists == \E i \in found : Active(rows[i])
    IN
    CASE props[k].data = "gone" -> IF exists THEN "delete" ELSE "noop"
      [] props[k].data = "member" /\ exists /\ (\A i \in found : rows[i].oper = props[k].oper)
           -> "noop"
      [] OTHER -> "change"

Unique(k) == Cardinality(Matching(rows, k, props[k].data = "gone")) <= 1

\* Mutant of Cleanup: proposals that are gone from the list are kept.
CleanupNoopOnly ==
    /\ run.phase = "apply"
    /\ run.todo = {}
    /\ run.pending = <<>>
    /\ props' = Without(props, {k \in DOMAIN props : props[k].req = None /\ Action(k) = "noop"})
    /\ run' = [run EXCEPT !.phase = "cleaned"]
    /\ UNCHANGED <<net, rows, last, runs, edits>>

\* cleanup_ixf_member_data: proposals that nothing speaks for any more.
Cleanup ==
    /\ run.phase = "apply"
    /\ run.todo = {}
    /\ run.pending = <<>>
    /\ IF \A k \in DOMAIN props : Unique(k)
         THEN /\ props' = Without(props, {k \in DOMAIN props :
                            /\ props[k].req = None
                            /\ \/ Action(k) = "noop"
                               \/ Action(k) = "change" /\ k \notin run.ids})
              /\ run' = [run EXCEPT !.phase = "cleaned"]
              /\ UNCHANGED <<rows, last>>
         ELSE Fail
    /\ UNCHANGED <<net, runs, edits>>

(* What few runs leave behind: a requirement that is on the list again,    *)
(* and so holds member data, and one that has a requirement of its own.    *)
Stale(P) == \E k \in DOMAIN P : P[k].req # None /\ P[k].data = "member"
Chained(P) == \E k \in DOMAIN P : P[k].req \in DOMAIN P /\ P[P[k].req].req # None

Plain(P) == ~Stale(P) /\ ~Chained(P)

(* cleanup_aged_proposals and the commit: of the deletions that this run   *)
(* saw again, those notified often enough are done without the network.    *)
Aged ==
    {k \in DOMAIN props \cap run.seen \cap DOMAIN run.before.props :
        props[k].req = None /\ Action(k) = "delete"}

Finish(K) ==
    /\ run.phase = "cleaned"
    /\ K \subseteq Aged
    /\ rows' = [i \in DOMAIN rows |->
                  IF \E k \in K : i \in Matching(rows, k, TRUE)
                    THEN [rows[i] EXCEPT !.status = "deleted"] ELSE rows[i]]
    /\ props' = Without(props, K)
    /\ run' = Idle
    /\ last' = IF K = {} /\ Plain(run.before.props) THEN run.feed ELSE None
    /\ UNCHANGED <<net, runs, edits>>

-----------------------------------------------------------------------------
\* What users do between two runs.
Edit ==
    /\ run \in {Idle, Failed}
    /\ edits < MaxEdits
    /\ edits' = edits + 1
    /\ last' = None
    /\ UNCHANGED <<run, runs>>

(***************************************************************************)
(* NetworkSerializer.update: turning allow_ixp_update on applies all that  *)
(* is proposed for the network, in the order of the table, unless the      *)
(* exchange has its import switched off (enabled).                         *)
(***************************************************************************)
TurnOn(a, enabled) ==
    LET K == {k \in DOMAIN props : k.asn = a /\ props[k].req = None} IN
    /\ Edit
    /\ ~net[a].allow
    /\ net' = [net EXCEPT ![a].allow = TRUE]
    /\ UNCHANGED props
    /\ IF ~enabled THEN UNCHANGED rows
       ELSE \E order \in SetToSeqs(K) :
              LET applied[n \in 0..Len(order)] ==
                    IF n = 0 THEN [rows |-> rows, verdict |-> "noop"]
                    ELSE IF applied[n - 1].verdict = "crash" THEN applied[n - 1]
                    ELSE Apply(applied[n - 1].rows, props, FromTable(props, order[n]), FALSE)
                  done == applied[Len(order)]
              IN done.verdict # "crash" /\ rows' = done.rows

TurnOff(a) ==
    /\ Edit
    /\ net[a].allow
    /\ net' = [net EXCEPT ![a].allow = FALSE]
    /\ UNCHANGED <<rows, props>>

SetSupport(a, p) ==
    /\ Edit
    /\ <<net[a].p4, net[a].p6>> # p
    /\ net' = [net EXCEPT ![a].p4 = p[1], ![a].p6 = p[2]]
    /\ UNCHANGED <<rows, props>>

\* A network adds a connection, with addresses nobody has had before.
UserAdd(e) ==
    /\ Edit
    /\ e.v4 # None \/ e.v6 # None
    /\ ~Outside(e.v4) /\ ~Outside(e.v6)
    /\ ~Collides(rows, 0, e)
    /\ rows' = Append(rows, [asn |-> e.asn, v4 |-> e.v4, v6 |-> e.v6, oper |-> e.oper,
                             here |-> TRUE, status |-> "ok"])
    /\ UNCHANGED <<net, props>>

UserDelete(i) ==
    /\ Edit
    /\ Active(rows[i])
    /\ rows' = [rows EXCEPT ![i].status = "deleted"]
    /\ UNCHANGED <<net, props>>

RunStep ==
    \/ \E F \in Feeds : Start(F)
    \/ run.phase = "parse" /\ \E e \in run.todo : Parse(e)
    \/ BeginDeletions
    \/ run.phase = "apply" /\ \E i \in run.todo : DeleteStep(i)
    \/ SaveStep
    \/ Cleanup
    \/ run.phase = "cleaned" /\ \E K \in SUBSET Aged : Finish(K)

UserStep ==
    \/ \E a \in Asns : \/ \E enabled \in BOOLEAN : TurnOn(a, enabled)
                       \/ TurnOff(a)
                       \/ \E p \in Supports : SetSupport(a, p)
    \/ \E e \in Entry : UserAdd(e)
    \/ \E i \in DOMAIN rows : UserDelete(i)

Next == RunStep \/ UserStep

Spec == Init /\ [][Next]_vars

-----------------------------------------------------------------------------
Cleaned == run.phase = "cleaned"

(***************************************************************************)
(* A network that does not allow the importer to update keeps what it has: *)
(* a run adds nothing for it, and its connections change only when the     *)
(* list gives one of their addresses to another network (#1897), or when   *)
(* their deletion was the requirement of a proposal: it is applied with it,*)
(* also when that proposal is deleted for such a reassignment.  A run that *)
(* begins with a requirement that holds member data is excepted: to apply  *)
(* it is to claim the addresses of a connection that is not on the list.   *)
(***************************************************************************)
GivenBy(F, r) ==
    \E e \in F : /\ e.asn # r.asn
                /\ \/ r.v4 # None /\ e.v4 = r.v4
                   \/ r.v6 # None /\ e.v6 = r.v6

GivenAway(r) == GivenBy(run.feed, r)

Required(r) ==
    KeyOf(r) \in DOMAIN run.before.props /\ run.before.props[KeyOf(r)].req # None

Before(i) ==
    IF i \in DOMAIN run.before.rows THEN run.before.rows[i]
    ELSE [asn |-> None, v4 |-> None, v6 |-> None, status |-> "deleted"]

Respected(R) ==
    \A i \in DOMAIN R :
       /\ Active(Before(i)) /\ ~net[Before(i).asn].allow /\ R[i] # Before(i)
             => GivenAway(Before(i)) \/ Required(Before(i))
       /\ Active(R[i]) /\ (~Active(Before(i)) \/ R[i].asn # Before(i).asn)
             => net[R[i].asn].allow

AllowRespected == Cleaned /\ ~Stale(run.before.props) => Respected(rows)

(* What makes it inductive for networks with both protocols: what applies  *)
(* a proposal applies requirements of the same network; those with member  *)
(* data are on the list, and until the list is saved there are none.       *)
SameNetwork(P) == \A k \in DOMAIN P : P[k].req # None => P[k].req.asn = k.asn

OnList(k) == \E e \in run.feed : KeyOf(e) = k

AllowInv ==
    /\ \A a \in Asns : net[a].p4 /\ net[a].p6
    /\ SameNetwork(props)
    /\ run \notin {Idle, Failed} =>
          /\ SameNetwork(run.before.props)
          /\ \A i \in DOMAIN run.pending :
                LET m == run.pending[i] IN
                /\ m.now.data = "member" /\ OnList(m.key)
                /\ m.now.req # None => m.now.req.asn = m.key.asn
          /\ \A d \in run.deletions : d.now.data = "gone"
          /\ \A v \in V4 \cup V6 : run.owner[v] # None =>
                \E e \in run.feed : e.asn = run.owner[v] /\ v \in {e.v4, e.v6}
          /\ ~Stale(run.before.props) =>
                /\ DOMAIN run.before.rows \subseteq DOMAIN rows
                /\ Respected(rows)
                /\ run.phase # "cleaned" =>
                      \A k \in DOMAIN props :
                         props[k].req # None /\ props[k].data = "member" => OnList(k)
                /\ run.phase = "parse" \/ run.todo # {} =>
                      \A k \in DOMAIN props :
                         props[k].req # None => props[k].data = "gone" /\ Required(k)

(***************************************************************************)
(* After a run, what a network that allows updates has on the LAN is what  *)
(* the list says it has: no connection that is not on it, and for each     *)
(* entry the connection, or a proposal that carries the error.  A          *)
(* connection without addresses stays, though: the importer finds no row   *)
(* for it (pdb_delete_addressless_netixlan removes it).  Another gap is    *)
(* left: set_conflict does not record an error while an earlier one of the *)
(* network, for other addresses, shares one, and cleanup may drop that one *)
(* in the same run: the entry is recorded by the next run only.  A run that*)
(* begins with a stale or a chained requirement is excepted: when what     *)
(* requires it is applied, it may add or delete against the list.          *)
(***************************************************************************)
Wanted(e) ==
    /\ net[e.asn].allow
    /\ e.v4 \in Prefix \/ e.v6 \in Prefix
    /\ (net[e.asn].p4 /\ e.v4 # None) \/ (net[e.asn].p6 /\ e.v6 # None)

\* An active connection on the LAN that has an address.
Present(r) == Active(r) /\ r.here /\ (r.v4 # None \/ r.v6 # None)

Listed(e) ==
    \/ \E i \in DOMAIN rows : /\ Active(rows[i]) /\ Same(KeyOf(e), rows[i], FALSE)
                              /\ rows[i].oper = e.oper
    \/ \E k \in DOMAIN props : Same(KeyOf(e), k, FALSE) /\ props[k].error

\* Two identities of one network that share an address.
Touch(k, l) ==
    /\ k.asn = l.asn
    /\ \/ k.v4 # None /\ k.v4 = l.v4
       \/ k.v6 # None /\ k.v6 = l.v6

Shadowed(e) ==
    \E k \in DOMAIN run.before.props :
       k # KeyOf(e) /\ Touch(k, e) /\ run.before.props[k].error

Converges ==
    Cleaned /\ Plain(run.before.props) =>
    /\ \A i \in DOMAIN rows :
          Present(rows[i]) /\ net[rows[i].asn].allow => KeyOf(rows[i]) \in run.ids
    /\ \A e \in run.feed : Wanted(e) => Listed(e) \/ Shadowed(e)

(***************************************************************************)
(* After a run the proposals that are shown are real: one with member data *)
(* is on the list and differs from what the network has, one without it    *)
(* names a connection that can be deleted; and the deletions that belong   *)
(* to another proposal belong to one that exists.                          *)
(***************************************************************************)
ProposalsOpen ==
    Cleaned =>
    \A k \in DOMAIN props :
       IF props[k].req # None THEN props[k].req \in DOMAIN props \ {k}
       ELSE IF props[k].data = "member" THEN k \in run.ids /\ Action(k) = "change"
       ELSE Action(k) = "delete"

(* What makes it inductive: at any time a requirement belongs to another   *)
(* proposal that exists, also in the table that a failed run goes back to, *)
(* and no object of the run that may still be saved belongs to itself.     *)
Attached(P) ==
    \A k \in DOMAIN P : P[k].req # None => P[k].req \in DOMAIN P \ {k}

ImportInv ==
    /\ TypeOK
    /\ run.phase = "parse" => rows = run.before.rows
    /\ Attached(props)
    /\ run \notin {Idle, Failed} =>
          /\ Attached(run.before.props)
          /\ \A i \in DOMAIN run.pending :
                LET m == run.pending[i] IN m.now.req # None => m.now.req # m.key
    /\ ProposalsOpen

(***************************************************************************)
(* Reading the same list again, nothing having happened since, changes no  *)
(* connection.  "last" does not count the runs that Converges excepts.     *)
(* What is active on another LAN must hold no address of this one, as      *)
(* validate_ipaddr4, validate_ipaddr6 and validate_prefix_overlap see to:  *)
(* it would bar an entry of its network, lose its other address to an      *)
(* entry of another, and then be taken for the first, so that the next run *)
(* modifies it.                                                            *)
(***************************************************************************)
SecondRunIdle ==
    Cleaned /\ run.feed = last => rows = run.before.rows

(***************************************************************************)
(* add_netixlan: "we need to check if this ipaddress exists on a           *)
(* soft-deleted netixlan elsewhere, and reset if so".  An entry whose      *)
(* addresses belong to the LAN and to no active connection is connected by *)
(* the run, whatever was deleted earlier; what the network itself deleted  *)
(* on another LAN is excepted, as the code does not reset it, and so are   *)
(* the runs that Converges excepts.                                        *)
(***************************************************************************)
Apart(r, k) ==
    /\ k.v4 = None \/ r.v4 # k.v4
    /\ k.v6 = None \/ r.v6 # k.v6

Free(e) ==
    \A r \in Range(run.before.rows) :
       Active(r) \/ (~r.here /\ r.asn = e.asn) => Apart(r, e)

Unblocked(e) == ~Outside(e.v4) /\ ~Outside(e.v6) /\ Free(e)

DeletedDoNotBlock ==
    Cleaned /\ Plain(run.before.props) =>
    \A e \in run.feed :
       Wanted(e) /\ Unblocked(e)
       => \E i \in DOMAIN rows : Active(rows[i]) /\ Same(KeyOf(e), rows[i], FALSE)

(***************************************************************************)
(* What makes both inductive for networks with both protocols.  At any     *)
(* time no two rows hold the same address, rows of the LAN hold addresses  *)
(* of the LAN, and a requirement shares an address with what requires it   *)
(* and has none that a row of another LAN holds.                           *)
(***************************************************************************)
Home(R, k) ==
    /\ ~Outside(k.v4) /\ ~Outside(k.v6)
    /\ \A i \in DOMAIN R : R[i].here \/ Apart(R[i], k)

AddressInv(R, P) ==
    /\ Unshared(R)
    /\ \A i \in DOMAIN R : R[i].here => ~Outside(R[i].v4) /\ ~Outside(R[i].v6)
    /\ \A k \in DOMAIN P : P[k].req # None => Touch(k, P[k].req) /\ Home(R, k)

\* Rows of other LANs only lose addresses, or become inactive.
Away(R, S) ==
    \A i \in DOMAIN S : ~S[i].here =>
       /\ i \in DOMAIN R /\ ~R[i].here /\ S[i].asn = R[i].asn
       /\ S[i].v4 \in {R[i].v4, None} /\ S[i].v6 \in {R[i].v6, None}
       /\ Active(S[i]) => Active(R[i])

\* An object made from an entry of the list and what the run found.
Fresh(m) ==
    /\ m.key \in run.ids
    /\ m.i4 = m.key.v4 /\ m.i6 = m.key.v6
    /\ m.saved <=> m.key \in DOMAIN run.before.props
    /\ IF m.saved THEN m.was = run.before.props[m.key] ELSE ~m.was.error /\ m.was.req = None
    /\ m.now = [m.was EXCEPT !.data = "member", !.oper = m.now.oper]
    /\ \E e \in run.feed : KeyOf(e) = m.key /\ e.oper = m.now.oper

\* What the list says of an entry is done, or recorded.
Joined(e) ==
    \E i \in DOMAIN rows : Active(rows[i]) /\ KeyOf(rows[i]) = KeyOf(e) /\ rows[i].oper = e.oper

Recorded(e) ==
    /\ KeyOf(e) \in DOMAIN props
    /\ props[KeyOf(e)] = [data |-> "member", oper |-> e.oper, req |-> None, error |-> TRUE]

Settled(e) == Joined(e) \/ (~Unblocked(e) /\ (Recorded(e) \/ Shadowed(e)))

Unsaved(e) == \E i \in DOMAIN run.pending : run.pending[i].key = KeyOf(e)

\* Of networks that allow updates, only proposals for the list are written.
Untouched(P) ==
    \A k \in DOMAIN P : net[k.asn].allow =>
       \/ k \in DOMAIN run.before.props /\ P[k] = run.before.props[k]
       \/ OnList(k) /\ (P[k].req # None => /\ k \in DOMAIN run.before.props
                                           /\ P[k].req = run.before.props[k].req)

\* A run that is not excepted, while it removes and adds connections.
Converging ==
    /\ \A i \in DOMAIN rows : Present(rows[i]) /\ net[rows[i].asn].allow
          => KeyOf(rows[i]) \in run.ids \/ i \in run.todo
    /\ run.todo # {} => \A i \in DOMAIN rows : Active(rows[i])
          => i \in DOMAIN run.before.rows /\ rows[i] = run.before.rows[i]
    /\ Untouched(props)
    /\ \A i \in DOMAIN run.pending :
          LET m == run.pending[i] IN
          net[m.key.asn].allow =>
             /\ ~m.saved => m.key \notin DOMAIN props
             /\ m.saved /\ m.was.req = None
                  => m.key \in DOMAIN props /\ props[m.key] = m.was
    /\ \A e \in run.feed : Wanted(e) => Unsaved(e) \/ (run.todo = {} /\ Settled(e))

ConvergeInv ==
    /\ AddressInv(rows, props)
    /\ run \notin {Idle, Failed} =>
          /\ AddressInv(run.before.rows, run.before.props)
          /\ Away(run.before.rows, rows)
          /\ \A i \in DOMAIN run.pending : Fresh(run.pending[i])
          /\ \A i, j \in DOMAIN run.pending :
                i # j => run.pending[i].key # run.pending[j].key
          /\ \A d \in run.deletions : Home(rows, d.key)
          /\ \A k \in run.ids : OnList(k)
          /\ \A e \in run.feed : e.v4 \in Prefix \/ e.v6 \in Prefix =>
                \/ run.phase = "parse" /\ e \in run.todo
                \/ KeyOf(e) \in run.ids /\ (run.phase = "parse" => Unsaved(e))
          /\ run.phase = "parse" => props = run.before.props
          /\ run.phase = "parse" => \A i \in DOMAIN run.pending :
                \A e \in run.todo : run.pending[i].key # KeyOf(e)
          /\ run.phase = "apply" =>
                \A i \in run.todo : run.before.rows[i].here
          /\ run.phase = "apply" /\ Plain(run.before.props) => Converging
    /\ Converges
    /\ DeletedDoNotBlock

(***************************************************************************)
(* What makes SecondRunIdle inductive, where no connection that is active  *)
(* on another LAN holds an address of this one: for the list F a run has   *)
(* nothing left to do.  What is active is on the list, or a network keeps  *)
(* it that does not allow updates, and the list gives its addresses to     *)
(* nobody else; an entry is connected, or the add is refused and writes    *)
(* nothing; and applying an entry applies only deletions with it.          *)
(***************************************************************************)
Separate(R) ==
    \A i \in DOMAIN R : Active(R[i]) =>
       R[i].here \/ (R[i].v4 \notin Prefix /\ R[i].v6 \notin Prefix)

Entered(F, k) == \E e \in F : KeyOf(e) = k

\* A deleted row of the network on another LAN is in the way, and no other.
Barred(R, k) ==
    /\ \E i \in DOMAIN R : ~R[i].here /\ R[i].asn = k.asn /\ ~Apart(R[i], k)
    /\ \A i \in DOMAIN R : ~R[i].here /\ R[i].asn # k.asn => Apart(R[i], k)

Done(R, e) ==
    \/ \E i \in DOMAIN R : Active(R[i]) /\ KeyOf(R[i]) = KeyOf(e) /\ R[i].oper = e.oper
    \/ Outside(e.v4) \/ Outside(e.v6) \/ Barred(R, e)

Backed(F, P) ==
    \A k \in DOMAIN P : net[k.asn].allow /\ P[k].req # None =>
       /\ P[k].data = "gone" \/ Entered(F, k)
       /\ P[k].req \in DOMAIN P => P[P[k].req].req = None

Quiet(F, R, P) ==
    /\ \A i \in DOMAIN R : Present(R[i]) =>
          Entered(F, KeyOf(R[i])) \/ (~net[R[i].asn].allow /\ ~GivenBy(F, R[i]))
    /\ \A e \in F : Wanted(e) => Done(R, e)
    /\ Backed(F, P)

QuietInv ==
    /\ Separate(rows)
    /\ run \in {Idle, Failed} /\ last # None => Quiet(last, rows, props)
    /\ run \notin {Idle, Failed} =>
          /\ Separate(run.before.rows)
          /\ last # None => Quiet(last, run.before.rows, run.before.props)
          /\ last = run.feed => rows = run.before.rows /\ Untouched(props)
          /\ \A e \in run.feed :
                (e.v4 \in Prefix \/ e.v6 \in Prefix) /\ ~(run.phase = "parse" /\ e \in run.todo) =>
                \A v \in {e.v4, e.v6} \ {None} : run.owner[v] = e.asn
          /\ \A k \in run.ids : k.v4 \in Prefix \/ k.v6 \in Prefix
          /\ run.phase = "parse" => \A e \in run.todo : e.v4 \in Prefix \/ e.v6 \in Prefix
          /\ run.phase = "apply" => \A i \in run.todo :
                Active(run.before.rows[i]) /\ KeyOf(run.before.rows[i]) \notin run.ids
          /\ run.phase = "apply" /\ Plain(run.before.props) =>
                /\ \A i \in DOMAIN rows :
                      Active(rows[i]) /\ rows[i].here /\ GivenBy(run.feed, rows[i])
                      => KeyOf(rows[i]) \in run.ids \/ i \in run.todo
                /\ \A e \in run.feed : Wanted(e) => Unsaved(e) \/ (run.todo = {} /\ Done(rows, e))
          /\ run.phase = "cleaned" /\ Plain(run.before.props) => Quiet(run.feed, rows, props)
    /\ SecondRunIdle
=============================================================================
