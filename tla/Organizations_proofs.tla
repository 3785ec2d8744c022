------------------------ MODULE Organizations_proofs -----------------------
(***************************************************************************)
(* Proofs about Organizations: type correctness; no active network in a    *)
(* deleted organization, unless by a save of what was read before; RDAP    *)
(* hands no deleted organization to anybody; the undoing of a merge        *)
(* restores what there was.                                                *)
(***************************************************************************)
EXTENDS Organizations, TLAPS

---------------------------------------------------------------------------
(* The parts of the state. *)

LEMMA DisturbedMerges ==
    ASSUME NEW S \in SUBSET Merges, \A m \in S : m.from # m.to
    PROVE  /\ Disturbed(S) \subseteq Merges
           /\ \A m \in Disturbed(S) : m.from # m.to /\ m.before = None
           /\ \A m \in Disturbed(S) : \E k \in S : m.nets = k.nets
BY DEF Disturbed, Merges

LEMMA JoinsType ==
    ASSUME TypeOK, NEW u \in Requesters, NEW o \in Orgs, Joins(u, o)
    PROVE  /\ member' \in [Orgs -> SUBSET Users]
           /\ admin' \in [Orgs -> SUBSET Users]
BY OrganizationsAssumption DEF Joins, TypeOK

\* The requests on file.
RowsTyped ==
    /\ req \in [Requesters -> Requests \cup {None}]
    /\ \A u \in Requesters : (req[u] # None /\ req[u].org = None /\ req[u].asn # None)
                                => req[u].status = "denied"

\* A row that may be on file: one with an ASN has an organization or is denied.
Proper(row) == row \in Requests \cup {None}
               /\ (row # None /\ row.org = None /\ row.asn # None
                      => row.status = "denied")

LEMMA RowType ==
    ASSUME NEW n \in Networks \cup {None}, NEW o \in Orgs,
           NEW status \in {"pending", "denied", "canceled"}
    PROVE  /\ Proper(Row(n, o, status)) /\ Proper(Row(n, None, "denied"))
           /\ Proper(Row(None, None, status)) /\ Proper(None)
BY OrganizationsAssumption DEF Proper, Row, Requests

LEMMA DeniedType ==
    ASSUME NEW u \in Requesters, NEW n \in Networks \cup {None},
           NEW o \in Orgs \cup {None}
    PROVE  Proper(Denied(u, n, o))
BY OrganizationsAssumption DEF Denied, Proper, Row, Requests

LEMMA KeepsType ==
    ASSUME RowsTyped, NEW u \in Requesters, NEW row, Proper(row), Keeps(u, row)
    PROVE  RowsTyped'
BY DEF Keeps, Proper, RowsTyped

LEMMA FilesType ==
    ASSUME RowsTyped, NEW u \in Requesters, NEW row, Proper(row), Files(u, row)
    PROVE  RowsTyped'
BY DEF Files, Proper, RowsTyped

LEMMA StoresType ==
    ASSUME RowsTyped, NEW u \in Requesters, NEW row, Proper(row), NEW filed,
           Stores(u, row, filed)
    PROVE  RowsTyped'
BY KeepsType, FilesType DEF Stores

LEMMA WaitsType ==
    ASSUME TypeOK, NEW u \in Requesters, NEW next \in Jobs, Waits(u, next)
    PROVE  job' \in [Requesters -> Jobs]
BY DEF Waits, TypeOK

LEMMA IdleJob == Idle \in Jobs
BY DEF Jobs

\* What a requester's step leaves alone besides its own row and job.
OthersTyped ==
    /\ org \in [Orgs -> OrgStatus]
    /\ net \in [Networks -> NetRows]
    /\ \A n \in Networks : (net[n].status = "none") = (net[n].org = None)
    /\ member \in [Orgs -> SUBSET Users]
    /\ admin \in [Orgs -> SUBSET Users]
    /\ merges \subseteq Merges
    /\ \A m \in merges : m.from # m.to /\ \A n \in m.nets : net[n].status # "none"
    /\ late \subseteq Networks

LEMMA TypeParts == TypeOK <=> OthersTyped /\ RowsTyped /\ job \in [Requesters -> Jobs]
BY DEF TypeOK, OthersTyped, RowsTyped

LEMMA TypeNext ==
    ASSUME OthersTyped', RowsTyped', job' \in [Requesters -> Jobs]
    PROVE  TypeOK'
BY DEF TypeOK, OthersTyped, RowsTyped

LEMMA UnownedTyped ==
    ASSUME TypeOK, Unowned
    PROVE  OthersTyped'
BY TypeParts DEF Unowned, OthersTyped

---------------------------------------------------------------------------
(* Type correctness. *)

LEMMA InitTypeOK == Init => TypeOK
BY IdleJob, OrganizationsAssumption
   DEF Init, TypeOK, OrgStatus, NetRows, Requests

LEMMA CreationType ==
    ASSUME TypeOK, NEW u \in Requesters, NEW n \in Networks \cup {None},
           NEW o \in Orgs \cup {None}, NEW filed \in BOOLEAN,
           uoar_creation(u, n, o, filed)
    PROVE  RowsTyped' /\ job' \in [Requesters -> Jobs]
<1>0. Derived(n, o) \in Orgs \cup {None} /\ RowsTyped
  BY TypeParts DEF Derived, TypeOK, NetRows
<1>1. CASE Derived(n, o) = None /\ n = None
  <2>1. Waits(u, Idle) /\ Stores(u, Row(None, None, "pending"), filed)
    BY <1>1 DEF uoar_creation
  <2>2. Proper(Row(None, None, "pending"))
    BY DEF Proper, Row, Requests
  <2> QED
    BY <1>0, <2>1, <2>2, IdleJob, WaitsType, StoresType
<1>2. CASE Derived(n, o) = None /\ n # None
  <2>1. [kind |-> "new", asn |-> n, undelete |-> net[n].status = "deleted"] \in Jobs
    BY <1>2 DEF Jobs
  <2> QED
    BY <1>0, <1>2, <2>1, WaitsType DEF uoar_creation, RowsTyped
<1>3. CASE Derived(n, o) # None
  <2> DEFINE target == Derived(n, o)
  <2>1. target \in Orgs
    BY <1>0, <1>3
  <2>2. Proper(Row(n, target, "pending")) /\ Proper(None) /\ Proper(Denied(u, n, target))
    BY <2>1, RowType, DeniedType
  <2>3. CASE admin[target] # {}
    <3>1. WithAdmins(u, n, target, filed)
      BY <1>3, <2>3 DEF uoar_creation
    <3>2. job' \in [Requesters -> Jobs]
      BY <3>1, IdleJob, WaitsType DEF WithAdmins
    <3>3. \E row : Proper(row) /\ Stores(u, row, filed)
      BY <3>1, <2>2 DEF WithAdmins
    <3> QED
      BY <1>0, <3>2, <3>3, StoresType
  <2>4. CASE admin[target] = {} /\ net_set_active(target) = {}
    BY <1>0, <1>3, <2>2, <2>4, IdleJob, WaitsType, StoresType DEF uoar_creation
  <2>5. CASE admin[target] = {} /\ net_set_active(target) # {}
    <3>1. [kind |-> "claim", asn |-> n, org |-> target, filed |-> filed] \in Jobs
      BY <2>1 DEF Jobs
    <3> HIDE DEF target
    <3>2. /\ Waits(u, [kind |-> "claim", asn |-> n, org |-> target, filed |-> filed])
          /\ IF filed THEN Keeps(u, Row(n, target, "pending")) ELSE UNCHANGED req
      BY <1>3, <2>5 DEF uoar_creation, target
    <3>3. CASE filed
      BY <1>0, <3>1, <3>2, <3>3, <2>2, WaitsType, KeepsType
    <3>4. CASE ~filed
      BY <1>0, <3>1, <3>2, <3>4, WaitsType DEF RowsTyped
    <3> QED
      BY <3>3, <3>4
  <2> QED
    BY <2>3, <2>4, <2>5
<1> QED
  BY <1>1, <1>2, <1>3

\* The steps of a requester.
LEMMA RequesterType ==
    ASSUME TypeOK, NEW u \in Requesters, Requester(u)
    PROVE  TypeOK'
<1> USE IdleJob
<1>0. RowsTyped
  BY TypeParts
<1>1. CASE \E n \in Networks \cup {None}, o \in Orgs \cup {None} : AffiliateTo(u, n, o)
  <2>1. PICK n \in Networks \cup {None}, o \in Orgs \cup {None} : AffiliateTo(u, n, o)
    BY <1>1
  <2>2. uoar_creation(u, n, o, FALSE) /\ Unowned
    BY <2>1 DEF AffiliateTo
  <2> QED
    BY <2>2, CreationType, UnownedTyped, TypeNext
<1>2. CASE \E o \in Orgs : view_request_ownership(u, o)
  <2>1. PICK o \in Orgs : view_request_ownership(u, o)
    BY <1>2
  <2>2. uoar_creation(u, None, o, FALSE) /\ Unowned
    BY <2>1 DEF view_request_ownership
  <2> QED
    BY <2>2, CreationType, UnownedTyped, TypeNext
<1>3. CASE \E n \in Networks, o \in Orgs : AddNetwork(u, n, o)
  <2>1. PICK n \in Networks, o \in Orgs : AddNetwork(u, n, o)
    BY <1>3
  <2>2. [kind |-> "add", asn |-> n, org |-> o] \in Jobs
    BY DEF Jobs
  <2> QED
    BY <2>1, <2>2, WaitsType, UnownedTyped, TypeParts, TypeNext DEF AddNetwork, RowsTyped
<1>14. CASE \E n \in Networks : LoadNetwork(u, n)
  <2>1. PICK n \in Networks : LoadNetwork(u, n)
    BY <1>14
  <2>2. net[n].org \in Orgs
    BY <2>1 DEF LoadNetwork, TypeOK, NetRows
  <2>3. [kind |-> "edit", asn |-> n, org |-> net[n].org] \in Jobs
    BY <2>2 DEF Jobs
  <2> QED
    BY <2>1, <2>3, WaitsType, UnownedTyped, TypeParts, TypeNext DEF LoadNetwork, RowsTyped
<1>4. CASE Recheck(u)
  <2>1. [kind |-> "recheck", asn |-> req[u].asn, org |-> req[u].org] \in Jobs
    BY <1>4 DEF Recheck, Jobs, TypeOK, Requests
  <2> QED
    BY <1>4, <2>1, WaitsType, UnownedTyped, TypeParts, TypeNext DEF Recheck, RowsTyped
<1>5. CASE Rechecked(u)
  <2>1. job[u].asn \in Networks /\ job[u].org \in Orgs
    BY <1>5 DEF Rechecked, Jobs, Idle, TypeOK
  <2>2. CASE uoar_creation(u, job[u].asn, job[u].org, TRUE)
    BY <1>5, <2>1, <2>2, CreationType, UnownedTyped, TypeNext DEF Rechecked
  <2>3. CASE Waits(u, Idle) /\ UNCHANGED req
    BY <1>5, <2>3, WaitsType, UnownedTyped, TypeParts, TypeNext DEF Rechecked, RowsTyped
  <2> QED
    BY <1>5, <2>2, <2>3 DEF Rechecked
<1>6. CASE Claimed(u)
  <2>1. job[u].asn \in Networks \cup {None} /\ job[u].org \in Orgs
    BY <1>6 DEF Claimed, Jobs, Idle, TypeOK
  <2>2. job' \in [Requesters -> Jobs]
    BY <1>6, WaitsType DEF Claimed
  <2>3. RowsTyped'
    <3>1. Proper(Row(job[u].asn, job[u].org, "pending")) /\ Proper(None)
      BY <2>1, RowType
    <3> QED
      BY <1>0, <1>6, <3>1, FilesType, StoresType DEF Claimed, RowsTyped
  <2>4. OthersTyped'
    BY <1>6, <2>1, JoinsType, DisturbedMerges DEF Claimed, OthersTyped, TypeOK
  <2> QED
    BY <2>2, <2>3, <2>4, TypeParts, TypeNext
<1>7. CASE LookupFails(u)
  <2>1. job[u].asn \in Networks
    BY <1>7 DEF LookupFails, Jobs, Idle, TypeOK
  <2>2. Proper(Row(job[u].asn, None, "denied"))
    BY <2>1, OrganizationsAssumption DEF Proper, Row, Requests
  <2> QED
    BY <1>0, <1>7, <2>2, WaitsType, FilesType, UnownedTyped, TypeNext DEF LookupFails
<1>8. CASE Fails(u)
  BY <1>8, WaitsType, UnownedTyped, TypeParts, TypeNext DEF Fails, RowsTyped
<1>9. ASSUME NEW o \in Orgs, job[u].kind = "new", Established(u, o)
      PROVE  /\ org' \in [Orgs -> OrgStatus]
             /\ net' \in [Networks -> NetRows]
             /\ \A n \in Networks : (net'[n].status = "none") = (net'[n].org = None)
             /\ merges' \subseteq Merges /\ \A m \in merges' : m.from # m.to
             /\ \A m \in merges' : \A n \in m.nets : net'[n].status # "none"
             /\ late' \subseteq Networks
  <2>1. job[u].asn \in Networks
    BY <1>9 DEF Jobs, Idle, TypeOK
  <2>2. \A n \in Networks : net[n].status # "none" => net'[n].status # "none"
    BY <1>9, <2>1 DEF Established, TypeOK, NetRows
  <2>3. \A m \in merges' : \E k \in merges : m.nets = k.nets /\ k \in Merges
    BY <1>9, DisturbedMerges DEF Established, TypeOK
  <2>4. \A m \in merges' : \A n \in m.nets : net'[n].status # "none"
    BY <2>2, <2>3 DEF TypeOK, Merges
  <2> QED
    BY <1>9, <2>1, <2>4, DisturbedMerges, OrganizationsAssumption
       DEF Established, create_from_rdap, TypeOK, OrgStatus, NetRows
<1>10. CASE \E o \in Orgs : CreatesNetwork(u, o)
  <2>1. PICK o \in Orgs : CreatesNetwork(u, o)
    BY <1>10
  <2>2. job[u].asn \in Networks
    BY <2>1 DEF CreatesNetwork, Jobs, Idle, TypeOK
  <2>3. CASE Established(u, o) /\ Waits(u, Idle)
              /\ \/ Joins(u, o) /\ Files(u, None)
                 \/ Files(u, Row(job[u].asn, o, "pending")) /\ UNCHANGED <<member, admin>>
    <3>1. RowsTyped'
      BY <1>0, <2>2, <2>3, RowType, FilesType
    <3>2. OthersTyped'
      BY <1>9, <2>1, <2>3, JoinsType DEF CreatesNetwork, OthersTyped, TypeOK
    <3> QED
      BY <2>3, <3>1, <3>2, WaitsType, TypeParts, TypeNext
  <2> QED
    BY <1>8, <2>1, <2>3 DEF CreatesNetwork
<1>11. CASE \E o \in Orgs : UndeletesNetwork(u, o)
  <2>1. PICK o \in Orgs : UndeletesNetwork(u, o)
    BY <1>11
  <2>2. job[u].asn \in Networks
    BY <2>1 DEF UndeletesNetwork, Jobs, Idle, TypeOK
  <2>3. CASE Established(u, o) /\ Waits(u, Idle) /\ Joins(u, o) /\ Files(u, None)
    <3>1. RowsTyped'
      BY <1>0, <2>2, <2>3, RowType, FilesType
    <3>2. OthersTyped'
      BY <1>9, <2>1, <2>3, JoinsType DEF UndeletesNetwork, OthersTyped, TypeOK
    <3> QED
      BY <2>3, <3>1, <3>2, WaitsType, TypeParts, TypeNext
  <2>4. CASE /\ org' = create_from_rdap(o)
             /\ merges' = IF org' = org THEN merges ELSE Disturbed(merges)
             /\ Waits(u, Idle) /\ Files(u, Denied(u, job[u].asn, o))
             /\ UNCHANGED <<net, member, admin, late>>
    <3>1. RowsTyped'
      BY <1>0, <2>2, <2>4, DeniedType, FilesType
    <3>2. OthersTyped'
      BY <2>4, DisturbedMerges DEF create_from_rdap, OthersTyped, TypeOK, OrgStatus
    <3> QED
      BY <2>4, <3>1, <3>2, WaitsType, TypeParts, TypeNext
  <2> QED
    BY <1>8, <2>1, <2>3, <2>4 DEF UndeletesNetwork
<1>12. CASE NetworkSaved(u)
  <2>1. job[u].asn \in Networks /\ job[u].org \in Orgs
    BY <1>12 DEF NetworkSaved, Jobs, Idle, TypeOK
  <2>2. CASE ~Fails(u)
    <3>1. \A m \in merges' : \E k \in merges : m.nets = k.nets /\ k \in Merges
      BY <1>12, <2>2, DisturbedMerges DEF NetworkSaved, TypeOK
    <3>2. /\ net' \in [Networks -> NetRows]
          /\ \A n \in Networks : (net'[n].status = "none") = (net'[n].org = None)
          /\ \A n \in Networks : net[n].status # "none" => net'[n].status # "none"
      <4>1. net' = [net EXCEPT ![job[u].asn] = [status |-> "ok", org |-> job[u].org]]
        BY <1>12, <2>2 DEF NetworkSaved
      <4>2. [status |-> "ok", org |-> job[u].org] \in NetRows /\ job[u].org # None
        BY <2>1, OrganizationsAssumption DEF NetRows, OrgStatus
      <4> QED
        BY <2>1, <4>1, <4>2 DEF TypeOK
    <3>3. \A m \in merges' : \A n \in m.nets : net'[n].status # "none"
      BY <3>1, <3>2 DEF TypeOK, Merges
    <3> QED
      BY <1>12, <2>1, <2>2, <3>2, <3>3, WaitsType, DisturbedMerges DEF NetworkSaved, TypeOK
  <2> QED
    BY <1>8, <2>2
<1>13. CASE cancel_affiliation_request(u)
  <2>1. Proper([req[u] EXCEPT !.status = "canceled"])
    BY <1>13 DEF cancel_affiliation_request, Proper, TypeOK, Requests
  <2> QED
    BY <1>0, <1>13, <2>1, KeepsType, UnownedTyped, TypeParts, TypeNext
       DEF cancel_affiliation_request
<1> QED
  BY <1>1, <1>2, <1>3, <1>4, <1>5, <1>6, <1>7, <1>10, <1>11, <1>12, <1>13, <1>14
     DEF Requester

LEMMA CancelType ==
    ASSUME TypeOK, NEW o \in Orgs, CancelRequests(o)
    PROVE  RowsTyped'
BY DEF CancelRequests, RowsTyped, TypeOK, Requests

LEMMA OthersType ==
    ASSUME TypeOK, Others
    PROVE  TypeOK'
<1>0. RowsTyped
  BY TypeParts
<1>1. CASE \E u \in Requesters : uoar_deny(u)
  <2>1. PICK u \in Requesters : uoar_deny(u)
    BY <1>1
  <2>2. Proper(Denied(u, req[u].asn, req[u].org))
    BY <2>1, DeniedType DEF uoar_deny, Decidable, TypeOK, Requests
  <2> QED
    BY <1>0, <2>1, <2>2, KeepsType, UnownedTyped, TypeParts, TypeNext DEF uoar_deny
<1>2. CASE \E u \in Requesters : uoar_approve(u)
  <2>1. PICK u \in Requesters : uoar_approve(u)
    BY <1>2
  <2>2. req[u].org \in Orgs /\ Proper(None)
    BY <2>1 DEF uoar_approve, Decidable, TypeOK, Requests, Proper
  <2>3. RowsTyped'
    BY <1>0, <2>1, <2>2, KeepsType DEF uoar_approve
  <2>4. OthersTyped'
    BY <2>1, <2>2, JoinsType, DisturbedMerges DEF uoar_approve, OthersTyped, TypeOK
  <2> QED
    BY <2>1, <2>3, <2>4, TypeNext DEF uoar_approve, TypeOK
<1>3. CASE \E u \in Requesters : DeleteOutdated(u)
  <2>1. Proper(None)
    BY DEF Proper
  <2> QED
    BY <1>0, <1>3, <2>1, KeepsType, UnownedTyped, TypeParts, TypeNext DEF DeleteOutdated
<1>8. CASE \E u \in Requesters, o \in Orgs : SetOrg(u, o)
  <2>1. PICK u \in Requesters, o \in Orgs : SetOrg(u, o)
    BY <1>8
  <2>2. Proper([req[u] EXCEPT !.org = o])
    BY <2>1, OrganizationsAssumption DEF SetOrg, Proper, TypeOK, Requests
  <2> QED
    BY <1>0, <2>1, <2>2, KeepsType, UnownedTyped, TypeParts, TypeNext DEF SetOrg
<1>4. ASSUME NEW o \in Orgs, NEW u \in Users, NEW roles, SetRole(o, u, roles)
      PROVE  TypeOK'
  BY <1>4, DisturbedMerges DEF SetRole, TypeOK
<1>5. CASE \E n \in Networks : DeleteNetwork(n)
  <2>1. PICK n \in Networks : DeleteNetwork(n)
    BY <1>5
  <2>2. /\ net[n].org # None /\ net[n] \in NetRows
        /\ net' = [net EXCEPT ![n].status = "deleted"]
    BY <2>1, OrganizationsAssumption DEF DeleteNetwork, TypeOK
  <2>3. /\ net' \in [Networks -> NetRows]
        /\ \A k \in Networks : (net'[k].status = "none") = (net'[k].org = None)
        /\ \A k \in Networks : net[k].status # "none" => net'[k].status # "none"
    BY <2>2 DEF TypeOK, NetRows, OrgStatus
  <2>4. /\ merges' \subseteq Merges /\ \A m \in merges' : m.from # m.to
        /\ \A m \in merges' : \E k \in merges : m.nets = k.nets /\ k \in Merges
    BY <2>1, DisturbedMerges DEF DeleteNetwork, TypeOK
  <2>5. \A m \in merges' : \A k \in m.nets : net'[k].status # "none"
    BY <2>3, <2>4 DEF TypeOK, Merges
  <2> QED
    BY <2>1, <2>3, <2>4, <2>5 DEF DeleteNetwork, TypeOK
<1>6. CASE \E o \in Orgs : DeleteOrg(o)
  <2>1. PICK o \in Orgs : DeleteOrg(o)
    BY <1>6
  <2>2. /\ net' \in [Networks -> NetRows]
        /\ \A k \in Networks : (net'[k].status = "none") = (net'[k].org = None)
        /\ \A k \in Networks : net[k].status # "none" => net'[k].status # "none"
    BY <2>1, OrganizationsAssumption DEF DeleteOrg, NetsOf, TypeOK, NetRows, OrgStatus
  <2>3. /\ merges' \subseteq Merges /\ \A m \in merges' : m.from # m.to
        /\ \A m \in merges' : \E k \in merges : m.nets = k.nets /\ k \in Merges
    BY <2>1, DisturbedMerges DEF DeleteOrg, TypeOK
  <2>4. \A m \in merges' : \A k \in m.nets : net'[k].status # "none"
    BY <2>2, <2>3 DEF TypeOK, Merges
  <2>5. OthersTyped'
    BY <2>1, <2>2, <2>3, <2>4 DEF DeleteOrg, OthersTyped, TypeOK, OrgStatus
  <2> QED
    BY <2>1, <2>5, CancelType, TypeNext DEF DeleteOrg, TypeOK
<1>7. CASE \E o \in Orgs : RestoreOrg(o)
  BY <1>7, DisturbedMerges DEF RestoreOrg, TypeOK, OrgStatus
<1> QED
  BY <1>1, <1>2, <1>3, <1>4, <1>5, <1>6, <1>7, <1>8
     DEF Others, manage_user_update, add_organization_user, view_remove_org_affiliation

LEMMA MergeType ==
    ASSUME TypeOK, NEW from \in Orgs, NEW to \in Orgs, merge_organizations(from, to)
    PROVE  TypeOK'
<1> DEFINE members == Moved(member[from], to)
           admins == Moved(admin[from], to)
           before == [org |-> org, net |-> net, member |-> member, admin |-> admin]
           new == [from |-> from, to |-> to, nets |-> MergedNets(from),
                   members |-> members, admins |-> admins, before |-> before]
<1>1. members \subseteq Users /\ admins \subseteq Users /\ MergedNets(from) \subseteq Networks
  BY DEF Moved, MergedNets, NetsOf, TypeOK
<1>2. before \in Snapshots
  BY DEF Snapshots, TypeOK
<1> HIDE DEF members, admins, before
<1>3. new \in Merges /\ new.from # new.to
  BY <1>1, <1>2 DEF Merges, merge_organizations
<1> HIDE DEF new
<1>4. /\ merges' = Disturbed(merges) \cup {new}
      /\ member' = [member EXCEPT ![to] = @ \cup members \cup admins, ![from] = {}]
  BY DEF merge_organizations, new, members, admins, before
<1>5. merges' \subseteq Merges /\ \A m \in merges' : m.from # m.to
  BY <1>3, <1>4, DisturbedMerges DEF TypeOK
<1>9. \A m \in merges' : \A n \in m.nets : net'[n].status # "none"
  <2>1. \A n \in Networks : net'[n].status = net[n].status
    BY DEF merge_organizations, TypeOK, NetRows
  <2>2. \A m \in Disturbed(merges) : \A n \in m.nets : n \in Networks /\ net[n].status # "none"
    BY DisturbedMerges DEF TypeOK, Merges
  <2>3. \A n \in new.nets : n \in Networks /\ net[n].status # "none"
    BY OrganizationsAssumption DEF new, MergedNets, NetsOf, TypeOK
  <2> QED
    BY <1>4, <2>1, <2>2, <2>3
<1>6. member' \in [Orgs -> SUBSET Users]
  BY <1>1, <1>4 DEF TypeOK
<1>7. /\ net' \in [Networks -> NetRows]
      /\ \A n \in Networks : (net'[n].status = "none") = (net'[n].org = None)
  BY OrganizationsAssumption DEF merge_organizations, NetsOf, TypeOK, NetRows
<1>8. OthersTyped'
  BY <1>5, <1>9, <1>6, <1>7 DEF merge_organizations, OthersTyped, TypeOK, OrgStatus
<1> QED
  BY <1>8, CancelType, TypeNext DEF merge_organizations, TypeOK

LEMMA UndoType ==
    ASSUME TypeOK, NEW m \in merges, undo(m)
    PROVE  TypeOK'
<1>1. /\ m.from \in Orgs /\ m.to \in Orgs /\ m.nets \subseteq Networks
      /\ m.members \subseteq Users /\ m.admins \subseteq Users
  BY DEF TypeOK, Merges
<1>2. merges' \subseteq Merges /\ \A k \in merges' : k.from # k.to
  BY DisturbedMerges DEF undo, TypeOK
<1>3. late' \subseteq Networks /\ org' \in [Orgs -> OrgStatus]
  BY <1>1 DEF undo, TypeOK, OrgStatus
<1>4. member' \in [Orgs -> SUBSET Users] /\ admin' \in [Orgs -> SUBSET Users]
  BY <1>1 DEF undo, TypeOK
<1>5. /\ net' \in [Networks -> NetRows]
      /\ \A n \in Networks : (net'[n].status = "none") = (net'[n].org = None)
      /\ \A n \in Networks : net'[n].status = net[n].status
  BY <1>1, OrganizationsAssumption DEF undo, TypeOK, NetRows
<1>6. \A k \in merges' : \A n \in k.nets : net'[n].status # "none"
  <2>1. \A k \in merges' : \E j \in merges : k.nets = j.nets
    BY DisturbedMerges DEF undo, TypeOK
  <2> QED
    BY <1>5, <2>1 DEF TypeOK, Merges
<1> QED
  BY <1>2, <1>3, <1>4, <1>5, <1>6 DEF undo, TypeOK

LEMMA NextType == TypeOK /\ [Next]_vars => TypeOK'
<1> SUFFICES ASSUME TypeOK, [Next]_vars PROVE TypeOK'
  OBVIOUS
<1>1. CASE UNCHANGED vars
  BY <1>1 DEF vars, TypeOK
<1> QED
  BY <1>1, RequesterType, OthersType, MergeType, UndoType DEF Next, Merging

\* Every variable keeps its type: a request by ASN has an organization or is
\* denied, a network without organization does not exist.
THEOREM TypeCorrect == Spec => []TypeOK
BY InitTypeOK, NextType, PTL DEF Spec

---------------------------------------------------------------------------
(* No active network in a deleted organization. *)

IInv == TypeOK /\ ParentStatus

LEMMA InitParentStatus == Init => ParentStatus
BY DEF Init, ParentStatus

\* Organizations only come into being, or all is as before.
LEMMA EstablishedParent ==
    ASSUME IInv, NEW u \in Requesters, NEW o \in Orgs, job[u].kind = "new",
           Established(u, o), validate_parent_status(o)
    PROVE  ParentStatus' /\ org'[o] = "ok"
<1>1. job[u].asn \in Networks
  BY DEF Jobs, Idle, IInv, TypeOK
<1>2. org'[o] = "ok" /\ \A p \in Orgs : org[p] = "ok" => org'[p] = "ok"
  BY DEF Established, create_from_rdap, validate_parent_status, IInv, TypeOK, OrgStatus
<1>3. \A n \in Networks : n # job[u].asn => net'[n] = net[n]
  BY <1>1 DEF Established, IInv, TypeOK
<1>4. net'[job[u].asn] = [status |-> "ok", org |-> o]
  BY <1>1 DEF Established, IInv, TypeOK
<1>5. \A n \in Networks : net[n].status = "ok" => net[n].org \in Orgs
  BY DEF IInv, TypeOK, NetRows
<1> QED
  BY <1>2, <1>3, <1>4, <1>5 DEF ParentStatus, IInv, Established

LEMMA UnownedParent ==
    ASSUME ParentStatus, UNCHANGED <<org, net, late>>
    PROVE  ParentStatus'
BY DEF ParentStatus

LEMMA RequesterParent ==
    ASSUME IInv, NEW u \in Requesters, Requester(u)
    PROVE  ParentStatus'
<1>1. CASE UNCHANGED <<org, net, late>>
  BY <1>1, UnownedParent DEF IInv
<1>2. CASE \E o \in Orgs : CreatesNetwork(u, o)
  BY <1>1, <1>2, EstablishedParent DEF CreatesNetwork, Fails, Unowned
<1>3. CASE \E o \in Orgs : UndeletesNetwork(u, o)
  <2>1. PICK o \in Orgs : UndeletesNetwork(u, o)
    BY <1>3
  <2>2. CASE org' = create_from_rdap(o) /\ UNCHANGED <<net, late>>
    <3>1. \A p \in Orgs : org[p] = "ok" => org'[p] = "ok"
      BY <2>2 DEF create_from_rdap, IInv, TypeOK
    <3>2. \A n \in Networks : net[n].status = "ok" => net[n].org \in Orgs
      BY DEF IInv, TypeOK, NetRows
    <3> QED
      BY <2>2, <3>1, <3>2 DEF ParentStatus, IInv
  <2> QED
    BY <1>1, <2>1, <2>2, EstablishedParent DEF UndeletesNetwork, Fails, Unowned
<1>4. CASE NetworkSaved(u)
  <2>1. job[u].asn \in Networks /\ job[u].org \in Orgs
    BY <1>4 DEF NetworkSaved, Jobs, Idle, IInv, TypeOK
  <2>2. CASE /\ net' = [net EXCEPT ![job[u].asn] = [status |-> "ok", org |-> job[u].org]]
             /\ late' = IF org[job[u].org] = "ok" THEN late \ {job[u].asn}
                        ELSE late \cup {job[u].asn}
             /\ UNCHANGED org
    <3>1. CASE org[job[u].org] = "ok"
      BY <2>1, <2>2, <3>1 DEF ParentStatus, IInv, TypeOK
    <3>2. CASE org[job[u].org] # "ok"
      BY <2>1, <2>2, <3>2 DEF ParentStatus, IInv, TypeOK
    <3> QED
      BY <3>1, <3>2
  <2> QED
    BY <1>1, <1>4, <2>2 DEF NetworkSaved, Fails, Unowned
<1> QED
  BY <1>1, <1>2, <1>3, <1>4
     DEF Requester, AffiliateTo, view_request_ownership, AddNetwork, LoadNetwork,
         Recheck, Rechecked, Claimed, LookupFails, cancel_affiliation_request, Unowned

LEMMA OthersParent ==
    ASSUME IInv, Others
    PROVE  ParentStatus'
<1>1. CASE UNCHANGED <<org, net, late>>
  BY <1>1, UnownedParent DEF IInv
<1>2. CASE \E n \in Networks : DeleteNetwork(n)
  BY <1>2 DEF DeleteNetwork, ParentStatus, IInv, TypeOK, NetRows
<1>4. CASE \E o \in Orgs : DeleteOrg(o)
  BY <1>4 DEF DeleteOrg, deletable, net_set_active, NetsOf, ParentStatus, IInv, TypeOK, NetRows
<1>5. CASE \E o \in Orgs : RestoreOrg(o)
  BY <1>5 DEF RestoreOrg, NetsOf, ParentStatus, IInv, TypeOK, NetRows
<1> QED
  BY <1>1, <1>2, <1>4, <1>5
     DEF Others, uoar_deny, uoar_approve, SetOrg, DeleteOutdated, Unowned, manage_user_update,
         add_organization_user, view_remove_org_affiliation, SetRole

LEMMA MergeParent ==
    ASSUME IInv, NEW from \in Orgs, NEW to \in Orgs, merge_organizations(from, to)
    PROVE  ParentStatus'
<1> SUFFICES ASSUME NEW n \in Networks \ late', net'[n].status = "ok"
             PROVE  org'[net'[n].org] = "ok"
  BY DEF ParentStatus
<1>1. CASE n \in NetsOf(from)
  <2>1. net'[n].org = to /\ net[n].status = "ok"
    BY <1>1 DEF merge_organizations, NetsOf, IInv, TypeOK, NetRows
  <2>2. n \in net_set_active(from)
    BY <1>1, <2>1 DEF net_set_active
  <2> QED
    BY <2>1, <2>2 DEF merge_organizations, validate_parent_status, IInv, TypeOK, OrgStatus
<1>2. CASE n \notin NetsOf(from)
  BY <1>2 DEF merge_organizations, NetsOf, ParentStatus, IInv, TypeOK, NetRows
<1> QED
  BY <1>1, <1>2

LEMMA UndoParent ==
    ASSUME IInv, NEW m \in merges, undo(m)
    PROVE  ParentStatus'
<1>1. m.from \in Orgs
  BY DEF IInv, TypeOK, Merges
<1> QED
  BY <1>1 DEF undo, NetsOf, ParentStatus, IInv, TypeOK, NetRows

LEMMA NextIInv == IInv /\ [Next]_vars => IInv'
<1> SUFFICES ASSUME IInv, [Next]_vars PROVE IInv'
  OBVIOUS
<1>1. CASE UNCHANGED vars
  BY <1>1, NextType, UnownedParent DEF vars, IInv
<1>2. CASE Next
  BY <1>2, NextType, RequesterParent, OthersParent, MergeParent, UndoParent
     DEF Next, Merging, IInv
<1> QED
  BY <1>1, <1>2

\* "A child cannot be `ok` or `pending` if the parent is `deleted`": no network
\* is active in a deleted organization, but one whose row was written from what
\* had been read before the deletion.
THEOREM ParentStatusHolds == Spec => []ParentStatus
<1>1. Init => IInv
  BY InitTypeOK, InitParentStatus DEF IInv
<1>2. IInv => ParentStatus
  BY DEF IInv
<1> QED
  BY <1>1, <1>2, NextIInv, PTL DEF Spec

---------------------------------------------------------------------------
(* RDAP hands no deleted organization to anybody. *)

LEMMA JoinsOne ==
    ASSUME TypeOK, NEW u \in Requesters, NEW p \in Orgs, Joins(u, p), NEW o \in Orgs, o # p
    PROVE  member'[o] = member[o] /\ admin'[o] = admin[o]
BY DEF Joins, TypeOK

LEMMA StepNoGhost ==
    ASSUME IInv, [Next]_vars, NEW u \in Requesters, NEW o \in Orgs,
           job[u].kind = "new", job'[u] = Idle,
           Filer[u] \in (member'[o] \cup admin'[o]) \ all_users(o)
    PROVE  org'[o] = "ok"
<1> USE DEF IInv
<1>1. job[u] # Idle /\ job'[u] # job[u]
  BY DEF Idle
<1>2. ~UNCHANGED <<member, admin>>
  BY DEF all_users
<1>3. PICK v \in Requesters : Requester(v)
  <2>1. ~UNCHANGED job
    BY <1>1
  <2> QED
    BY <2>1 DEF Next, Others, Merging, uoar_deny, uoar_approve, SetOrg, DeleteOutdated,
         manage_user_update, add_organization_user, view_remove_org_affiliation, SetRole,
         DeleteNetwork, DeleteOrg, RestoreOrg, merge_organizations, undo, vars
<1>4. \/ Claimed(v) \/ \E p \in Orgs : CreatesNetwork(v, p) \/ UndeletesNetwork(v, p)
  BY <1>2, <1>3
     DEF Requester, AffiliateTo, view_request_ownership, AddNetwork, LoadNetwork,
         Recheck, Rechecked, LookupFails, NetworkSaved, Fails, cancel_affiliation_request,
         Unowned
<1>5. v = u
  BY <1>1, <1>4
     DEF Claimed, CreatesNetwork, UndeletesNetwork, Fails, Waits, TypeOK
<1>6. PICK p \in Orgs : CreatesNetwork(u, p) \/ UndeletesNetwork(u, p)
  BY <1>4, <1>5 DEF Claimed
<1>7. Joins(u, p) /\ Established(u, p) /\ validate_parent_status(p)
  BY <1>2, <1>6 DEF CreatesNetwork, UndeletesNetwork, Fails, Unowned
<1>8. o = p
  BY <1>7, JoinsOne DEF all_users
<1> QED
  BY <1>7, <1>8, EstablishedParent

\* create_from_rdap may find a deleted organization of the name RDAP gives: no
\* request for a new ASN ever makes anybody a user of it.
THEOREM NoGhostOwnersHolds == Spec => NoGhostOwners
<1>1. IInv /\ [Next]_vars =>
        [\A u \in Requesters, o \in Orgs :
           (/\ job[u].kind = "new" /\ job'[u] = Idle
            /\ Filer[u] \in (member'[o] \cup admin'[o]) \ all_users(o)) => org'[o] = "ok"]_vars
  BY StepNoGhost
<1>2. Init => IInv
  BY InitTypeOK, InitParentStatus DEF IInv
<1> QED
  BY <1>1, <1>2, NextIInv, PTL DEF Spec, NoGhostOwners

---------------------------------------------------------------------------
(* The undoing of a merge. *)

\* A merge nothing has happened since: the state is what it made of before.
Quiet(m) ==
    /\ org = [m.before.org EXCEPT ![m.from] = "deleted"]
    /\ m.nets = {n \in Networks : m.before.net[n].org = m.from}
    /\ net = [n \in Networks |->
                 IF n \in m.nets THEN [m.before.net[n] EXCEPT !.org = m.to]
                 ELSE m.before.net[n]]
    /\ m.members = m.before.member[m.from] \ m.before.admin[m.to]
    /\ m.admins = m.before.admin[m.from] \ m.before.admin[m.to]
    /\ member = [m.before.member EXCEPT ![m.to] = @ \cup m.members \cup m.admins,
                                       ![m.from] = {}]
    /\ admin = [m.before.admin EXCEPT ![m.from] = {}]

QuietInv == \A m \in merges : m.before # None => Quiet(m)

\* Whoever changes what merges move, disturbs them.
LEMMA EverybodyDisturbs ==
    ASSUME TypeOK, [Next]_vars,
           ~ \E from, to \in Orgs : merge_organizations(from, to),
           ~ \E m \in merges : undo(m)
    PROVE  \/ UNCHANGED <<org, net, member, admin, merges>>
           \/ merges' = Disturbed(merges)
<1>1. CASE UNCHANGED vars
  BY <1>1 DEF vars
<1>2. CASE \E u \in Requesters : Requester(u)
  <2>1. PICK u \in Requesters : Requester(u)
    BY <1>2
  <2>2. CASE \E o \in Orgs : CreatesNetwork(u, o)
    BY <2>2 DEF CreatesNetwork, Established, Fails, Unowned
  <2>3. CASE \E o \in Orgs : UndeletesNetwork(u, o)
    BY <2>3 DEF UndeletesNetwork, Established, Fails, Unowned
  <2>4. CASE Claimed(u)
    BY <2>4 DEF Claimed
  <2>5. CASE NetworkSaved(u)
    BY <2>5 DEF NetworkSaved, Fails, Unowned
  <2> QED
    BY <2>1, <2>2, <2>3, <2>4, <2>5
       DEF Requester, AffiliateTo, view_request_ownership, AddNetwork, LoadNetwork,
           Recheck, Rechecked, LookupFails, cancel_affiliation_request, Unowned
<1>3. CASE Others
  BY <1>3
     DEF Others, uoar_deny, uoar_approve, SetOrg, DeleteOutdated, Unowned, manage_user_update,
         add_organization_user, view_remove_org_affiliation, SetRole, DeleteNetwork,
         DeleteOrg, RestoreOrg
<1> QED
  BY <1>1, <1>2, <1>3 DEF Next, Merging

LEMMA MergeQuiet ==
    ASSUME TypeOK, QuietInv, NEW from \in Orgs, NEW to \in Orgs,
           merge_organizations(from, to)
    PROVE  QuietInv'
<1>1. PICK new :
         /\ new = [from |-> from, to |-> to, nets |-> MergedNets(from),
                   members |-> Moved(member[from], to), admins |-> Moved(admin[from], to),
                   before |-> [org |-> org, net |-> net, member |-> member,
                               admin |-> admin]]
         /\ merges' = Disturbed(merges) \cup {new}
  BY DEF merge_organizations
<1>2. Quiet(new)'
  <2>1. /\ new.before.org = org /\ new.before.net = net
        /\ new.before.member = member /\ new.before.admin = admin
        /\ new.from = from /\ new.to = to /\ new.nets = MergedNets(from)
        /\ new.members = Moved(member[from], to) /\ new.admins = Moved(admin[from], to)
    BY <1>1
  <2>2. org' = [org EXCEPT ![from] = "deleted"] /\ admin' = [admin EXCEPT ![from] = {}]
    BY DEF merge_organizations
  <2>3. member' = [member EXCEPT ![to] = @ \cup new.members \cup new.admins, ![from] = {}]
    BY <2>1 DEF merge_organizations
  <2>4. new.nets = {n \in Networks : net[n].org = from}
    BY <2>1 DEF MergedNets, NetsOf
  <2>5. net' = [n \in Networks |-> IF n \in new.nets THEN [net[n] EXCEPT !.org = to]
                                  ELSE net[n]]
    BY <2>4 DEF merge_organizations, NetsOf
  <2> QED
    BY <2>1, <2>2, <2>3, <2>4, <2>5 DEF Quiet, Moved
<1>3. \A m \in Disturbed(merges) : m.before = None
  BY DisturbedMerges DEF TypeOK
<1> QED
  BY <1>1, <1>2, <1>3 DEF QuietInv

LEMMA NextQuiet == TypeOK /\ QuietInv /\ [Next]_vars => QuietInv'
<1> SUFFICES ASSUME TypeOK, QuietInv, [Next]_vars PROVE QuietInv'
  OBVIOUS
<1>1. CASE UNCHANGED <<org, net, member, admin, merges>>
  BY <1>1 DEF QuietInv, Quiet
<1>2. CASE merges' = Disturbed(merges)
  BY <1>2, DisturbedMerges DEF QuietInv, TypeOK
<1>3. CASE \E m \in merges : undo(m)
  <2>1. PICK m \in merges : undo(m)
    BY <1>3
  <2>2. merges' = Disturbed(merges \ {m})
    BY <2>1 DEF undo
  <2> QED
    BY <2>2, DisturbedMerges DEF QuietInv, TypeOK
<1> QED
  BY <1>1, <1>2, <1>3, MergeQuiet, EverybodyDisturbs

LEMMA UndoneIsBefore ==
    ASSUME TypeOK, QuietInv, NEW m \in merges, m.before # None,
           m.before.org[m.from] = "ok", undo(m),
           NEW both, both = (m.before.member[m.from] \cup m.before.admin[m.from])
                               \cap (m.before.member[m.to] \cup m.before.admin[m.to])
    PROVE  /\ org' = m.before.org
           /\ net' = m.before.net
           /\ \A o \in Orgs : /\ member'[o] \ both = m.before.member[o] \ both
                              /\ admin'[o] \ both = m.before.admin[o] \ both
<1>1. /\ Quiet(m) /\ m.before \in Snapshots /\ m.from \in Orgs /\ m.to \in Orgs
      /\ m.from # m.to
  BY DEF QuietInv, TypeOK, Merges
<1>2. m.before.org \in [Orgs -> OrgStatus] /\ m.before.net \in [Networks -> NetRows]
  BY <1>1 DEF Snapshots
<1>3. m.before.member \in [Orgs -> SUBSET Users] /\ m.before.admin \in [Orgs -> SUBSET Users]
  BY <1>1 DEF Snapshots
<1>4. org' = m.before.org
  BY <1>1, <1>2 DEF undo, Quiet
<1>5. net' = m.before.net
  <2>1. \A n \in Networks : net'[n] = m.before.net[n]
    BY <1>1, <1>2 DEF undo, Quiet, NetRows
  <2>2. net' \in [Networks -> NetRows]
    BY UndoType DEF TypeOK
  <2> QED
    BY <1>2, <2>1, <2>2
<1>6. ASSUME NEW o \in Orgs
      PROVE  /\ member'[o] \ both = m.before.member[o] \ both
             /\ admin'[o] \ both = m.before.admin[o] \ both
  <2>1. CASE o = m.from
    BY <1>1, <1>3, <2>1 DEF undo, Quiet, TypeOK
  <2>2. CASE o = m.to
    BY <1>1, <1>3, <2>2 DEF undo, Quiet, TypeOK
  <2>3. CASE o # m.from /\ o # m.to
    BY <1>1, <1>3, <2>3 DEF undo, Quiet, TypeOK
  <2> QED
    BY <2>1, <2>2, <2>3
<1> QED
  BY <1>4, <1>5, <1>6

\* "allowing the merge to be undone": undone before anything else happens, a
\* merge leaves no trace, but for the users both organizations had.
THEOREM UndoRestoresHolds == Spec => UndoRestores
<1>1. Init => TypeOK /\ QuietInv
  BY InitTypeOK DEF Init, QuietInv
<1>2. TypeOK /\ QuietInv /\ [Next]_vars => (TypeOK /\ QuietInv)'
  BY NextType, NextQuiet
<1>3. TypeOK /\ QuietInv =>
        [\A m \in merges :
           LET was == m.before
               both == (was.member[m.from] \cup was.admin[m.from])
                          \cap (was.member[m.to] \cup was.admin[m.to])
           IN (m.before # None /\ was.org[m.from] = "ok" /\ undo(m)) =>
                 /\ org' = was.org
                 /\ net' = was.net
                 /\ \A o \in Orgs : /\ member'[o] \ both = was.member[o] \ both
                                    /\ admin'[o] \ both = was.admin[o] \ both]_vars
  BY UndoneIsBefore
<1> QED
  BY <1>1, <1>2, <1>3, PTL DEF Spec, UndoRestores
============================================================================
