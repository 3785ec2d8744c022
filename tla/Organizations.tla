--------------------------- MODULE Organizations ---------------------------
(***************************************************************************)
(* Organizations, the networks and the users they have, the requests of    *)
(* users to join them (models.py, signals.py, views.py) and the merging of *)
(* organizations and its undoing (admin.py, models.py).                    *)
(*                                                                         *)
(* A request is one transaction, but it may wait in the middle for RDAP,   *)
(* or save late what it loaded at first, and acts then on what it read     *)
(* before: `job' is what the request still holds.  RDAP may answer         *)
(* anything or fail.  What a request does between two waits, or without    *)
(* any, is one step.                                                       *)
(***************************************************************************)
EXTENDS Naturals, FiniteSets

CONSTANTS
    Orgs,        \* every organization there is or may be, each with its name
    Networks,    \* the same for networks, each with its ASN
    Users,
    Requesters,  \* places for the requests of users, on file or under way, one each
    Filer,       \* the user whose place it is
    MAX_USER_AFFILIATION_REQUESTS,
    MaxMerges,   \* bound of the instance: merges that are on record
    None

ASSUME OrganizationsAssumption ==
    /\ Filer \in [Requesters -> Users]
    /\ MAX_USER_AFFILIATION_REQUESTS \in Nat
    /\ MaxMerges \in Nat
    /\ None \notin Orgs \cup Networks

VARIABLES
    org,     \* status of each organization, "none" before it exists
    net,     \* status and organization of each network
    member,  \* the usergroup of each organization
    admin,   \* and its admin_usergroup
    req,     \* the affiliation request in each place
    job,     \* what the request under way there waits for
    merges,  \* OrganizationMerge rows with their entities
    late     \* networks saved under an organization deleted meanwhile (history)

vars == <<org, net, member, admin, req, job, merges, late>>

OrgStatus == {"none", "ok", "deleted"}

Requests == [asn : Networks \cup {None}, org : Orgs \cup {None},
             status : {"pending", "denied", "canceled"}]

Idle == [kind |-> "idle"]

\* "claim": rdap_collect of an organization without admins; filed says that
\* the request is in the table already.  "new": the ASN is not in use.
\* "recheck": a copy of a pending request.  "add": a network to be created.
\* "edit": a copy of a network, with its organization, that is to be saved.
Jobs == [kind : {"claim"}, asn : Networks \cup {None}, org : Orgs, filed : BOOLEAN]
        \cup [kind : {"new"}, asn : Networks, undelete : BOOLEAN]
        \cup [kind : {"recheck"}, asn : Networks, org : Orgs]
        \cup [kind : {"add", "edit"}, asn : Networks, org : Orgs]
        \cup {Idle}

\* before: what there was when the merge began, None once anything has
\* changed since (history).
NetRows == [status : OrgStatus, org : Orgs \cup {None}]

Snapshots == [org : [Orgs -> OrgStatus], net : [Networks -> NetRows],
              member : [Orgs -> SUBSET Users], admin : [Orgs -> SUBSET Users]]

Merges == [from : Orgs, to : Orgs, nets : SUBSET Networks, members : SUBSET Users,
           admins : SUBSET Users, before : Snapshots \cup {None}]

TypeOK ==
    /\ org \in [Orgs -> OrgStatus]
    /\ net \in [Networks -> NetRows]
    /\ \A n \in Networks : (net[n].status = "none") = (net[n].org = None)
    /\ member \in [Orgs -> SUBSET Users]
    /\ admin \in [Orgs -> SUBSET Users]
    /\ req \in [Requesters -> Requests \cup {None}]
    /\ \A u \in Requesters : (req[u] # None /\ req[u].org = None /\ req[u].asn # None)
                                => req[u].status = "denied"
    /\ job \in [Requesters -> Jobs]
    /\ merges \subseteq Merges
    /\ \A m \in merges : m.from # m.to /\ \A n \in m.nets : net[n].status # "none"
    /\ late \subseteq Networks

Init ==
    /\ org \in [Orgs -> {"none", "ok"}]
    /\ net = [n \in Networks |-> [status |-> "none", org |-> None]]
    /\ member = [o \in Orgs |-> {}]
    /\ admin = [o \in Orgs |-> {}]
    /\ req = [u \in Requesters |-> None]
    /\ job = [u \in Requesters |-> Idle]
    /\ merges = {}
    /\ late = {}

---------------------------------------------------------------------------

all_users(o) == member[o] \cup admin[o]

NetsOf(o) == {n \in Networks : net[n].org = o}

net_set_active(o) == {n \in NetsOf(o) : net[n].status = "ok"}

\* The merges that can no longer be undone to what there was.
Disturbed(S) == {[m EXCEPT !.before = None] : m \in S}

Keeps(u, row) == req' = [req EXCEPT ![u] = row]

PendingOf(u) == {v \in Requesters : Filer[v] = Filer[u] /\ req[v] # None
                                    /\ req[v].status = "pending"}

\* flush_affiliation_requests: a request is filed in the place of the others of
\* the user that were denied or canceled.
Files(u, row) ==
    req' = [v \in Requesters |->
              IF v = u THEN row
              ELSE IF Filer[v] = Filer[u] /\ v \notin PendingOf(u) THEN None ELSE req[v]]

Stores(u, row, filed) == IF filed THEN Keeps(u, row) ELSE Files(u, row)

Row(n, o, status) == [asn |-> n, org |-> o, status |-> status]

Waits(u, next) == job' = [job EXCEPT ![u] = next]

\* UserOrgAffiliationRequest.approve: the first user becomes admin.  Nothing is
\* done for a user who is in already; the request is gone in either case.
Joins(u, o) ==
    IF Filer[u] \in all_users(o)
    THEN /\ UNCHANGED <<member, admin>>
    ELSE IF all_users(o) # {}
    THEN /\ member' = [member EXCEPT ![o] = @ \cup {Filer[u]}]
         /\ UNCHANGED admin
    ELSE /\ admin' = [admin EXCEPT ![o] = @ \cup {Filer[u]}]
         /\ UNCHANGED member

\* UserOrgAffiliationRequest.deny
Denied(u, n, o) ==
    IF o # None /\ Filer[u] \in all_users(o) THEN None ELSE Row(n, o, "denied")

---------------------------------------------------------------------------
(* Filing a request: uoar_creation up to the first RDAP lookup. *)

\* _handle_org_with_admins, where email restrictions may deny it.
WithAdmins(u, n, o, filed) ==
    /\ Waits(u, Idle)
    /\ \/ Filer[u] \in member[o] /\ Stores(u, None, filed)
       \/ Filer[u] \notin member[o] /\ Stores(u, Row(n, o, "pending"), filed)
       \/ Stores(u, Denied(u, n, o), filed)

\* The organization of the request, or that of the network when it is active.
Derived(n, o) ==
    IF o # None THEN o
    ELSE IF n # None /\ net[n].status = "ok" THEN net[n].org ELSE None

\* filed: the request is committed before the signal has run to its end.  One
\* with neither ASN nor organization, a name alone, is left to the staff.
uoar_creation(u, n, o, filed) ==
    LET target == Derived(n, o)
    IN IF target = None
       THEN IF n = None
            THEN Waits(u, Idle) /\ Stores(u, Row(None, None, "pending"), filed)
            ELSE /\ Waits(u, [kind |-> "new", asn |-> n,
                              undelete |-> net[n].status = "deleted"])
                 /\ UNCHANGED req
       ELSE IF admin[target] # {} THEN WithAdmins(u, n, target, filed)
       ELSE IF net_set_active(target) = {}
       THEN Waits(u, Idle) /\ Stores(u, Row(n, target, "pending"), filed)
       ELSE /\ Waits(u, [kind |-> "claim", asn |-> n, org |-> target,
                         filed |-> filed])
            /\ IF filed THEN Keeps(u, Row(n, target, "pending")) ELSE UNCHANGED req

\* affiliation_requests_available, and a place for the request.
MayFile(u) ==
    /\ job[u] = Idle /\ u \notin PendingOf(u)
    /\ Cardinality(PendingOf(u)) < MAX_USER_AFFILIATION_REQUESTS

Unowned == UNCHANGED <<org, net, member, admin, merges, late>>

\* view_affiliate_to_org, with an ASN, an organization, both, or only a name.
\* What may not be deleted, nor requested already, is the organization of the
\* network; the row that is created has the one of the form all the same.
AffiliateTo(u, n, o) ==
    LET checked == IF n # None /\ net[n].status = "ok" THEN net[n].org ELSE o
    IN /\ MayFile(u)
       /\ o # None => org[o] # "none"
       /\ checked # None => org[checked] # "deleted"
       /\ \A v \in PendingOf(u) : /\ checked # None => req[v].org # checked
                                 /\ n # None => req[v].asn # n
       /\ uoar_creation(u, n, o, FALSE)
       /\ Unowned

\* It does not look at the status of the organization.
view_request_ownership(u, o) ==
    /\ MayFile(u)
    /\ org[o] # "none"
    /\ admin[o] = {}
    /\ \A v \in PendingOf(u) : req[v].org # o
    /\ uoar_creation(u, None, o, FALSE)
    /\ Unowned

\* Mutant of Recheck: the filter asn__gt=0 is missing.
RecheckAll(u) ==
    /\ job[u] = Idle
    /\ req[u] # None
    /\ req[u].status = "pending"
    /\ req[u].org # None => admin[req[u].org] = {}
    /\ Waits(u, [kind |-> "recheck", asn |-> req[u].asn, org |-> req[u].org])
    /\ UNCHANGED req
    /\ Unowned

\* recheck_affiliation_requests after a change of email: the request is looked
\* up now and replaced when RDAP has validated the user, each step committed.
Recheck(u) ==
    /\ job[u] = Idle
    /\ req[u] # None
    /\ req[u].status = "pending" /\ req[u].asn # None
    /\ admin[req[u].org] = {}
    /\ Waits(u, [kind |-> "recheck", asn |-> req[u].asn, org |-> req[u].org])
    /\ UNCHANGED req
    /\ Unowned

Rechecked(u) ==
    /\ job[u].kind = "recheck"
    /\ \/ uoar_creation(u, job[u].asn, job[u].org, TRUE)
       \/ Waits(u, Idle) /\ UNCHANGED req
    /\ Unowned

---------------------------------------------------------------------------
(* The answer of RDAP. *)

\* rdap_collect: one of the networks validates the user, or none does and the
\* request is left to the staff.
Claimed(u) ==
    /\ job[u].kind = "claim"
    /\ Waits(u, Idle)
    /\ \/ /\ Joins(u, job[u].org)
          /\ Stores(u, None, job[u].filed)
          /\ merges' = Disturbed(merges)
       \/ /\ IF job[u].filed THEN UNCHANGED req
             ELSE Files(u, Row(job[u].asn, job[u].org, "pending"))
          /\ UNCHANGED <<member, admin, merges>>
    /\ UNCHANGED <<org, net, late>>

\* _handle_new_asn_affiliation when the lookup fails: denied, and kept.
LookupFails(u) ==
    /\ job[u].kind = "new"
    /\ Waits(u, Idle)
    /\ Files(u, Row(job[u].asn, None, "denied"))
    /\ Unowned

\* Organization.create_from_rdap: the one of that name, whatever its status.
create_from_rdap(o) ==
    IF org[o] = "none" THEN [org EXCEPT ![o] = "ok"] ELSE org

\* Mutant of validate_parent_status: saved by update(), which does not call save.
Unvalidated(o) == TRUE

\* Network.save, of the organization the network holds: the handlers that load
\* it and save in one step validate the row itself, LoadNetwork what it loads.
validate_parent_status(o) == org[o] # "deleted"

\* The network is saved, or an exception takes everything back: its parent is
\* deleted, or somebody else has the ASN by now.
Established(u, o) ==
    LET n == job[u].asn
    IN /\ org' = create_from_rdap(o)
       /\ net' = [net EXCEPT ![n] = [status |-> "ok", org |-> o]]
       /\ merges' = Disturbed(merges)
       /\ late' = late \ {n}

Fails(u) ==
    /\ Waits(u, Idle)
    /\ UNCHANGED req
    /\ Unowned

\* The ASN is unknown: a network is created; its organization may turn out to
\* have admins, who are not asked when RDAP validates the user.
CreatesNetwork(u, o) ==
    /\ job[u].kind = "new" /\ ~job[u].undelete
    /\ IF net[job[u].asn].status = "none" /\ validate_parent_status(o)
       THEN /\ Established(u, o)
            /\ Waits(u, Idle)
            /\ \/ Joins(u, o) /\ Files(u, None)
               \/ /\ Files(u, Row(job[u].asn, o, "pending"))
                  /\ UNCHANGED <<member, admin>>
       ELSE Fails(u)

\* Mutant of UndeletesNetwork: the error of the parent is caught and the user let
\* in all the same.
ApprovedAnyway(u, o) ==
    /\ job[u].kind = "new" /\ job[u].undelete
    /\ IF validate_parent_status(o) THEN Established(u, o) ELSE UNCHANGED <<org, net, merges, late>>
    /\ Waits(u, Idle)
    /\ Joins(u, o)
    /\ Files(u, None)

\* _handle_asn_undelete: only a user whom RDAP validates gets the network.
UndeletesNetwork(u, o) ==
    /\ job[u].kind = "new" /\ job[u].undelete
    /\ \/ /\ net[job[u].asn].status = "deleted"
          /\ IF validate_parent_status(o)
             THEN /\ Established(u, o)
                  /\ Waits(u, Idle)
                  /\ Joins(u, o)
                  /\ Files(u, None)
             ELSE Fails(u)
       \/ /\ org' = create_from_rdap(o)
          /\ merges' = IF org' = org THEN merges ELSE Disturbed(merges)
          /\ Waits(u, Idle)
          /\ Files(u, Denied(u, job[u].asn, o))
          /\ UNCHANGED <<net, member, admin, late>>

---------------------------------------------------------------------------
(* What becomes of a request. *)

\* The user, an admin of the organization (uoar_deny), the staff, or the
\* command that deletes what has been pending for long.
cancel_affiliation_request(u) ==
    /\ req[u] # None /\ req[u].status = "pending"
    /\ Keeps(u, [req[u] EXCEPT !.status = "canceled"])
    /\ UNCHANGED job
    /\ Unowned

\* An admin of the organization decides a request of any status, the staff one
\* that is not canceled.
Decidable(u) ==
    /\ req[u] # None
    /\ \/ req[u].org # None /\ admin[req[u].org] # {}
       \/ req[u].status # "canceled"

uoar_deny(u) ==
    /\ Decidable(u)
    /\ Keeps(u, Denied(u, req[u].asn, req[u].org))
    /\ UNCHANGED job
    /\ Unowned

\* approve does nothing for a request without an organization.
uoar_approve(u) ==
    /\ Decidable(u) /\ req[u].org # None
    /\ Joins(u, req[u].org)
    /\ Keeps(u, None)
    /\ merges' = Disturbed(merges)
    /\ UNCHANGED <<org, net, job, late>>

\* The staff gives it one, in the admin.
SetOrg(u, o) ==
    /\ req[u] # None /\ req[u].org = None /\ req[u].status = "pending"
    /\ org[o] # "none"
    /\ Keeps(u, [req[u] EXCEPT !.org = o])
    /\ UNCHANGED job
    /\ Unowned

DeleteOutdated(u) ==
    /\ req[u] # None /\ req[u].status = "pending"
    /\ Keeps(u, None)
    /\ UNCHANGED job
    /\ Unowned

---------------------------------------------------------------------------
(* Users and networks of an organization. *)

\* Made admin or member (nothing happens to one who is), or removed, by an admin
\* of it in the pages or through the API, which also adds users; or leaving it.
SetRole(o, u, roles) ==
    /\ member' = [member EXCEPT ![o] = IF "member" \in roles THEN @ \cup {u} ELSE @ \ {u}]
    /\ admin' = [admin EXCEPT ![o] = IF "admin" \in roles THEN @ \cup {u} ELSE @ \ {u}]
    /\ merges' = Disturbed(merges)
    /\ UNCHANGED <<org, net, req, job, late>>

manage_user_update(o, u) ==
    /\ admin[o] # {}
    /\ \/ u \in member[o] /\ SetRole(o, u, {"admin"})
       \/ u \in admin[o] /\ SetRole(o, u, {"member"})

add_organization_user(o, u) ==
    /\ admin[o] # {} /\ org[o] = "ok" /\ u \notin all_users(o)
    /\ \E role \in {"admin", "member"} : SetRole(o, u, {role})

view_remove_org_affiliation(o, u) ==
    /\ u \in all_users(o)
    /\ SetRole(o, u, {})

\* NetworkSerializer: the organization is read, then RDAP is asked.
AddNetwork(u, n, o) ==
    /\ job[u] = Idle /\ req[u] = None
    /\ Filer[u] \in all_users(o)
    /\ net[n].status = "none" /\ org[o] = "ok"
    /\ Waits(u, [kind |-> "add", asn |-> n, org |-> o])
    /\ UNCHANGED req
    /\ Unowned

\* A request or a command loads a network to edit it, or the staff a deleted one
\* to restore it.  What Network.save validates is the organization read here.
LoadNetwork(u, n) ==
    /\ job[u] = Idle /\ req[u] = None
    /\ net[n].status # "none"
    /\ validate_parent_status(net[n].org)
    /\ Waits(u, [kind |-> "edit", asn |-> n, org |-> net[n].org])
    /\ UNCHANGED req
    /\ Unowned

\* The whole row is written: status and organization as they were read.
NetworkSaved(u) ==
    LET n == job[u].asn
        o == job[u].org
    IN /\ job[u].kind \in {"add", "edit"}
       /\ \/ /\ job[u].kind = "add" => net[n].status = "none"
             /\ Waits(u, Idle)
             /\ net' = [net EXCEPT ![n] = [status |-> "ok", org |-> o]]
             /\ late' = IF org[o] = "ok" THEN late \ {n} ELSE late \cup {n}
             /\ merges' = Disturbed(merges)
             /\ UNCHANGED <<org, member, admin, req>>
          \/ Fails(u)

DeleteNetwork(n) ==
    /\ net[n].status = "ok"
    /\ net' = [net EXCEPT ![n].status = "deleted"]
    /\ late' = late \ {n}
    /\ merges' = Disturbed(merges)
    /\ UNCHANGED <<org, member, admin, req, job>>

---------------------------------------------------------------------------
(* The organization itself. *)

deletable(o) == net_set_active(o) = {}

\* delete_cleanup: pending requests are canceled, both groups emptied.
CancelRequests(o) ==
    req' = [u \in Requesters |->
              IF req[u] # None /\ req[u].org = o /\ req[u].status = "pending"
              THEN [req[u] EXCEPT !.status = "canceled"] ELSE req[u]]

\* ProtectedMixin.delete: an organization with active networks is not deleted,
\* unless by a superuser in the admin; its networks are deleted with it.
DeleteOrg(o) ==
    /\ org[o] = "ok"
    /\ org' = [org EXCEPT ![o] = "deleted"]
    /\ \/ deletable(o) /\ UNCHANGED <<net, late>>
       \/ /\ ~deletable(o)
          /\ net' = [n \in Networks |->
                       IF n \in NetsOf(o) THEN [net[n] EXCEPT !.status = "deleted"] ELSE net[n]]
          /\ late' = late \ NetsOf(o)
    /\ CancelRequests(o)
    /\ member' = [member EXCEPT ![o] = {}]
    /\ admin' = [admin EXCEPT ![o] = {}]
    /\ merges' = Disturbed(merges)
    /\ UNCHANGED job

RestoreOrg(o) ==
    /\ org[o] = "deleted"
    /\ org' = [org EXCEPT ![o] = "ok"]
    /\ late' = late \ NetsOf(o)
    /\ merges' = Disturbed(merges)
    /\ UNCHANGED <<net, member, admin, req, job>>

\* Mutant of MergedNets: deleted networks move with the rest, but unlogged.
ActiveNets(from) == net_set_active(from)

\* What is logged, and so undone: all networks, the users the target's admins
\* do not include.
MergedNets(from) == NetsOf(from)
Moved(group, to) == group \ admin[to]

\* merge_organizations: a network saved under a deleted target takes all back.
merge_organizations(from, to) ==
    /\ from # to
    /\ org[from] # "none" /\ org[to] # "none"
    /\ Cardinality(merges) < MaxMerges
    /\ net_set_active(from) # {} => validate_parent_status(to)
    /\ LET members == Moved(member[from], to)
           admins == Moved(admin[from], to)
       IN /\ member' = [member EXCEPT ![to] = @ \cup members \cup admins, ![from] = {}]
          /\ merges' = Disturbed(merges) \cup
                {[from |-> from, to |-> to, nets |-> MergedNets(from),
                  members |-> members, admins |-> admins,
                  before |-> [org |-> org, net |-> net, member |-> member,
                              admin |-> admin]]}
    /\ net' = [n \in Networks |->
                 IF n \in NetsOf(from) THEN [net[n] EXCEPT !.org = to] ELSE net[n]]
    /\ admin' = [admin EXCEPT ![from] = {}]
    /\ org' = [org EXCEPT ![from] = "deleted"]
    /\ CancelRequests(from)
    /\ late' = late \ NetsOf(from)
    /\ UNCHANGED job

\* OrganizationMerge.undo: what was logged moves, wherever it is now.
undo(m) ==
    /\ org' = [org EXCEPT ![m.from] = "ok"]
    /\ net' = [n \in Networks |->
                 IF n \in m.nets THEN [net[n] EXCEPT !.org = m.from] ELSE net[n]]
    /\ member' = [member EXCEPT ![m.from] = @ \cup m.members,
                                ![m.to] = @ \ (m.members \cup m.admins)]
    /\ admin' = [admin EXCEPT ![m.from] = @ \cup m.admins,
                              ![m.to] = @ \ (m.members \cup m.admins)]
    /\ merges' = Disturbed(merges \ {m})
    /\ late' = late \ (m.nets \cup NetsOf(m.from))
    /\ UNCHANGED <<req, job>>

---------------------------------------------------------------------------

Requester(u) ==
    \/ \E n \in Networks \cup {None}, o \in Orgs \cup {None} : AffiliateTo(u, n, o)
    \/ \E n \in Networks : LoadNetwork(u, n)
    \/ \E o \in Orgs : \/ view_request_ownership(u, o)
                       \/ CreatesNetwork(u, o)
                       \/ UndeletesNetwork(u, o)
                       \/ \E n \in Networks : AddNetwork(u, n, o)
    \/ Recheck(u) \/ Rechecked(u) \/ Claimed(u) \/ LookupFails(u) \/ NetworkSaved(u)
    \/ cancel_affiliation_request(u)

Others ==
    \/ \E u \in Requesters : \/ uoar_deny(u) \/ uoar_approve(u) \/ DeleteOutdated(u)
                            \/ \E o \in Orgs : SetOrg(u, o)
    \/ \E o \in Orgs, u \in Users : \/ manage_user_update(o, u)
                                   \/ add_organization_user(o, u)
                                   \/ view_remove_org_affiliation(o, u)
    \/ \E n \in Networks : DeleteNetwork(n)
    \/ \E o \in Orgs : DeleteOrg(o) \/ RestoreOrg(o)

Merging ==
    \/ \E from, to \in Orgs : merge_organizations(from, to)
    \/ \E m \in merges : undo(m)

Next == (\E u \in Requesters : Requester(u)) \/ Others \/ Merging

Spec == Init /\ [][Next]_vars

---------------------------------------------------------------------------
(* Properties. *)

\* validate_parent_status: "A child cannot be `ok` or `pending` if the parent is
\* `deleted`".  No network is active in a deleted organization, however RDAP,
\* deletions, merges, undoings and restores interleave; except one whose row
\* was written, by an addition through the API or the save of an edit, from
\* what had been read before the organization was deleted or merged away.
ParentStatus ==
    \A n \in Networks \ late : net[n].status = "ok" => org[net[n].org] = "ok"

\* "allowing the merge to be undone": undone before anything else happens, a
\* merge leaves the organizations, their networks and the groups of their
\* users as they were, but for the users both organizations had.
UndoRestores ==
    [][\A m \in merges :
         LET was == m.before
             both == (was.member[m.from] \cup was.admin[m.from])
                        \cap (was.member[m.to] \cup was.admin[m.to])
         IN (m.before # None /\ was.org[m.from] = "ok" /\ undo(m)) =>
               /\ org' = was.org
               /\ net' = was.net
               /\ \A o \in Orgs : /\ member'[o] \ both = was.member[o] \ both
                                  /\ admin'[o] \ both = was.admin[o] \ both]_vars

\* create_from_rdap may return a deleted organization of the name RDAP gives;
\* no answer of RDAP makes anybody a user of one, except of the organization
\* the user already waits for, when it is deleted meanwhile.
NoGhostOwners ==
    [][\A u \in Requesters, o \in Orgs :
         (/\ job[u].kind = "new" /\ job'[u] = Idle
          /\ Filer[u] \in (member'[o] \cup admin'[o]) \ all_users(o)) => org'[o] = "ok"]_vars
============================================================================
