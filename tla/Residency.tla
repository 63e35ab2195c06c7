------------------------------- MODULE Residency -------------------------------
(***************************************************************************)
(* Who owns, rents and lives in a property: ownership requests, tenancies, *)
(* household members and ownership transfers, reviewed by the office and   *)
(* moved along by the hourly lifecycle job.                                *)
(*                                                                         *)
(* A clerk is a request in progress: it reads, decides, and writes later   *)
(* by the id it read.  What the tables' unique indexes refuse aborts the   *)
(* whole batch.  users.property_id, a cached copy of one of these          *)
(* relations, and the proof files are left out.                            *)
(***************************************************************************)
EXTENDS Naturals, Sequences, FiniteSets

CONSTANTS
    Residents, Properties,
    Clerks,           \* concurrent requests
    MaxOfficeEvents   \* bound: requests, dates that pass, and jobs cut off

ASSUME ResidencyAssumption ==
    /\ Clerks # {}
    /\ MaxOfficeEvents \in Nat

VARIABLES
    resident,   \* resident[u]: users.status
    owner,      \* owner[p]: the active property_ownerships row, if any
    deeds,      \* ownership rows inserted so far
    claims,     \* property_ownership_requests
    tenancies,  \* property_tenancies
    members,    \* household_members, with the credential each one holds
    transfers,  \* property_transfer_requests
    clerk,      \* clerk[c]: a request in progress
    job,        \* processPropertyLifecycle in progress
    officeEvents

residencyVars == <<resident, owner, deeds, claims, tenancies, members, transfers, clerk, job,
                   officeEvents>>
tables == <<resident, owner, deeds, claims, tenancies, members, transfers>>

-----------------------------------------------------------------------------
Unowned == [who |-> "none", deed |-> 0]
Ready == [step |-> "idle"]

ResidencyInit ==
    /\ resident = [u \in Residents |-> "active"]
    /\ owner = [p \in Properties |-> Unowned]
    /\ deeds = 0
    /\ claims = <<>>
    /\ tenancies = <<>>
    /\ members = <<>>
    /\ transfers = <<>>
    /\ clerk = [c \in Clerks |-> Ready]
    /\ job = Ready
    /\ officeEvents = 0

OfficeEvent == officeEvents < MaxOfficeEvents /\ officeEvents' = officeEvents + 1
Takes(c, r) == clerk' = [clerk EXCEPT ![c] = r]
Is(c, step) == clerk[c].step = step

ActiveTenancy(p) == {i \in DOMAIN tenancies : tenancies[i].property = p /\ tenancies[i].status = "active"}
CurrentTenancy(p) == {i \in ActiveTenancy(p) : tenancies[i].begun /\ ~tenancies[i].over}

\* isPrimaryResident: the tenant in possession, or else the owner.
isPrimaryResident(u, p) ==
    \/ \E i \in CurrentTenancy(p) : tenancies[i].tenant = u
    \/ owner[p].who = u /\ CurrentTenancy(p) = {}

\* userDeactivationBlocker
userDeactivationBlocker(u) ==
    \/ \E p \in Properties : owner[p].who = u
    \/ \E i \in DOMAIN tenancies : tenancies[i].tenant = u /\ tenancies[i].status \in {"pending", "active"}

-----------------------------------------------------------------------------
(* What the batches write *)

InsertOwnership(p, u) ==
    /\ owner[p] = Unowned                   \* idx_property_one_active_owner
    /\ deeds' = deeds + 1
    /\ owner' = [owner EXCEPT ![p] = [who |-> u, deed |-> deeds + 1]]

\* idx_one_active_tenancy_per_property and idx_one_pending_tenancy_per_property
OneTenancy(p, status) ==
    status \in {"active", "pending"} =>
        \A i \in DOMAIN tenancies : ~(tenancies[i].property = p /\ tenancies[i].status = status)

\* Mutant: whoever owns the property now is revoked.
CompleteMutant(t) ==
    /\ deeds' = deeds + 1
    /\ owner' = [owner EXCEPT ![t.row.property] = [who |-> t.row.to, deed |-> deeds + 1]]
    /\ transfers' = [transfers EXCEPT ![t.id].status = "completed"]

\* completePropertyTransfer's batch: the ownership it read is revoked, the new one
\* inserted and the transfer completed.
CompleteBatch(t) ==
    /\ owner[t.row.property] \in {Unowned, [who |-> t.row.from, deed |-> t.deed]}
    /\ deeds' = deeds + 1
    /\ owner' = [owner EXCEPT ![t.row.property] = [who |-> t.row.to, deed |-> deeds + 1]]
    /\ transfers' = [transfers EXCEPT ![t.id].status = "completed"]

\* Its reads: the transfer must be open and the old owner still own the property.
CompleteReads(i) ==
    LET t == transfers[i]
        owns == owner[t.property].who = t.from
    IN [step |-> CASE t.status \notin {"pending", "scheduled"} -> "idle"
                   [] t.status \in {"pending", "scheduled"} /\ owns -> "complete"
                   [] OTHER -> "fail",
        id |-> i, row |-> t, deed |-> owner[t.property].deed]

FailTransfer(t) == transfers' = [transfers EXCEPT ![t.id].status = "failed"]

\* deactivatePrimaryHousehold(p, u): its credentials are read first ...
Household(p, u) == {i \in DOMAIN members : members[i].property = p /\ members[i].primary = u}
HouseholdReads(p, u) ==
    [step |-> "household", property |-> p, primary |-> u,
     cards |-> {i \in Household(p, u) : members[i].card = "active"}]

\* ... then the members are deactivated, then each credential that was read suspended.
HouseholdEnds(h) ==
    members' = [i \in DOMAIN members |->
        IF i \in Household(h.property, h.primary) /\ members[i].status \in {"pending", "active"}
        THEN [members[i] EXCEPT !.status = "inactive"] ELSE members[i]]
HouseholdSuspends(h) ==
    members' = [i \in DOMAIN members |->
        IF i \in h.cards THEN [members[i] EXCEPT !.card = "suspended"] ELSE members[i]]

-----------------------------------------------------------------------------
(* Ownership *)

\* POST /api/property-ownership-requests for an unowned property.
RequestOwnership(u, p) ==
    /\ OfficeEvent
    /\ resident[u] = "active" /\ owner[p] = Unowned
    /\ ~\E i \in DOMAIN claims : claims[i] = [who |-> u, property |-> p, status |-> "pending"]
    /\ claims' = Append(claims, [who |-> u, property |-> p, status |-> "pending"])
    /\ UNCHANGED <<resident, owner, deeds, tenancies, members, transfers, clerk, job>>

\* PATCH /api/property-ownership-requests/:id reads the request and the property.
ReviewClaimReads(c, i, verdict) ==
    /\ OfficeEvent
    /\ Is(c, "idle")
    /\ claims[i].status = "pending"
    /\ verdict = "approved" => owner[claims[i].property] = Unowned
    /\ Takes(c, [step |-> "claim", id |-> i, verdict |-> verdict])
    /\ UNCHANGED <<tables, job>>

ReviewClaim(c) ==
    /\ Is(c, "claim")
    /\ LET i == clerk[c].id IN
       \/ /\ clerk[c].verdict = "approved"
          /\ InsertOwnership(claims[i].property, claims[i].who)
          /\ claims' = [claims EXCEPT ![i].status = "approved"]
       \/ /\ clerk[c].verdict = "rejected"
          /\ claims' = [claims EXCEPT ![i].status = "rejected"]
          /\ UNCHANGED <<owner, deeds>>
    /\ Takes(c, Ready)
    /\ UNCHANGED <<resident, tenancies, members, transfers, job, officeEvents>>

\* POST /api/property-ownerships.
AssignReads(c, u, p) ==
    /\ OfficeEvent
    /\ Is(c, "idle")
    /\ resident[u] = "active" /\ owner[p] = Unowned
    /\ Takes(c, [step |-> "assign", who |-> u, property |-> p])
    /\ UNCHANGED <<tables, job>>

\* A row of POST /api/imports/ownerships, and PATCH /api/users/:id with a property,
\* make the same checks before the same batch.
ImportOwnership(c, u, p) == AssignReads(c, u, p)
EditUserWithProperty(c, u, p) == AssignReads(c, u, p)

AssignOwner(c) ==
    /\ Is(c, "assign")
    /\ InsertOwnership(clerk[c].property, clerk[c].who)
    /\ Takes(c, Ready)
    /\ UNCHANGED <<resident, claims, tenancies, members, transfers, job, officeEvents>>

\* DELETE /api/property-ownerships/:id: no tenancy may be active ...
RevokeReads(c, p) ==
    /\ OfficeEvent
    /\ Is(c, "idle")
    /\ owner[p] # Unowned /\ ActiveTenancy(p) = {}
    /\ Takes(c, [step |-> "revoke", property |-> p, deed |-> owner[p].deed])
    /\ UNCHANGED <<tables, job>>

\* ... when the row that was read is revoked.
RevokeOwner(c) ==
    /\ Is(c, "revoke")
    /\ owner' = [owner EXCEPT ![clerk[c].property] = IF @.deed = clerk[c].deed THEN Unowned ELSE @]
    /\ Takes(c, Ready)
    /\ UNCHANGED <<resident, deeds, claims, tenancies, members, transfers, job, officeEvents>>

\* DELETE /api/users/:id and a PATCH to inactive.
DeactivateReads(c, u) ==
    /\ OfficeEvent
    /\ Is(c, "idle")
    /\ resident[u] = "active" /\ ~userDeactivationBlocker(u)
    /\ Takes(c, [step |-> "deactivate", who |-> u])
    /\ UNCHANGED <<tables, job>>

DeactivateUser(c) ==
    /\ Is(c, "deactivate")
    /\ resident' = [resident EXCEPT ![clerk[c].who] = "inactive"]
    /\ Takes(c, Ready)
    /\ UNCHANGED <<owner, deeds, claims, tenancies, members, transfers, job, officeEvents>>

-----------------------------------------------------------------------------
(* Tenancies *)

\* POST /api/property-tenancies, by the office (active at once) or the owner.
TenancyReads(c, p, u, status, begun) ==
    /\ OfficeEvent
    /\ Is(c, "idle")
    /\ owner[p] \notin {Unowned} /\ owner[p].who # u /\ resident[u] = "active"
    /\ Takes(c, [step |-> "rent", row |-> [property |-> p, tenant |-> u, status |-> status,
                                           begun |-> begun, over |-> FALSE]])
    /\ UNCHANGED <<tables, job>>

\* A row of POST /api/imports/tenancies has any status ("ended" stands for those that
\* are closed) and asks for pending and active tenancies first.
ImportTenancy(c, p, u, status, begun) ==
    /\ status \in {"pending", "active"} =>
          \A i \in DOMAIN tenancies :
             tenancies[i].property = p => tenancies[i].status \notin {"pending", "active"}
    /\ TenancyReads(c, p, u, status, begun)

InsertTenancy(c) ==
    /\ Is(c, "rent")
    /\ OneTenancy(clerk[c].row.property, clerk[c].row.status)
    /\ tenancies' = Append(tenancies, clerk[c].row)
    /\ Takes(c, Ready)
    /\ UNCHANGED <<resident, owner, deeds, claims, members, transfers, job, officeEvents>>

\* PATCH /api/property-tenancies/:id reads the row it will write by id.
ReviewTenancyReads(c, i, action) ==
    /\ OfficeEvent
    /\ Is(c, "idle")
    /\ action \in {"approve", "reject"} => tenancies[i].status = "pending"
    /\ action \in {"end", "extend"} => tenancies[i].status = "active"
    /\ action = "approve" => ActiveTenancy(tenancies[i].property) = {}
    /\ Takes(c, [step |-> action, id |-> i])
    /\ UNCHANGED <<tables, job>>

ApproveTenancy(c) ==
    /\ Is(c, "approve")
    /\ OneTenancy(tenancies[clerk[c].id].property, "active")
    /\ tenancies' = [tenancies EXCEPT ![clerk[c].id].status = "active"]
    /\ Takes(c, Ready)
    /\ UNCHANGED <<resident, owner, deeds, claims, members, transfers, job, officeEvents>>

RejectTenancy(c) ==
    /\ Is(c, "reject")
    /\ tenancies' = [tenancies EXCEPT ![clerk[c].id].status = "rejected"]
    /\ Takes(c, Ready)
    /\ UNCHANGED <<resident, owner, deeds, claims, members, transfers, job, officeEvents>>

\* action "update" with a later end date.
ExtendTenancy(c) ==
    /\ Is(c, "extend")
    /\ tenancies' = [tenancies EXCEPT ![clerk[c].id].over = FALSE]
    /\ Takes(c, Ready)
    /\ UNCHANGED <<resident, owner, deeds, claims, members, transfers, job, officeEvents>>

EndTenancy(c) ==
    /\ Is(c, "end")
    /\ LET i == clerk[c].id IN
          /\ tenancies' = [tenancies EXCEPT ![i].status = "ended"]
          /\ Takes(c, HouseholdReads(tenancies[i].property, tenancies[i].tenant))
    /\ UNCHANGED <<resident, owner, deeds, claims, members, transfers, job, officeEvents>>

EndHousehold(c) ==
    /\ Is(c, "household")
    /\ HouseholdEnds(clerk[c])
    /\ Takes(c, [clerk[c] EXCEPT !.step = "suspend"])
    /\ UNCHANGED <<resident, owner, deeds, claims, tenancies, transfers, job, officeEvents>>

SuspendHousehold(c) ==
    /\ Is(c, "suspend")
    /\ HouseholdSuspends(clerk[c])
    /\ Takes(c, Ready)
    /\ UNCHANGED <<resident, owner, deeds, claims, tenancies, transfers, job, officeEvents>>

\* A start or an end date passes.
DatePasses(i) ==
    /\ OfficeEvent
    /\ tenancies' = [tenancies EXCEPT ![i] =
          IF @.begun THEN [@ EXCEPT !.over = TRUE] ELSE [@ EXCEPT !.begun = TRUE]]
    /\ UNCHANGED <<resident, owner, deeds, claims, members, transfers, clerk, job>>

-----------------------------------------------------------------------------
(* Household members *)

\* POST /api/household-members for the main resident of the property.
MemberReads(c, u, p, status) ==
    /\ OfficeEvent
    /\ Is(c, "idle")
    /\ isPrimaryResident(u, p)
    /\ Takes(c, [step |-> "member", row |-> [property |-> p, primary |-> u, status |-> status, card |-> "none"]])
    /\ UNCHANGED <<tables, job>>

InsertMember(c) ==
    /\ Is(c, "member")
    /\ members' = Append(members, clerk[c].row)
    /\ Takes(c, Ready)
    /\ UNCHANGED <<resident, owner, deeds, claims, tenancies, transfers, job, officeEvents>>

\* PATCH /api/household-members/:id; "update" keeps the status that was read.
ReviewMemberReads(c, i, action) ==
    /\ OfficeEvent
    /\ Is(c, "idle")
    /\ action = "active" => members[i].status = "pending"
    /\ Takes(c, [step |-> "review", id |-> i,
                 status |-> IF action = "update" THEN members[i].status ELSE action])
    /\ UNCHANGED <<tables, job>>

\* The row is written, and suspendDependantCredentials follows when the member is out.
ReviewMember(c) ==
    /\ Is(c, "review")
    /\ members' = [members EXCEPT ![clerk[c].id].status = clerk[c].status]
    /\ Takes(c, IF clerk[c].status \in {"inactive", "rejected"}
                THEN [step |-> "dependant", id |-> clerk[c].id] ELSE Ready)
    /\ UNCHANGED <<resident, owner, deeds, claims, tenancies, transfers, job, officeEvents>>

suspendDependantCredentials(c) ==
    /\ Is(c, "dependant")
    /\ members' = [members EXCEPT ![clerk[c].id].card = IF @ = "active" THEN "suspended" ELSE @]
    /\ Takes(c, Ready)
    /\ UNCHANGED <<resident, owner, deeds, claims, tenancies, transfers, job, officeEvents>>

\* POST /api/access/cards for an active member.
IssueToMember(i) ==
    /\ OfficeEvent
    /\ members[i].status = "active" /\ members[i].card = "none"
    /\ members' = [members EXCEPT ![i].card = "active"]
    /\ UNCHANGED <<resident, owner, deeds, claims, tenancies, transfers, clerk, job>>

-----------------------------------------------------------------------------
(* Transfers *)

\* POST /api/property-transfers
TransferReads(c, p, u, due) ==
    /\ OfficeEvent
    /\ Is(c, "idle")
    /\ owner[p] # Unowned /\ owner[p].who # u /\ resident[u] = "active"
    /\ Takes(c, [step |-> "transfer", row |-> [property |-> p, from |-> owner[p].who, to |-> u,
                                               status |-> "pending", due |-> due]])
    /\ UNCHANGED <<tables, job>>

RequestTransfer(c) ==
    /\ Is(c, "transfer")
    /\ \A i \in DOMAIN transfers :          \* idx_one_open_transfer_per_property
          transfers[i].property = clerk[c].row.property => transfers[i].status \notin {"pending", "scheduled"}
    /\ transfers' = Append(transfers, clerk[c].row)
    /\ Takes(c, Ready)
    /\ UNCHANGED <<resident, owner, deeds, claims, tenancies, members, job, officeEvents>>

\* PATCH /api/property-transfers/:id, and approveNow of the request itself.
ReviewTransferReads(c, i, action) ==
    /\ OfficeEvent
    /\ Is(c, "idle")
    /\ action = "approved" => transfers[i].status = "pending"
    /\ transfers[i].status \in {"pending", "scheduled"}
    /\ Takes(c, [step |-> action, id |-> i])
    /\ UNCHANGED <<tables, job>>

\* An approved transfer is completed at once when it is due and scheduled otherwise.
ApproveTransfer(c) ==
    /\ Is(c, "approved")
    /\ LET i == clerk[c].id IN
       \/ transfers[i].due /\ Takes(c, CompleteReads(i)) /\ UNCHANGED transfers
       \/ /\ ~transfers[i].due
          /\ transfers' = [transfers EXCEPT ![i].status = "scheduled"]
          /\ Takes(c, Ready)
    /\ UNCHANGED <<resident, owner, deeds, claims, tenancies, members, job, officeEvents>>

CloseTransfer(c) ==
    /\ clerk[c].step \in {"rejected", "cancelled"}
    /\ transfers' = [transfers EXCEPT ![clerk[c].id].status = clerk[c].step]
    /\ Takes(c, Ready)
    /\ UNCHANGED <<resident, owner, deeds, claims, tenancies, members, job, officeEvents>>

completePropertyTransfer(c) ==
    /\ \/ Is(c, "complete") /\ CompleteBatch(clerk[c])
       \/ Is(c, "fail") /\ FailTransfer(clerk[c]) /\ UNCHANGED <<owner, deeds>>
    /\ Takes(c, Ready)
    /\ UNCHANGED <<resident, claims, tenancies, members, job, officeEvents>>

EffectiveDatePasses(i) ==
    /\ OfficeEvent
    /\ ~transfers[i].due
    /\ transfers' = [transfers EXCEPT ![i].due = TRUE]
    /\ UNCHANGED <<resident, owner, deeds, claims, tenancies, members, clerk, job>>

\* A batch that an index refuses, or a request that is cut off, ends there.
ClerkStops(c) ==
    /\ OfficeEvent
    /\ ~Is(c, "idle")
    /\ Takes(c, Ready)
    /\ UNCHANGED <<tables, job>>

-----------------------------------------------------------------------------
(* processPropertyLifecycle, hourly *)

\* The expired tenancies are selected in one query.
LifecycleReads ==
    /\ job.step = "idle"
    /\ job' = [step |-> "tenancies",
               todo |-> {i \in DOMAIN tenancies : tenancies[i].status = "active" /\ tenancies[i].over}]
    /\ UNCHANGED <<tables, clerk, officeEvents>>

LifecycleEnds ==
    /\ job.step = "tenancies"
    /\ \E i \in job.todo :
          /\ tenancies' = [tenancies EXCEPT ![i].status = IF @ = "active" THEN "ended" ELSE @]
          /\ job' = [step |-> "household", todo |-> job.todo \ {i},
                     home |-> HouseholdReads(tenancies[i].property, tenancies[i].tenant)]
    /\ UNCHANGED <<resident, owner, deeds, claims, members, transfers, clerk, officeEvents>>

LifecycleHousehold ==
    \/ /\ job.step = "household"
       /\ HouseholdEnds(job.home)
       /\ job' = [job EXCEPT !.step = "suspend"]
       /\ UNCHANGED <<resident, owner, deeds, claims, tenancies, transfers, clerk, officeEvents>>
    \/ /\ job.step = "suspend"
       /\ HouseholdSuspends(job.home)
       /\ job' = [step |-> "tenancies", todo |-> job.todo]
       /\ UNCHANGED <<resident, owner, deeds, claims, tenancies, transfers, clerk, officeEvents>>

\* Mutant: it looks for the transfers as they were requested, not as they were approved.
LifecycleSelectsMutant ==
    /\ job.step = "tenancies" /\ job.todo = {}
    /\ job' = [step |-> "transfers",
               todo |-> {i \in DOMAIN transfers : transfers[i].status = "pending" /\ transfers[i].due}]
    /\ UNCHANGED <<tables, clerk, officeEvents>>

\* Then the scheduled transfers that are due.
LifecycleSelects ==
    /\ job.step = "tenancies" /\ job.todo = {}
    /\ job' = [step |-> "transfers",
               todo |-> {i \in DOMAIN transfers : transfers[i].status = "scheduled" /\ transfers[i].due}]
    /\ UNCHANGED <<tables, clerk, officeEvents>>

LifecycleTransfers ==
    /\ job.step = "transfers"
    /\ job' = IF job.todo = {} THEN Ready
              ELSE LET i == CHOOSE i \in job.todo : TRUE IN
                   [step |-> "one", todo |-> job.todo \ {i}, transfer |-> CompleteReads(i)]
    /\ UNCHANGED <<tables, clerk, officeEvents>>

\* Whatever becomes of one transfer, the loop goes on to the next.
LifecycleCompletes ==
    /\ job.step = "one"
    /\ LET t == job.transfer IN
       \/ t.step = "complete" /\ CompleteBatch(t)
       \/ t.step = "fail" /\ FailTransfer(t) /\ UNCHANGED <<owner, deeds>>
       \/ /\ t.step = "idle" \/ owner[t.row.property] \notin {Unowned, [who |-> t.row.from, deed |-> t.deed]}
          /\ UNCHANGED <<owner, deeds, transfers>>
    /\ job' = [step |-> "transfers", todo |-> job.todo]
    /\ UNCHANGED <<resident, claims, tenancies, members, clerk, officeEvents>>

\* Finally, temporary accounts whose time is up.
LifecycleExpires(u) ==
    /\ OfficeEvent
    /\ resident[u] = "active"
    /\ resident' = [resident EXCEPT ![u] = "inactive"]
    /\ UNCHANGED <<owner, deeds, claims, tenancies, members, transfers, clerk, job>>

\* The job is cut off; the next hour starts it again.
LifecycleDies ==
    /\ OfficeEvent
    /\ job.step # "idle"
    /\ job' = Ready
    /\ UNCHANGED <<tables, clerk>>

-----------------------------------------------------------------------------
ClerkWorks(c) ==
    \/ ClerkStops(c) \/ ReviewClaim(c) \/ AssignOwner(c) \/ RevokeOwner(c) \/ DeactivateUser(c)
    \/ InsertTenancy(c) \/ ApproveTenancy(c) \/ RejectTenancy(c) \/ ExtendTenancy(c) \/ EndTenancy(c)
    \/ EndHousehold(c) \/ SuspendHousehold(c) \/ InsertMember(c) \/ ReviewMember(c) \/ suspendDependantCredentials(c)
    \/ RequestTransfer(c) \/ ApproveTransfer(c) \/ CloseTransfer(c) \/ completePropertyTransfer(c)

Lifecycle ==
    \/ LifecycleReads \/ LifecycleEnds \/ LifecycleHousehold \/ LifecycleSelects
    \/ LifecycleTransfers \/ LifecycleCompletes

ResidencyNext ==
    \/ Lifecycle \/ LifecycleDies
    \/ \E u \in Residents, p \in Properties : RequestOwnership(u, p)
    \/ \E u \in Residents : LifecycleExpires(u)
    \/ \E i \in DOMAIN tenancies : DatePasses(i)
    \/ \E i \in DOMAIN members : IssueToMember(i)
    \/ \E i \in DOMAIN transfers : EffectiveDatePasses(i)
    \/ \E c \in Clerks :
          \/ ClerkWorks(c)
          \/ \E i \in DOMAIN claims, v \in {"approved", "rejected"} : ReviewClaimReads(c, i, v)
          \/ \E i \in DOMAIN tenancies, a \in {"approve", "reject", "end", "extend"} :
                ReviewTenancyReads(c, i, a)
          \/ \E i \in DOMAIN members, a \in {"active", "rejected", "inactive", "update"} :
                ReviewMemberReads(c, i, a)
          \/ \E i \in DOMAIN transfers, a \in {"approved", "rejected", "cancelled"} :
                ReviewTransferReads(c, i, a)
          \/ \E p \in Properties : RevokeReads(c, p)
          \/ \E u \in Residents : DeactivateReads(c, u)
          \/ \E u \in Residents, p \in Properties :
                \/ AssignReads(c, u, p) \/ ImportOwnership(c, u, p) \/ EditUserWithProperty(c, u, p)
                \/ \E s \in {"pending", "active", "ended"}, b \in BOOLEAN : ImportTenancy(c, p, u, s, b)
                \/ \E s \in {"pending", "active"}, b \in BOOLEAN :
                      TenancyReads(c, p, u, s, b) \/ (b /\ MemberReads(c, u, p, s))
                \/ \E due \in BOOLEAN : TransferReads(c, p, u, due)

\* The job runs every hour, and once started every step of it is taken.
ResidencySpec == ResidencyInit /\ [][ResidencyNext]_residencyVars /\ WF_residencyVars(Lifecycle)

-----------------------------------------------------------------------------
(* Correctness *)

\* Every row is of the shape its table allows.
ResidencyTypeOK ==
    /\ resident \in [Residents -> {"active", "inactive"}]
    /\ owner \in [Properties -> [who : Residents \cup {"none"}, deed : 0..deeds]]
    /\ \A i \in DOMAIN claims : claims[i] \in
          [who : Residents, property : Properties, status : {"pending", "approved", "rejected"}]
    /\ \A i \in DOMAIN tenancies : tenancies[i] \in
          [property : Properties, tenant : Residents,
           status : {"pending", "active", "rejected", "ended"}, begun : BOOLEAN, over : BOOLEAN]
    /\ \A i \in DOMAIN members : members[i] \in
          [property : Properties, primary : Residents,
           status : {"pending", "active", "rejected", "inactive"}, card : {"none", "active", "suspended"}]
    /\ \A i \in DOMAIN transfers : transfers[i] \in
          [property : Properties, from : Residents, to : Residents, due : BOOLEAN,
           status : {"pending", "scheduled", "completed", "failed", "rejected", "cancelled"}]

\* A property passes from one owner straight to another only by a transfer between
\* those two that is completed by that very step, however the office and the hourly
\* job interleave; every other route finds the property unowned.
OwnersChangeByTransfer ==
    [][\A p \in Properties :
          owner[p] # Unowned /\ owner'[p] # Unowned /\ owner'[p].deed # owner[p].deed =>
              \E i \in DOMAIN transfers :
                  /\ transfers[i].property = p
                  /\ transfers[i].from = owner[p].who /\ transfers[i].to = owner'[p].who
                  /\ transfers'[i].status = "completed"]_residencyVars

\* "The transfer is scheduled and completed by the hourly lifecycle job": a due
\* transfer does not stay scheduled, it completes or fails, although one run of the
\* job may be cut off and its batch may be refused.
DueTransfersEnd ==
    \A i \in 1..MaxOfficeEvents :
        (i \in DOMAIN transfers /\ transfers[i].status = "scheduled" /\ transfers[i].due)
            ~> (i \in DOMAIN transfers /\ transfers[i].status # "scheduled")
===============================================================================
