--------------------------- MODULE Organizations ---------------------------
(***************************************************************************)
(* Members between organizations: creating one, the name in its address,   *)
(* the organization a member is looking at (members.current_organization)  *)
(* and the home page, which reads all of that in several statements while  *)
(* memberships end and organizations are disabled or deleted.  Whoever     *)
(* created an organization stays its only owner here; Membership has the   *)
(* roles.  An address is a name, to which an ordinal may be appended; that *)
(* the result is cut to 63 characters is left out.                         *)
(***************************************************************************)
EXTENDS Naturals, Sequences, FiniteSets

CONSTANTS
  People,      \* the members
  Founders,    \* bound: those who create organizations
  Viewers,     \* those of them whose choice and home page are followed
  Orgs,        \* the rows of organizations, each used once
  OrgNames,    \* sequences: what an address is made of
  Creations,   \* the creations served at a time
  Asked,       \* bound: the organizations a link to the home page asks for (org_id)
  NoOrg, NoOne

ASSUME OrganizationsAssumption ==
  /\ Viewers \cup Founders \subseteq People /\ Asked \subseteq Orgs
  /\ IsFiniteSet(Orgs) /\ IsFiniteSet(Creations)

MaxOrdinal == Cardinality(Orgs) + 1   \* organizationURLNameMaxAttempts, never reached

VARIABLES
  org,      \* organizations, with their memberships
  gone,     \* the deleted ones
  current,  \* members.current_organization
  page,     \* each member's home page, while it is made
  creation  \* what each creation is in the middle of

ovars == <<org, gone, current, page, creation>>

URLs == OrgNames \cup {Append(n, i) : n \in OrgNames, i \in 2..MaxOrdinal}
Organization ==
  [url : URLs, enabled : BOOLEAN, creator : People, members : SUBSET People]
Page ==
  [step : {"closed", "list", "resolve", "stats", "dashboard", "none to show", "error"},
   org : Orgs \cup {NoOrg}, listed : SUBSET Orgs, moved : BOOLEAN]
Creation ==
  [step : {"idle", "check", "name", "insert", "commit"},
   by : People \cup {NoOne}, name : OrgNames \cup {<<>>}, url : URLs \cup {<<>>}]
Closed == [step |-> "closed", org |-> NoOrg, listed |-> {}, moved |-> FALSE]
NotCreating == [step |-> "idle", by |-> NoOne, name |-> <<>>, url |-> <<>>]

ASSUME NoOrgAssumption == NoOrg \notin Orgs \cup Organization

Existing == {o \in Orgs : org[o] # NoOrg}
Enabled(o) == o \in Existing /\ org[o].enabled
ActiveMember(m, o) == Enabled(o) /\ m \in org[o].members
ActiveOrganizationsForMember(m) == {o \in Orgs : ActiveMember(m, o)}
CreatedBy(m) == {o \in Existing : org[o].creator = m}
NeverCreated(m) == FALSE   \* mutant
MemberCreatedOrganization(m) == CreatedBy(m) # {}
MemberLeaveBlockedOrganizationIDs(m) == CreatedBy(m)
AddressTaken(url) == \E o \in Existing : org[o].url = url

(* Types; and an address leads to one organization. *)
OrganizationsTypeOK ==
  /\ org \in [Orgs -> Organization \cup {NoOrg}]
  /\ gone \subseteq Orgs \ Existing
  /\ current \in [Viewers -> Orgs \cup {NoOrg}]
  /\ page \in [Viewers -> Page] /\ creation \in [Creations -> Creation]
  /\ \A o, p \in Existing : org[o].url = org[p].url => o = p

OInit ==
  /\ org = [o \in Orgs |-> NoOrg] /\ gone = {}
  /\ current = [m \in Viewers |-> NoOrg]
  /\ page = [m \in Viewers |-> Closed] /\ creation = [q \in Creations |-> NotCreating]

(* The pages of the members S are told that the ground has moved.          *)
Move(S) ==
  page' = [m \in Viewers |->
             IF m \in S /\ page[m] # Closed THEN [page[m] EXCEPT !.moved = TRUE] ELSE page[m]]

-----------------------------------------------------------------------------
(* CreateOrganization. *)

Creating(q, step) == creation[q].step = step
NotCreated(q) == creation' = [creation EXCEPT ![q] = NotCreating]

handleCreateOrganization(q, m, n) ==
  /\ Creating(q, "idle") /\ ~MemberCreatedOrganization(m)
  /\ creation' = [creation EXCEPT ![q] = [NotCreating EXCEPT !.step = "check", !.by = m, !.name = n]]
  /\ UNCHANGED <<org, gone, current, page>>

CheckAgain(q) ==
  /\ Creating(q, "check")
  /\ IF MemberCreatedOrganization(creation[q].by) THEN NotCreated(q)
     ELSE creation' = [creation EXCEPT ![q].step = "name"]
  /\ UNCHANGED <<org, gone, current, page>>

organizationURLNameWithOrdinal(base, i) == IF i <= 1 THEN base ELSE Append(base, i)

ensureUniqueOrganizationURLName(q) ==
  /\ Creating(q, "name")
  /\ \E i \in 1..MaxOrdinal :
       LET Candidate(j) == organizationURLNameWithOrdinal(creation[q].name, j)
       IN /\ ~AddressTaken(Candidate(i)) /\ \A j \in 1..(i - 1) : AddressTaken(Candidate(j))
          /\ creation' = [creation EXCEPT ![q].step = "insert", ![q].url = Candidate(i)]
  /\ UNCHANGED <<org, gone, current, page>>

(* The INSERT waits for another one of the same address to end.  After the  *)
(* unique violation the loop asks for a name again, in a transaction that   *)
(* the violation has aborted: the creation fails.                           *)
InsertOrganization(q) ==
  /\ Creating(q, "insert")
  /\ \A p \in Creations : ~(Creating(p, "commit") /\ creation[p].url = creation[q].url)
  /\ IF AddressTaken(creation[q].url) THEN NotCreated(q)
     ELSE creation' = [creation EXCEPT ![q].step = "commit"]
  /\ UNCHANGED <<org, gone, current, page>>

CommitOrganization(q, o) ==
  /\ Creating(q, "commit") /\ o \notin Existing \cup gone
  /\ org' = [org EXCEPT ![o] = [url |-> creation[q].url, enabled |-> TRUE,
                                creator |-> creation[q].by, members |-> {creation[q].by}]]
  /\ NotCreated(q) /\ Move({creation[q].by})
  /\ UNCHANGED <<gone, current>>

CreationGivesUp(q) == NotCreated(q) /\ ~Creating(q, "idle") /\ UNCHANGED <<org, gone, current, page>>

-----------------------------------------------------------------------------
(* Memberships and the ends of organizations. *)

(* An owner approves a request, or an invitation is accepted. *)
JoinOrganization(m, o) ==
  /\ Enabled(o) /\ m \notin org[o].members
  /\ org' = [org EXCEPT ![o].members = @ \cup {m}] /\ Move({m})
  /\ UNCHANGED <<gone, current, creation>>

WithoutMember(m, o) == org' = [org EXCEPT ![o].members = @ \ {m}]

LeaveOrganization(m, o) ==
  /\ o \in Existing /\ m \in org[o].members /\ o \notin MemberLeaveBlockedOrganizationIDs(m)
  /\ WithoutMember(m, o) /\ Move({m})
  /\ LET left == ActiveOrganizationsForMember(m) \ {o}
     IN IF left = {} THEN current' = [current EXCEPT ![m] = NoOrg]
        ELSE \E next \in left : current' = [current EXCEPT ![m] = next]
  /\ UNCHANGED <<gone, creation>>

(* The organization the member is looking at stays what it was. *)
RemoveOrganizationMember(m, o) ==
  /\ Enabled(o) /\ m \in org[o].members /\ m # org[o].creator
  /\ WithoutMember(m, o) /\ Move({m})
  /\ UNCHANGED <<gone, current, creation>>

SetOrganizationEnabled(o, on) ==
  /\ o \in Existing /\ org[o].enabled # on
  /\ org' = [org EXCEPT ![o].enabled = on] /\ Move(org[o].members)
  /\ UNCHANGED <<gone, current, creation>>

DeleteOrganization(o) ==
  /\ Enabled(o)
  /\ org' = [org EXCEPT ![o] = NoOrg] /\ gone' = gone \cup {o}
  /\ Move(org[o].members)
  /\ current' = [m \in Viewers |-> IF current[m] = o THEN NoOrg ELSE current[m]]
  /\ UNCHANGED creation

-----------------------------------------------------------------------------
(* renderMyHopshare. *)

(* withUser reads the member; the organizations are read afterwards. *)
OpenHomePage(m) ==
  /\ page[m] = Closed
  /\ page' = [page EXCEPT ![m] = [Closed EXCEPT !.step = "list", !.org = current[m]]]
  /\ UNCHANGED <<org, gone, current, creation>>

ListOwnOrganizations(m) ==
  /\ page[m].step = "list"
  /\ page' = [page EXCEPT ![m].step = "resolve", ![m].listed = ActiveOrganizationsForMember(m)]
  /\ UNCHANGED <<org, gone, current, creation>>

Trusted(asked, seen, listed) == {IF asked # NoOrg THEN asked ELSE seen}   \* mutant
Resolved(asked, seen, listed) ==
  LET wanted == IF asked # NoOrg THEN asked ELSE seen
  IN IF listed = {} THEN {wanted} ELSE IF wanted \in listed THEN {wanted} ELSE listed

(* An UPDATE to an organization that was deleted fails, and is only logged. *)
resolveCurrentOrganization(m, asked) ==
  /\ page[m].step = "resolve"
  /\ \E o \in Resolved(asked, page[m].org, page[m].listed) :
       /\ page' = [page EXCEPT ![m].step = "stats", ![m].org = o]
       /\ IF o \in Existing /\ (asked # NoOrg \/ page[m].org # o)
          THEN current' = [current EXCEPT ![m] = o] ELSE UNCHANGED current
  /\ UNCHANGED <<org, gone, creation>>

(* MemberStats requires an active membership of what was resolved. *)
MyhopShareBody(o, listed) == IF listed = {} \/ o = NoOrg THEN "none to show" ELSE "dashboard"
LoadStats(m) ==
  /\ page[m].step = "stats"
  /\ page' = [page EXCEPT ![m].step =
                IF page[m].org # NoOrg /\ ~ActiveMember(m, page[m].org) THEN "error"
                ELSE MyhopShareBody(page[m].org, page[m].listed)]
  /\ UNCHANGED <<org, gone, current, creation>>

CloseHomePage(m) ==
  /\ page[m].step \in {"dashboard", "none to show", "error"}
  /\ page' = [page EXCEPT ![m] = Closed]
  /\ UNCHANGED <<org, gone, current, creation>>

CreationStep(q) ==
  \/ \E m \in Founders, n \in OrgNames : handleCreateOrganization(q, m, n)
  \/ CheckAgain(q) \/ ensureUniqueOrganizationURLName(q) \/ InsertOrganization(q)
  \/ \E o \in Orgs : CommitOrganization(q, o)
  \/ CreationGivesUp(q)
OrganizationStep(o) ==
  \/ \E m \in People :
       JoinOrganization(m, o) \/ LeaveOrganization(m, o) \/ RemoveOrganizationMember(m, o)
  \/ \E on \in BOOLEAN : SetOrganizationEnabled(o, on)
  \/ DeleteOrganization(o)
PageStep(m) ==
  \/ OpenHomePage(m) \/ ListOwnOrganizations(m)
  \/ \E asked \in Asked \cup {NoOrg} : resolveCurrentOrganization(m, asked)
  \/ LoadStats(m) \/ CloseHomePage(m)

ONext ==
  \/ \E q \in Creations : CreationStep(q)
  \/ \E o \in Orgs : OrganizationStep(o)
  \/ \E m \in Viewers : PageStep(m)

OSpec == OInit /\ [][ONext]_ovars

-----------------------------------------------------------------------------

(* A member with an organization gets a home page, of an organization that  *)
(* was the member's when the page was begun; it fails only if memberships   *)
(* changed while it was made.                                               *)
HomePageLoads ==
  \A m \in Viewers :
    /\ page[m].step = "error" => page[m].listed = {} \/ page[m].moved
    /\ page[m].step = "dashboard" => page[m].org \in page[m].listed

(* The second organization of a creator can only come of creations that     *)
(* overlapped: there are never more than there are requests at a time.      *)
OneEachPerRequest ==
  \A m \in People : Cardinality(CreatedBy(m)) <= Cardinality(Creations)

(* docs/my_hopshare_use_cases.md: who is part of no organization is shown   *)
(* how to join one, and nothing else, unless that changes meanwhile.        *)
NewcomersAreWelcome ==
  \A m \in Viewers :
    page[m].step = "error" /\ ~page[m].moved => \E o \in Existing : m \in org[o].members
=============================================================================
