--------------------------- MODULE Administration ---------------------------
(***************************************************************************)
(* The administrators' audit log beside what it is about.  A handler of    *)
(* /admin carries out an action in a statement or transaction of its own   *)
(* and writes the entry afterwards, so that the two may be separated: by   *)
(* another administrator, by an error, by the end of the server.  Others   *)
(* change the same things and log nothing: members, their owners, and the  *)
(* worker that expires what is due.  The actions' other effects are in     *)
(* HopLifecycle, Accounts, Discussion and Organizations; here a subject    *)
(* only keeps what decides whether the action succeeds.                    *)
(***************************************************************************)
EXTENDS Naturals, FiniteSets

CONSTANTS
  Admins, Users,
  Recoveries, \* the actions on a user that leave the account what it is
  MaxEntries  \* bound: actions begun

HopOf == "hop"
OrganizationOf == "organization"
ReportOf == "report"
Log == "application"

(* What there is to do, to what.                                           *)
OrganizationActions ==
  ({"organization.disable", "organization.enable"} \X {OrganizationOf})
    \cup ({"hop.expire", "hop.delete"} \X {HopOf})
ModerationActions == {"moderation.dismiss", "moderation.delete"} \X {ReportOf}
UserActions ==
  ({"user.disable", "user.enable", "user.delete"} \cup Recoveries) \X Users
Exports == {"audit.export"} \X {Log}
Actions == OrganizationActions \cup ModerationActions \cup UserActions \cup Exports

Verbs ==
  {"organization.disable", "organization.enable", "hop.expire", "hop.delete",
   "moderation.dismiss", "moderation.delete", "user.disable", "user.enable", "user.delete",
   "audit.export"}

ASSUME AdministrationAssumption ==
  /\ IsFiniteSet(Admins) /\ MaxEntries \in Nat
  /\ Users \cap {HopOf, OrganizationOf, ReportOf} = {} /\ Recoveries \cap Verbs = {}

VARIABLES
  subject,  \* the state of the organization, the hop, the report and the users
  due,      \* whether the hop's date (expires_at) has passed
  closed,   \* history: the users who closed their own accounts
  desk,     \* what each administrator's request is in the middle of
  events,   \* admin_audit_events: how many entries there are of each action
  unlogged, \* how often the entry of an action failed or was never written
  files,    \* how many exports were delivered
  begun     \* how many actions

adminVars == <<subject, due, closed, desk, events, unlogged, files, begun>>
others == <<due, closed>>
log == <<events, unlogged, files, begun>>

States ==
  {"enabled", "disabled", "open", "accepted", "canceled", "completed", "expired", "deleted",
   "reported", "resolved"}
AtRest == [step |-> "idle", action |-> CHOOSE e \in Exports : TRUE]
Desk ==
  [step : {"idle", "load", "act", "audit", "deliver"}, action : Actions]

Waiting(action) == Cardinality({a \in Admins : desk[a].step = "audit" /\ desk[a].action = action})

(* Types.                                                                  *)
AdministrationTypeOK ==
  /\ subject \in [{OrganizationOf, HopOf, ReportOf} \cup Users -> States]
  /\ due \in BOOLEAN /\ closed \subseteq Users
  /\ desk \in [Admins -> Desk]
  /\ events \in [Actions -> 0..MaxEntries] /\ unlogged \in [Actions -> 0..MaxEntries]
  /\ files \in 0..MaxEntries /\ begun \in 0..MaxEntries

AdmInit ==
  /\ subject = [x \in {OrganizationOf, HopOf, ReportOf} \cup Users |->
       CASE x = HopOf -> "open" [] x = ReportOf -> "reported" [] OTHER -> "enabled"]
  /\ due = FALSE /\ closed = {}
  /\ desk = [a \in Admins |-> AtRest]
  /\ events = [e \in Actions |-> 0] /\ unlogged = [e \in Actions |-> 0]
  /\ files = 0 /\ begun = 0

AtDesk(a, step) == desk[a].step = step
Rest(a) == desk' = [desk EXCEPT ![a] = AtRest]

-----------------------------------------------------------------------------
(* The handlers.  withUser and requireAdmin let an enabled administrator   *)
(* in; what the form lacks ends the request before it begins.              *)
Begin(a, action, step) ==
  /\ AtDesk(a, "idle") /\ begun < MaxEntries /\ subject[a] = "enabled"
  /\ desk' = [desk EXCEPT ![a] = [AtRest EXCEPT !.step = step, !.action = action]]
  /\ begun' = begun + 1
  /\ UNCHANGED <<subject, others, events, unlogged, files>>

BeginOrganizationAction(a) == \E action \in OrganizationActions : Begin(a, action, "act")
BeginModerationAction(a) == \E action \in ModerationActions : Begin(a, action, "act")

(* The user is loaded first, and must not be deleted; neither oneself nor  *)
(* an administrator can be.                                                *)
BeginUserAction(a) ==
  \E action \in UserActions :
    /\ subject[action[2]] # "deleted"
    /\ action[1] = "user.delete" => action[2] \notin Admins
    /\ Begin(a, action, "act")

(* The listing comes before the entry, and the file after it.              *)
BeginAuditExport(a) == \E action \in Exports : Begin(a, action, "load")

(* An action is refused in the wrong state; an organization's if it is     *)
(* gone, a user's only if the account is to be deleted again.  Disabling   *)
(* or enabling an account that is deleted succeeds, and it stays deleted.  *)
NeverRefused(verb, was) == TRUE   \* mutant
Accepted(verb, was) ==
  CASE verb \in {"organization.disable", "organization.enable"} -> was # "deleted"
    [] verb = "hop.expire" -> was \in {"open", "accepted"}
    [] verb = "hop.delete" -> was \in {"open", "canceled"}
    [] verb \in {"moderation.dismiss", "moderation.delete"} -> was = "reported"
    [] verb = "user.delete" -> was # "deleted"
    [] OTHER -> TRUE

Becomes(verb, was) ==
  IF verb \in Recoveries \/ was = "deleted" THEN was
  ELSE CASE verb \in {"organization.disable", "user.disable"} -> "disabled"
         [] verb \in {"organization.enable", "user.enable"} -> "enabled"
         [] verb = "hop.expire" -> "expired"
         [] verb \in {"hop.delete", "user.delete"} -> "deleted"
         [] verb \in {"moderation.dismiss", "moderation.delete"} -> "resolved"

(* Disabling or deleting an account reopens a hop it takes part in, and     *)
(* deleting it cancels an open one it made; whether it does is left open.   *)
HopAfter(verb, was) ==
  {was} \cup
  {s \in {"open", "canceled"} :
     IF s = "open" THEN was = "accepted" /\ verb \in {"user.disable", "user.delete"}
                   ELSE was \in {"open", "accepted"} /\ verb = "user.delete"}

(* The statement takes effect and the entry is due; or it is refused, the  *)
(* administrator is told, and there is nothing to log.  A hop takes its    *)
(* reports along.                                                          *)
TakeEffect(a) ==
  LET verb == desk[a].action[1]
      x == desk[a].action[2]
  IN /\ AtDesk(a, "act")
     /\ IF Accepted(verb, subject[x])
        THEN /\ \E h \in HopAfter(verb, subject[HopOf]) :
                  subject' = [subject EXCEPT
                    ![HopOf] = h,
                    ![ReportOf] = IF verb = "hop.delete" THEN "deleted" ELSE @,
                    ![x] = Becomes(verb, subject[x])]
             /\ desk' = [desk EXCEPT ![a].step = "audit"]
        ELSE Rest(a) /\ UNCHANGED subject
     /\ UNCHANGED <<others, log>>

ListAdminAuditEvents(a) ==
  /\ AtDesk(a, "load")
  /\ desk' = [desk EXCEPT ![a].step = "audit"]
  /\ UNCHANGED <<subject, others, log>>

WriteAdminAuditEvent(a) ==
  /\ AtDesk(a, "audit")
  /\ events' = [events EXCEPT ![desk[a].action] = @ + 1]
  /\ IF desk[a].action \in Exports THEN desk' = [desk EXCEPT ![a].step = "deliver"] ELSE Rest(a)
  /\ UNCHANGED <<subject, others, unlogged, files, begun>>

DeliverExport(a) ==
  /\ AtDesk(a, "deliver") /\ Rest(a)
  /\ files' = files + 1
  /\ UNCHANGED <<subject, others, events, unlogged, begun>>

(* The INSERT fails ("Could not log admin action."), or the server stops.  *)
NotLogged(a) ==
  /\ AtDesk(a, "audit") /\ Rest(a)
  /\ unlogged' = [unlogged EXCEPT ![desk[a].action] = @ + 1]
  /\ UNCHANGED <<subject, others, events, files, begun>>

(* An error, a cancelled client, or a refusal for a reason that is not     *)
(* followed here: a sole owner is not deleted, nor a comment that is gone. *)
Abandon(a) ==
  /\ desk[a].step \in {"load", "act", "deliver"} /\ Rest(a)
  /\ UNCHANGED <<subject, others, log>>

-----------------------------------------------------------------------------
(* Those who are not administrators, and are not logged.                   *)

Unlogged == UNCHANGED <<desk, log>>

(* An offer is accepted, and the hop completed or canceled by its members. *)
MembersUseHop ==
  /\ \E s \in (CASE subject[HopOf] = "open" -> {"accepted", "canceled"}
                 [] subject[HopOf] = "accepted" -> {"completed", "canceled"}
                 [] OTHER -> {}) :
       subject' = [subject EXCEPT ![HopOf] = s]
  /\ UNCHANGED others /\ Unlogged

(* No operation moves the date. *)
HopFallsDue == ~due /\ due' = TRUE /\ UNCHANGED <<subject, closed>> /\ Unlogged

(* The worker's job. *)
ExpireDueHops ==
  /\ due /\ subject[HopOf] \in {"open", "accepted"}
  /\ subject' = [subject EXCEPT ![HopOf] = "expired"]
  /\ UNCHANGED others /\ Unlogged

(* "Delete my account" disables it.  The request may have been let in       *)
(* before an administrator disabled the account.                            *)
CloseOwnAccount(m) ==
  /\ subject[m] # "deleted"
  /\ subject' = [subject EXCEPT ![m] = "disabled"] /\ closed' = closed \cup {m}
  /\ UNCHANGED due /\ Unlogged

(* By an owner; the hops and their reports go by cascade. *)
DeleteOwnOrganization ==
  /\ subject[OrganizationOf] # "deleted"
  /\ subject' = [x \in DOMAIN subject |->
                   IF x \in {OrganizationOf, HopOf, ReportOf} THEN "deleted" ELSE subject[x]]
  /\ UNCHANGED others /\ Unlogged

OthersStep ==
  \/ MembersUseHop \/ HopFallsDue \/ ExpireDueHops \/ DeleteOwnOrganization
  \/ \E m \in Users : CloseOwnAccount(m)

AdmNext ==
  \/ \E a \in Admins :
       \/ BeginOrganizationAction(a) \/ BeginModerationAction(a)
       \/ BeginUserAction(a) \/ BeginAuditExport(a)
       \/ TakeEffect(a) \/ ListAdminAuditEvents(a) \/ WriteAdminAuditEvent(a)
       \/ DeliverExport(a) \/ NotLogged(a) \/ Abandon(a)
  \/ OthersStep

AdmSpec == AdmInit /\ [][AdmNext]_adminVars

-----------------------------------------------------------------------------

Accounted(action) ==
  events[action] + unlogged[action] + Waiting(action)

HopEndings == {<<"hop.expire", HopOf>>, <<"hop.delete", HopOf>>}
Ending == HopEndings \cup ({"user.delete"} \X Users)
Decisions ==
  Accounted(<<"moderation.dismiss", ReportOf>>) + Accounted(<<"moderation.delete", ReportOf>>)

(* The hop goes with its organization, and falls due without anybody. *)
WithOrganization(action) == action \in HopEndings /\ subject[OrganizationOf] = "deleted"
HasEnded(action) ==
  \/ subject[action[2]] = IF action[1] = "hop.expire" THEN "expired" ELSE "deleted"
  \/ WithOrganization(action)
EndedOtherwise(action) == WithOrganization(action) \/ (action[1] = "hop.expire" /\ due)

(* The log agrees with what was done, also when two administrators do the   *)
(* same at once, and members and the worker the same without an entry.  No  *)
(* ending is accounted for twice, nor two of one hop, nor one that did not  *)
(* come about, and none is missing that only an administrator can bring     *)
(* about; a report is resolved by one decision; what is disabled was        *)
(* disabled by somebody in the log, unless users closed their own accounts, *)
(* which only the log's enabling undoes; and an export that was delivered   *)
(* stands in the log that later exports list.                               *)
AuditAgrees ==
  /\ \A action \in Ending :
       /\ Accounted(action) <= 1 /\ (Accounted(action) = 1 => HasEnded(action))
       /\ HasEnded(action) => Accounted(action) = 1 \/ EndedOtherwise(action)
  /\ \E action \in HopEndings : Accounted(action) = 0
  /\ Decisions <= 1
  /\ subject[ReportOf] # "deleted" => (Decisions = 1 <=> subject[ReportOf] = "resolved")
  /\ subject[OrganizationOf] = "disabled" => Accounted(<<"organization.disable", OrganizationOf>>) > 0
  /\ \A m \in Users :
       /\ subject[m] = "disabled" => m \in closed \/ Accounted(<<"user.disable", m>>) > 0
       /\ subject[m] = "enabled" /\ m \in closed => Accounted(<<"user.enable", m>>) > 0
  /\ \A e \in Exports :
       files + Cardinality({a \in Admins : desk[a].step = "deliver"}) <= events[e]
=============================================================================
