----------------------------- MODULE Discussion -----------------------------
(***************************************************************************)
(* What members say about one hop: comments, public or between the creator *)
(* and the match, pictures, reports of either, and the administrators'     *)
(* moderation.  A handler checks what it has read and then writes in a     *)
(* statement of its own; the hop and its match change in between.  The      *)
(* participants are members of the organization throughout: a handler that *)
(* finds they are not does nothing.                                        *)
(***************************************************************************)
EXTENDS FiniteSets

CONSTANTS
  Participants, Creator,
  Comments, Images, Reports,  \* the rows of the three tables
  Workers,                    \* the requests served at a time
  Spent,                      \* bound: the sets of items that may be used up at first
  NoPerson, Nothing

Items == Comments \cup Images
Comment == [author : Participants, to : Participants \cup {NoPerson}]
Report ==
  [by : Participants, item : Items, status : {"open", "dismissed", "actioned"}]

ASSUME DiscussionAssumption ==
  /\ Creator \in Participants /\ NoPerson \notin Participants
  /\ Comments \cap Images = {} /\ Spent \subseteq SUBSET Items
  /\ Nothing \notin Comment \cup Report

VARIABLES
  match, isPrivate, hopExists,
  helpers,  \* who has been the match so far
  comment,  \* hop_comments
  image,    \* hop_images
  removed,  \* the items that are gone
  report,   \* moderation_reports
  inbox,    \* who has a notification about which comment
  work      \* what each request is in the middle of

hopState == <<match, isPrivate, hopExists, helpers>>
dvars == <<hopState, comment, image, removed, report, inbox, work>>

Work ==
  [doing : {"nothing", "audience", "insert", "notify", "report", "upload", "drop"},
   who : Participants \cup {NoPerson}, to : Participants \cup {NoPerson},
   tell : SUBSET Participants, item : Items \cup {Nothing}]
Free == [doing |-> "nothing", who |-> NoPerson, to |-> NoPerson, tell |-> {}, item |-> Nothing]

DInit ==
  /\ match = NoPerson /\ isPrivate = FALSE /\ hopExists = TRUE
  /\ helpers = {} /\ removed \in Spent /\ inbox = {}
  /\ comment = [k \in Comments |-> Nothing] /\ image = {}
  /\ report = [r \in Reports |-> Nothing] /\ work = [w \in Workers |-> Free]

Associated(m) == m = Creator \/ (m = match /\ m # NoPerson)
MayEnter(m) == hopExists /\ (isPrivate => Associated(m))
Present(x) == IF x \in Comments THEN comment[x] # Nothing ELSE x \in image
Fresh(x) == ~Present(x) /\ x \notin removed

AllComments(m) == {k \in Comments : comment[k] # Nothing}   \* mutant: for everybody
VisibleComments(m) ==
  {k \in Comments : comment[k] # Nothing /\
     (comment[k].to = NoPerson \/ m \in {comment[k].author, comment[k].to})}

Take(w, job) == work[w] = Free /\ work' = [work EXCEPT ![w] = job]
Doing(w, step) == work[w].doing = step
Finish(w) == work' = [work EXCEPT ![w] = Free]

-----------------------------------------------------------------------------
(* Comments. *)

(* hopPrivateCommentOption: the other of the two, if there is a match. *)
PrivateRecipient(m) ==
  CASE match = NoPerson -> NoPerson [] m = Creator -> match [] m = match -> Creator [] OTHER -> NoPerson

handleCreateHopComment(w, m) ==
  /\ MayEnter(m)
  /\ \E to \in {NoPerson, PrivateRecipient(m)} :
       Take(w, [Free EXCEPT !.doing = "audience", !.who = m, !.to = to,
                  !.tell = IF to # NoPerson THEN {to} ELSE {Creator, match} \ {m, NoPerson}])
  /\ UNCHANGED <<hopState, comment, image, removed, report, inbox>>

(* The hop is read again, and the INSERT comes after. *)
normalizeHopCommentAudience(w) ==
  /\ Doing(w, "audience") /\ hopExists
  /\ work[w].to # NoPerson =>
       match # NoPerson /\ {work[w].who, work[w].to} = {Creator, match}
  /\ work' = [work EXCEPT ![w].doing = "insert"]
  /\ UNCHANGED <<hopState, comment, image, removed, report, inbox>>

AddHopComment(w, k) ==
  /\ Doing(w, "insert") /\ hopExists /\ Fresh(k)
  /\ comment' = [comment EXCEPT ![k] = [author |-> work[w].who, to |-> work[w].to]]
  /\ work' = [work EXCEPT ![w].doing = "notify", ![w].item = k]
  /\ UNCHANGED <<hopState, image, removed, report, inbox>>

(* One INSERT for each recipient; one that fails is logged. *)
CreateMemberNotification(w) ==
  /\ Doing(w, "notify")
  /\ \E told \in SUBSET work[w].tell : inbox' = inbox \cup (told \X {work[w].item})
  /\ Finish(w)
  /\ UNCHANGED <<hopState, comment, image, removed, report>>

DeleteMemberNotification(n) ==
  /\ n \in inbox /\ inbox' = inbox \ {n}
  /\ UNCHANGED <<hopState, comment, image, removed, report, work>>

-----------------------------------------------------------------------------
(* Pictures and privacy. *)

handleUploadHopImage(w, m) ==
  /\ hopExists /\ Associated(m)
  /\ Take(w, [Free EXCEPT !.doing = "upload"])
  /\ UNCHANGED <<hopState, comment, image, removed, report, inbox>>

AddHopImage(w, i) ==
  /\ Doing(w, "upload") /\ hopExists /\ Fresh(i)
  /\ image' = image \cup {i} /\ Finish(w)
  /\ UNCHANGED <<hopState, comment, removed, report, inbox>>

handleDeleteHopImage(w, m, i) ==
  /\ hopExists /\ Associated(m)
  /\ Take(w, [Free EXCEPT !.doing = "drop", !.item = i])
  /\ UNCHANGED <<hopState, comment, image, removed, report, inbox>>

LeaveTheRow(x) == Present(x) /\ removed' = removed \cup {x} /\ UNCHANGED <<comment, image>>   \* mutant
Erase(x) ==
  /\ Present(x) /\ removed' = removed \cup {x}
  /\ IF x \in Comments
     THEN comment' = [comment EXCEPT ![x] = Nothing] /\ UNCHANGED image
     ELSE image' = image \ {x} /\ UNCHANGED comment

DeleteHopImage(w) ==
  /\ Doing(w, "drop") /\ Erase(work[w].item) /\ Finish(w)
  /\ UNCHANGED <<hopState, report, inbox>>

(* One UPDATE, which names the creator and the match. *)
SetHopPrivacy(m) ==
  /\ hopExists /\ Associated(m) /\ isPrivate' \in BOOLEAN
  /\ UNCHANGED <<match, hopExists, helpers, comment, image, removed, report, inbox, work>>

-----------------------------------------------------------------------------
(* Reports and their moderation. *)

handleReport(w, m, x) ==
  /\ MayEnter(m) /\ (x \in Comments => x \in VisibleComments(m))
  /\ Take(w, [Free EXCEPT !.doing = "report", !.who = m, !.item = x])
  /\ UNCHANGED <<hopState, comment, image, removed, report, inbox>>

(* INSERT ... SELECT from the item; a member has one open report of it. *)
CreateReport(w, r) ==
  LET m == work[w].who  x == work[w].item  row == [by |-> m, item |-> x, status |-> "open"] IN
  /\ Doing(w, "report") /\ hopExists /\ Present(x) /\ report[r] = Nothing
  /\ \A s \in Reports : report[s] # row
  /\ report' = [report EXCEPT ![r] = row] /\ Finish(w)
  /\ UNCHANGED <<hopState, comment, image, removed, inbox>>

(* resolveModerationReport holds the report's lock until it commits, so the *)
(* deletion of the item and the new status are one step.                    *)
Open(r) == report[r] # Nothing /\ report[r].status = "open"
Settle(r, status) == report' = [report EXCEPT ![r].status = status]

DismissModerationReport(r) ==
  /\ Open(r) /\ Settle(r, "dismissed")
  /\ UNCHANGED <<hopState, comment, image, removed, inbox, work>>

ActionAnyway(r) ==   \* mutant: it does not matter that nothing was deleted
  /\ Open(r) /\ Settle(r, "actioned")
  /\ IF Present(report[r].item) THEN Erase(report[r].item)
     ELSE UNCHANGED <<comment, image, removed>>
  /\ UNCHANGED <<hopState, inbox, work>>
DeleteReported(r) ==
  /\ Open(r) /\ Erase(report[r].item) /\ Settle(r, "actioned")
  /\ UNCHANGED <<hopState, inbox, work>>

-----------------------------------------------------------------------------
(* The rest of the system. *)

MatchChanges ==
  /\ hopExists /\ match' \in (IF match = NoPerson THEN Participants \ {Creator} ELSE {NoPerson})
  /\ helpers' = helpers \cup ({match'} \ {NoPerson})
  /\ UNCHANGED <<isPrivate, hopExists, comment, image, removed, report, inbox, work>>

(* AdminDeleteHop: the rows about the hop go with it. *)
HopDeleted ==
  /\ hopExists /\ hopExists' = FALSE /\ match' = NoPerson
  /\ comment' = [k \in Comments |-> Nothing] /\ image' = {}
  /\ report' = [r \in Reports |-> Nothing] /\ removed' = Items
  /\ UNCHANGED <<isPrivate, helpers, inbox, work>>

(* A check that fails, an error, or a request that is cancelled. *)
Quit(w) ==
  /\ work[w] # Free /\ Finish(w)
  /\ UNCHANGED <<hopState, comment, image, removed, report, inbox>>

DNext ==
  \/ \E w \in Workers, m \in Participants :
       \/ handleCreateHopComment(w, m) \/ handleUploadHopImage(w, m)
       \/ \E i \in Images : handleDeleteHopImage(w, m, i)
       \/ \E x \in Items : handleReport(w, m, x)
  \/ \E w \in Workers :
       \/ normalizeHopCommentAudience(w) \/ CreateMemberNotification(w)
       \/ DeleteHopImage(w) \/ Quit(w)
       \/ \E k \in Comments : AddHopComment(w, k)
       \/ \E i \in Images : AddHopImage(w, i)
       \/ \E r \in Reports : CreateReport(w, r)
  \/ \E r \in Reports : DismissModerationReport(r) \/ DeleteReported(r)
  \/ \E n \in inbox : DeleteMemberNotification(n)
  \/ \E m \in Participants : SetHopPrivacy(m)
  \/ MatchChanges \/ HopDeleted

DSpec == DInit /\ [][DNext]_dvars

-----------------------------------------------------------------------------

(* Every variable of the discussion keeps its type, and what is gone does   *)
(* not come back.                                                           *)
DTypeOK ==
  /\ match \in Participants \cup {NoPerson}
  /\ match # Creator /\ isPrivate \in BOOLEAN /\ hopExists \in BOOLEAN
  /\ comment \in [Comments -> Comment \cup {Nothing}]
  /\ image \subseteq Images
  /\ report \in [Reports -> Report \cup {Nothing}]
  /\ inbox \subseteq Participants \X Comments
  /\ work \in [Workers -> Work]
  /\ \A x \in Items : Present(x) => x \notin removed

(* A private comment is shown to, and announced to, the creator and one who *)
(* was the match then; no later match gets to see it.                       *)
OnlyThePairSees ==
  \A k \in Comments : comment[k] # Nothing /\ comment[k].to # NoPerson =>
    LET pair == {comment[k].author, comment[k].to} IN
    /\ \E h \in helpers : pair = {Creator, h}
    /\ \A m \in Participants : k \in VisibleComments(m) \/ <<m, k>> \in inbox => m \in pair

(* Nobody reports a comment that was not for them to read; and of the       *)
(* reports of an item one at most is answered by deleting it, whoever else  *)
(* deletes it, and the item is gone then.                                   *)
ReportsHold ==
  \A r, s \in Reports : report[r] # Nothing =>
    LET x == report[r].item IN
    /\ x \in Comments /\ Present(x) => x \in VisibleComments(report[r].by)
    /\ report[r].status = "actioned" =>
         /\ ~Present(x)
         /\ report[s] # Nothing /\ report[s].item = x /\ report[s].status = "actioned" => s = r
=============================================================================
