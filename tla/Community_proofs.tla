-------------------------- MODULE Community_proofs --------------------------
(***************************************************************************)
(* Theorems about the discussion of a hop and about the skills, for any    *)
(* number of members, requests and rows, and for every list of hops.  Each *)
(* part has an inductive invariant of its own; the last theorems are about *)
(* the two of them in one server.                                          *)
(***************************************************************************)
EXTENDS MCCommunity, FiniteSetTheorems, FunctionTheorems, SequenceTheorems, TLAPS

(***************************************************************************)
(* THE DISCUSSION.  What is gone does not come back, and a comment is never *)
(* rewritten: what a request or a report says of an item it has read stays *)
(* true, or the item is gone.                                              *)
(***************************************************************************)

WorkInv(j) ==
  /\ j.doing \in {"audience", "insert", "report"} => j.who \in Participants
  /\ j.doing \in {"audience", "insert", "notify"} /\ j.to # NoPerson => j.tell = {j.to}
  /\ j.doing \in {"insert", "notify"} /\ j.to # NoPerson =>
       \E h \in helpers : {j.who, j.to} = {Creator, h}
  /\ j.doing = "notify" =>
       /\ j.item \in Comments /\ ~Fresh(j.item)
       /\ Present(j.item) => comment[j.item] = [author |-> j.who, to |-> j.to]
  /\ j.doing = "report" =>
       /\ j.item \in Items
       /\ j.item \in Comments => ~Fresh(j.item)
       /\ j.item \in Comments /\ Present(j.item) => j.item \in VisibleComments(j.who)
  /\ j.doing = "drop" => j.item \in Items

CommentInv(k) ==
  comment[k] # Nothing /\ comment[k].to # NoPerson =>
    /\ \E h \in helpers : {comment[k].author, comment[k].to} = {Creator, h}
    /\ \A m \in Participants : <<m, k>> \in inbox => m \in {comment[k].author, comment[k].to}

ReportInv(p) ==
  /\ ~Fresh(p.item)
  /\ p.item \in Comments /\ Present(p.item) => p.item \in VisibleComments(p.by)
  /\ p.status = "actioned" => ~Present(p.item)

ActionedOnce ==
  \A r, s \in Reports :
    report[r] # Nothing /\ report[s] # Nothing /\ report[r].item = report[s].item
      /\ report[r].status = "actioned" /\ report[s].status = "actioned" => r = s

HelpersInv ==
  /\ match # NoPerson => match \in helpers
  /\ helpers \subseteq Participants /\ removed \subseteq Items

DInv ==
  /\ DTypeOK /\ HelpersInv
  /\ \A n \in inbox : ~Fresh(n[2])
  /\ \A w \in Workers : WorkInv(work[w])
  /\ \A k \in Comments : CommentInv(k)
  /\ \A r \in Reports : report[r] # Nothing => ReportInv(report[r])
  /\ ActionedOnce

DFrame ==
  /\ helpers \subseteq helpers' /\ removed \subseteq removed'
  /\ \A x \in Items : Present(x) => Present(x)' \/ x \in removed'
  /\ \A k \in Comments : comment'[k] # Nothing => comment'[k] = comment[k] \/ Fresh(k)

LEMMA WorkFields ==
  ASSUME DInv, NEW w \in Workers
  PROVE  /\ work[w] \in Work
         /\ work[w].who \in Participants \cup {NoPerson} /\ work[w].to \in Participants \cup {NoPerson}
         /\ work[w].tell \subseteq Participants /\ work[w].item \in Items \cup {Nothing}
         /\ WorkInv(work[w])
<1>1. work[w] \in Work
  BY DEF DInv, DTypeOK
<1> QED
  BY <1>1 DEF Work, DInv

LEMMA ReportFields ==
  ASSUME DInv, NEW r \in Reports, report[r] # Nothing
  PROVE  /\ report[r] \in Report /\ report[r].by \in Participants /\ report[r].item \in Items
         /\ ReportInv(report[r])
<1>1. report[r] \in Report
  BY DEF DInv, DTypeOK
<1> QED
  BY <1>1 DEF Report, DInv

LEMMA FreeIsWork == Free \in Work /\ Free.doing = "nothing"
  BY DEF Free, Work

(* Items that are or were there keep what was read of them. *)
LEMMA ItemsStay ==
  ASSUME DInv, DFrame, DTypeOK', NEW x \in Items, ~Fresh(x)
  PROVE  /\ ~Fresh(x)' /\ (~Present(x) => ~Present(x)')
         /\ x \in Comments /\ Present(x)' => Present(x) /\ comment'[x] = comment[x]
         /\ \A m \in Participants :
              x \in Comments /\ Present(x)' /\ x \in VisibleComments(m) => x \in VisibleComments(m)'
<1>1. ~Fresh(x)'
  BY DEF DFrame, Fresh
<1>2. ~Present(x) => ~Present(x)'
  BY DEF DFrame, Fresh, DTypeOK
<1>3. x \in Comments /\ Present(x)' => Present(x) /\ comment'[x] = comment[x]
  BY <1>2 DEF DFrame, Present
<1>4. ASSUME NEW m \in Participants, x \in Comments, Present(x)', x \in VisibleComments(m)
      PROVE  x \in VisibleComments(m)'
  BY <1>3, <1>4 DEF VisibleComments
<1> QED
  BY <1>1, <1>2, <1>3, <1>4

LEMMA WorkStays ==
  ASSUME DInv, DFrame, DTypeOK', NEW j \in Work, WorkInv(j)
  PROVE  WorkInv(j)'
<1>1. helpers \subseteq helpers'
  BY DEF DFrame
<1>2. j.doing = "notify" =>
        /\ j.item \in Comments /\ ~Fresh(j.item)'
        /\ Present(j.item)' => comment'[j.item] = [author |-> j.who, to |-> j.to]
  BY ItemsStay DEF WorkInv, Items
<1>3. j.doing = "report" =>
        /\ j.item \in Items
        /\ j.item \in Comments => ~Fresh(j.item)'
        /\ j.item \in Comments /\ Present(j.item)' => j.item \in VisibleComments(j.who)'
  BY ItemsStay DEF WorkInv
<1> QED
  BY <1>1, <1>2, <1>3 DEF WorkInv

LEMMA ReportStays ==
  ASSUME DInv, DFrame, DTypeOK', NEW p \in Report, ReportInv(p)
  PROVE  ReportInv(p)'
<1>1. p.item \in Items /\ p.by \in Participants
  BY DEF Report
<1> QED
  BY <1>1, ItemsStay DEF ReportInv

LEMMA DMoves ==
  ASSUME DInv, DFrame, DTypeOK', HelpersInv', inbox' \subseteq inbox,
         \A w \in Workers : work'[w] = work[w] \/ WorkInv(work[w])',
         \A k \in Comments : comment'[k] = comment[k] \/ comment'[k] = Nothing \/ CommentInv(k)',
         \A r \in Reports : report'[r] = report[r] \/ report'[r] = Nothing \/ ReportInv(report[r])',
         ActionedOnce'
  PROVE  DInv'
<1>1. ASSUME NEW n \in inbox'
      PROVE  ~Fresh(n[2])'
  <2>1. n \in inbox /\ n[2] \in Items /\ ~Fresh(n[2])
    BY DEF DInv, DTypeOK, Items
  <2> QED
    BY <2>1, ItemsStay
<1>2. ASSUME NEW w \in Workers
      PROVE  WorkInv(work[w])'
  <2> PICK j \in Work : j = work[w] /\ WorkInv(j)
    BY WorkFields
  <2>1. WorkInv(j)'
    BY WorkStays
  <2> QED
    BY <2>1
<1>3. ASSUME NEW k \in Comments
      PROVE  CommentInv(k)'
  <2>1. CommentInv(k) /\ helpers \subseteq helpers'
    BY DEF DInv, DFrame
  <2>2. CASE comment'[k] = comment[k]
    BY <2>1, <2>2 DEF CommentInv
  <2>3. CASE comment'[k] = Nothing
    BY <2>3 DEF CommentInv
  <2> QED
    BY <2>2, <2>3
<1>4. ASSUME NEW r \in Reports, report'[r] # Nothing
      PROVE  ReportInv(report[r])'
  <2>1. CASE report'[r] = report[r]
    <3> PICK p \in Report : p = report[r] /\ ReportInv(p)
      BY <1>4, <2>1, ReportFields
    <3>1. ReportInv(p)'
      BY ReportStays
    <3> QED
      BY <2>1, <3>1
  <2> QED
    BY <1>4, <2>1
<1> QED
  BY <1>1, <1>2, <1>3, <1>4 DEF DInv

(* Steps that change only what a request is in the middle of. *)
LEMMA WorkMoves ==
  ASSUME DInv, NEW w \in Workers, NEW j \in Work, WorkInv(j), work' = [work EXCEPT ![w] = j],
         UNCHANGED <<match, isPrivate, hopExists, helpers, comment, image, removed, report, inbox>>
  PROVE  DInv'
<1>1. DFrame
  BY DEF DFrame, Present
<1>2. DTypeOK' /\ HelpersInv' /\ ActionedOnce'
  BY DEF DInv, DTypeOK, HelpersInv, ActionedOnce, Present
<1>3. WorkInv(j)'
  BY <1>1, <1>2, WorkStays
<1>4. \A v \in Workers : work'[v] = work[v] \/ WorkInv(work[v])'
  <2>1. work'[w] = j /\ \A v \in Workers \ {w} : work'[v] = work[v]
    BY DEF DInv, DTypeOK
  <2> QED
    BY <1>3, <2>1
<1> QED
  BY <1>1, <1>2, <1>4, DMoves

LEMMA FinishKeeps ==
  ASSUME DInv, NEW w \in Workers, Finish(w),
         UNCHANGED <<match, isPrivate, hopExists, helpers, comment, image, removed, report, inbox>>
  PROVE  DInv'
<1>1. WorkInv(Free)
  BY FreeIsWork DEF WorkInv
<1> QED
  BY <1>1, FreeIsWork, WorkMoves DEF Finish

LEMMA CommentBegins ==
  ASSUME DInv, NEW w \in Workers, NEW m \in Participants, handleCreateHopComment(w, m)
  PROVE  DInv'
<1>1. PICK to \in {NoPerson, PrivateRecipient(m)} :
        Take(w, [Free EXCEPT !.doing = "audience", !.who = m, !.to = to,
                   !.tell = IF to # NoPerson THEN {to} ELSE {Creator, match} \ {m, NoPerson}])
  BY DEF handleCreateHopComment
<1> PICK tell : tell = IF to # NoPerson THEN {to} ELSE {Creator, match} \ {m, NoPerson}
  OBVIOUS
<1>2. match \in Participants \cup {NoPerson} /\ Creator \in Participants
  BY DiscussionAssumption DEF DInv, DTypeOK
<1>3. to \in Participants \cup {NoPerson}
  BY <1>2 DEF PrivateRecipient
<1>4. tell \subseteq Participants /\ (to # NoPerson => tell = {to})
  BY <1>2, <1>3
<1> PICK j : j = [Free EXCEPT !.doing = "audience", !.who = m, !.to = to, !.tell = tell]
  OBVIOUS
<1>5. j \in Work /\ j.doing = "audience" /\ j.who = m /\ j.to = to /\ j.tell = tell
  BY <1>3, <1>4 DEF Work, Free
<1>6. WorkInv(j)
  BY <1>4, <1>5 DEF WorkInv
<1>7. /\ work' = [work EXCEPT ![w] = j]
      /\ UNCHANGED <<match, isPrivate, hopExists, helpers, comment, image, removed, report, inbox>>
  BY <1>1 DEF handleCreateHopComment, Take, hopState
<1> QED
  BY <1>5, <1>6, <1>7, WorkMoves

(* The audience is the creator and who is the match at that moment. *)
LEMMA AudienceKeeps ==
  ASSUME DInv, NEW w \in Workers, normalizeHopCommentAudience(w)
  PROVE  DInv'
<1> PICK b \in Work : b = work[w] /\ WorkInv(b)
  BY WorkFields
<1> PICK j : j = [b EXCEPT !.doing = "insert"]
  OBVIOUS
<1>1. j \in Work /\ j.doing = "insert" /\ j.who = b.who /\ j.to = b.to /\ j.tell = b.tell
  BY DEF Work
<1>2. /\ b.doing = "audience"
      /\ b.to # NoPerson => match # NoPerson /\ {b.who, b.to} = {Creator, match}
      /\ work' = [work EXCEPT ![w] = j]
      /\ UNCHANGED <<match, isPrivate, hopExists, helpers, comment, image, removed, report, inbox>>
  BY DEF normalizeHopCommentAudience, Doing, hopState
<1>3. b.to # NoPerson => \E h \in helpers : {b.who, b.to} = {Creator, h}
  BY <1>2 DEF DInv, HelpersInv
<1>4. WorkInv(j)
  BY <1>1, <1>2, <1>3 DEF WorkInv
<1> QED
  BY <1>1, <1>2, <1>4, WorkMoves

LEMMA CommentKeeps ==
  ASSUME DInv, NEW w \in Workers, NEW k \in Comments, AddHopComment(w, k)
  PROVE  DInv'
<1> PICK b \in Work : b = work[w] /\ WorkInv(b)
  BY WorkFields
<1> PICK c : c = [author |-> b.who, to |-> b.to]
  OBVIOUS
<1> PICK j : j = [b EXCEPT !.doing = "notify", !.item = k]
  OBVIOUS
<1>1. /\ b.doing = "insert" /\ Fresh(k) /\ comment' = [comment EXCEPT ![k] = c]
      /\ work' = [work EXCEPT ![w] = j]
      /\ UNCHANGED <<match, isPrivate, hopExists, helpers, image, removed, report, inbox>>
  BY DEF AddHopComment, Doing, hopState
<1>2. /\ j \in Work /\ j.doing = "notify" /\ j.who = b.who /\ j.to = b.to
      /\ j.tell = b.tell /\ j.item = k
  BY DEF Work, Items
<1>3. c \in Comment /\ c # Nothing /\ c.author = b.who /\ c.to = b.to
  <2>1. b.who \in Participants /\ b.to \in Participants \cup {NoPerson}
    BY <1>1 DEF WorkInv, Work
  <2>2. c \in Comment
    BY <2>1 DEF Comment
  <2> QED
    BY <2>2, DiscussionAssumption
<1>4. /\ comment'[k] = c /\ \A n \in Comments \ {k} : comment'[n] = comment[n]
      /\ comment' \in [Comments -> Comment \cup {Nothing}]
  BY <1>1, <1>3 DEF DInv, DTypeOK
<1>5. /\ work' \in [Workers -> Work] /\ work'[w] = j
      /\ \A v \in Workers \ {w} : work'[v] = work[v]
  BY <1>1, <1>2 DEF DInv, DTypeOK
<1>6. /\ \A x \in Items : Present(x)' <=> Present(x) \/ x = k
      /\ k \notin removed /\ Present(k)'
  BY <1>1, <1>3, <1>4 DEF Present, Fresh
<1>7. DFrame
  BY <1>1, <1>4, <1>6 DEF DFrame
<1>8. DTypeOK'
  BY <1>1, <1>4, <1>5, <1>6 DEF DInv, DTypeOK
<1>9. HelpersInv' /\ ActionedOnce'
  BY <1>1 DEF DInv, HelpersInv, ActionedOnce
<1>10. CommentInv(k)'
  <2>1. c.to # NoPerson => \E h \in helpers : {c.author, c.to} = {Creator, h}
    BY <1>1, <1>3 DEF WorkInv
  <2>2. \A m \in Participants : <<m, k>> \notin inbox
    BY <1>1 DEF DInv
  <2> QED
    BY <1>1, <1>4, <2>1, <2>2 DEF CommentInv
<1>11. WorkInv(j)'
  <2>1. ~Fresh(k)' /\ comment'[k] = [author |-> j.who, to |-> j.to]
    BY <1>2, <1>4, <1>6 DEF Fresh
  <2>2. WorkInv(b) /\ b.doing = "insert" /\ helpers' = helpers
    BY <1>1
  <2> QED
    BY <1>2, <2>1, <2>2 DEF WorkInv
<1>12. \A v \in Workers : work'[v] = work[v] \/ WorkInv(work[v])'
  BY <1>5, <1>11
<1>13. /\ inbox' \subseteq inbox
       /\ \A n \in Comments : comment'[n] = comment[n] \/ comment'[n] = Nothing \/ CommentInv(n)'
       /\ \A r \in Reports : report'[r] = report[r] \/ report'[r] = Nothing \/ ReportInv(report[r])'
  BY <1>1, <1>4, <1>10
<1> QED
  BY <1>7, <1>8, <1>9, <1>12, <1>13, DMoves

(* Only who was meant to is told of a private comment. *)
LEMMA NotificationKeeps ==
  ASSUME DInv, NEW w \in Workers, CreateMemberNotification(w)
  PROVE  DInv'
<1> PICK b \in Work : b = work[w] /\ WorkInv(b)
  BY WorkFields
<1> PICK k : k = b.item
  OBVIOUS
<1>1. PICK told \in SUBSET b.tell : inbox' = inbox \cup (told \X {k})
  BY DEF CreateMemberNotification
<1>2. /\ b.doing = "notify" /\ work' = [work EXCEPT ![w] = Free]
      /\ UNCHANGED <<match, isPrivate, hopExists, helpers, comment, image, removed, report>>
  BY DEF CreateMemberNotification, Doing, Finish, hopState
<1>3. /\ k \in Comments /\ ~Fresh(k) /\ b.tell \subseteq Participants
      /\ Present(k) => comment[k] = [author |-> b.who, to |-> b.to]
      /\ b.to # NoPerson => b.tell = {b.to}
  BY <1>2 DEF WorkInv, Work
<1>4. /\ work' \in [Workers -> Work] /\ work'[w] = Free
      /\ \A v \in Workers \ {w} : work'[v] = work[v]
  BY <1>2, FreeIsWork DEF DInv, DTypeOK
<1>5. DTypeOK'
  <2>1. inbox' \subseteq Participants \X Comments
    BY <1>1, <1>3 DEF DInv, DTypeOK
  <2>2. \A x \in Items : Present(x)' => x \notin removed'
    BY <1>2 DEF DInv, DTypeOK, Present
  <2> QED
    BY <1>2, <1>4, <2>1, <2>2 DEF DInv, DTypeOK
<1>6. DFrame
  BY <1>2 DEF DFrame, Present
<1>7. HelpersInv' /\ ActionedOnce'
  BY <1>2 DEF DInv, HelpersInv, ActionedOnce
<1>8. ASSUME NEW n \in inbox'
      PROVE  ~Fresh(n[2])'
  <2>1. ~Fresh(n[2])
    BY <1>1, <1>3 DEF DInv
  <2> QED
    BY <1>2, <2>1 DEF Fresh, Present
<1>9. ASSUME NEW v \in Workers
      PROVE  WorkInv(work[v])'
  <2> PICK j \in Work : j = work'[v] /\ WorkInv(j)
    <3>1. WorkInv(Free)
      BY FreeIsWork DEF WorkInv
    <3> QED
      BY <1>4, <3>1, FreeIsWork, WorkFields
  <2>1. WorkInv(j)'
    BY <1>5, <1>6, WorkStays
  <2> QED
    BY <2>1
<1>10. ASSUME NEW n \in Comments
       PROVE  CommentInv(n)'
  <2>1. CommentInv(n) /\ comment' = comment /\ helpers' = helpers
    BY <1>2 DEF DInv
  <2>2. CASE n # k
    <3>1. \A m \in Participants : <<m, n>> \in inbox' => <<m, n>> \in inbox
      BY <1>1, <2>2
    <3> QED
      BY <2>1, <3>1 DEF CommentInv
  <2>3. CASE n = k
    <3>1. comment[k] # Nothing => comment[k].to = b.to
      BY <1>3 DEF Present
    <3>2. \A m \in Participants : <<m, k>> \in inbox' /\ b.to # NoPerson => <<m, k>> \in inbox \/ m = b.to
      BY <1>1, <1>3
    <3> QED
      BY <2>1, <2>3, <3>1, <3>2 DEF CommentInv
  <2> QED
    BY <2>2, <2>3
<1>11. ASSUME NEW r \in Reports, report'[r] # Nothing
       PROVE  ReportInv(report[r])'
  <2> PICK p \in Report : p = report[r] /\ ReportInv(p)
    BY <1>2, <1>11, ReportFields
  <2>1. ReportInv(p)'
    BY <1>5, <1>6, ReportStays
  <2> QED
    BY <1>2, <2>1
<1> QED
  BY <1>5, <1>7, <1>8, <1>9, <1>10, <1>11 DEF DInv

LEMMA NotificationDeletedKeeps ==
  ASSUME DInv, NEW n \in inbox, DeleteMemberNotification(n)
  PROVE  DInv'
<1>1. /\ inbox' \subseteq inbox
      /\ UNCHANGED <<match, isPrivate, hopExists, helpers, comment, image, removed, report, work>>
  BY DEF DeleteMemberNotification, hopState
<1>2. DFrame
  BY <1>1 DEF DFrame, Present
<1>3. DTypeOK' /\ HelpersInv' /\ ActionedOnce'
  BY <1>1 DEF DInv, DTypeOK, HelpersInv, ActionedOnce, Present
<1> QED
  BY <1>1, <1>2, <1>3, DMoves

LEMMA PictureBegins ==
  ASSUME DInv, NEW w \in Workers, NEW m \in Participants,
         handleUploadHopImage(w, m) \/ \E i \in Images : handleDeleteHopImage(w, m, i)
  PROVE  DInv'
<1>1. PICK j \in Work :
        /\ work' = [work EXCEPT ![w] = j]
        /\ j.doing = "upload" \/ (j.doing = "drop" /\ j.item \in Items)
  <2>1. CASE handleUploadHopImage(w, m)
    <3> PICK j : j = [Free EXCEPT !.doing = "upload"]
      OBVIOUS
    <3>1. j \in Work /\ j.doing = "upload"
      BY DEF Work, Free
    <3> QED
      BY <2>1, <3>1 DEF handleUploadHopImage, Take
  <2>2. ASSUME NEW i \in Images, handleDeleteHopImage(w, m, i)
        PROVE  \E j \in Work : /\ work' = [work EXCEPT ![w] = j]
                               /\ j.doing = "drop" /\ j.item \in Items
    <3> PICK j : j = [Free EXCEPT !.doing = "drop", !.item = i]
      OBVIOUS
    <3>1. j \in Work /\ j.doing = "drop" /\ j.item \in Items
      BY DEF Work, Free, Items
    <3> QED
      BY <2>2, <3>1 DEF handleDeleteHopImage, Take
  <2> QED
    BY <2>1, <2>2
<1>2. UNCHANGED <<match, isPrivate, hopExists, helpers, comment, image, removed, report, inbox>>
  BY DEF handleUploadHopImage, handleDeleteHopImage, hopState
<1>3. WorkInv(j)
  BY <1>1 DEF WorkInv
<1> QED
  BY <1>1, <1>2, <1>3, WorkMoves

LEMMA PictureKeeps ==
  ASSUME DInv, NEW w \in Workers, NEW i \in Images, AddHopImage(w, i)
  PROVE  DInv'
<1>1. /\ Fresh(i) /\ image' = image \cup {i} /\ work' = [work EXCEPT ![w] = Free]
      /\ UNCHANGED <<match, isPrivate, hopExists, helpers, comment, removed, report, inbox>>
  BY DEF AddHopImage, Finish, hopState
<1>2. i \notin Comments
  BY DiscussionAssumption
<1>3. /\ \A x \in Items : Present(x)' <=> Present(x) \/ x = i
      /\ i \notin removed
  BY <1>1, <1>2 DEF Present, Fresh
<1>4. DFrame
  BY <1>1, <1>3 DEF DFrame
<1>5. DTypeOK'
  BY <1>1, <1>3, FreeIsWork DEF DInv, DTypeOK
<1>6. HelpersInv' /\ ActionedOnce'
  BY <1>1 DEF DInv, HelpersInv, ActionedOnce
<1>7. \A v \in Workers : work'[v] = work[v] \/ WorkInv(work[v])'
  <2>1. WorkInv(Free)'
    BY FreeIsWork DEF WorkInv
  <2>2. \A v \in Workers : work'[v] = work[v] \/ work'[v] = Free
    BY <1>1 DEF DInv, DTypeOK
  <2> QED
    BY <2>1, <2>2
<1>8. /\ inbox' \subseteq inbox
      /\ \A k \in Comments : comment'[k] = comment[k] \/ comment'[k] = Nothing \/ CommentInv(k)'
      /\ \A r \in Reports : report'[r] = report[r] \/ report'[r] = Nothing \/ ReportInv(report[r])'
  BY <1>1
<1> QED
  BY <1>4, <1>5, <1>6, <1>7, <1>8, DMoves

(* What is erased is gone, and nothing else. *)
LEMMA EraseFrame ==
  ASSUME DInv, NEW x \in Items, Erase(x), helpers' = helpers
  PROVE  /\ DFrame /\ Present(x) /\ ~Present(x)'
         /\ comment' \in [Comments -> Comment \cup {Nothing}] /\ image' \subseteq Images
         /\ removed' \subseteq Items
         /\ \A y \in Items : Present(y)' => y \notin removed'
         /\ \A k \in Comments : comment'[k] = comment[k] \/ comment'[k] = Nothing
<1>1. Present(x) /\ removed' = removed \cup {x}
  BY DEF Erase
<1>2. /\ comment' \in [Comments -> Comment \cup {Nothing}] /\ image' \subseteq Images
      /\ \A k \in Comments : comment'[k] = comment[k] \/ comment'[k] = Nothing
      /\ \A y \in Items : Present(y)' <=> Present(y) /\ y # x
  <2>1. CASE x \in Comments
    <3>1. comment' = [comment EXCEPT ![x] = Nothing] /\ image' = image
      BY <2>1 DEF Erase
    <3>2. x \notin image
      BY <2>1, DiscussionAssumption DEF DInv, DTypeOK
    <3> QED
      BY <2>1, <3>1, <3>2 DEF DInv, DTypeOK, Present
  <2>2. CASE x \notin Comments
    <3>1. comment' = comment /\ image' = image \ {x}
      BY <2>2 DEF Erase
    <3> QED
      BY <2>2, <3>1 DEF DInv, DTypeOK, Present
  <2> QED
    BY <2>1, <2>2
<1>3. removed' \subseteq Items
  BY <1>1 DEF DInv, HelpersInv
<1>4. \A y \in Items : Present(y)' => y \notin removed'
  BY <1>1, <1>2 DEF DInv, DTypeOK
<1>5. DFrame
  BY <1>1, <1>2 DEF DFrame
<1> QED
  BY <1>1, <1>2, <1>3, <1>4, <1>5

LEMMA PictureDeletedKeeps ==
  ASSUME DInv, NEW w \in Workers, DeleteHopImage(w)
  PROVE  DInv'
<1> PICK x : x = work[w].item
  OBVIOUS
<1>1. /\ work[w].doing = "drop" /\ Erase(x) /\ work' = [work EXCEPT ![w] = Free]
      /\ UNCHANGED <<match, isPrivate, hopExists, helpers, report, inbox>>
  BY DEF DeleteHopImage, Doing, Finish, hopState
<1>2. x \in Items
  BY <1>1, WorkFields DEF WorkInv
<1>3. /\ DFrame /\ Present(x) /\ ~Present(x)'
      /\ comment' \in [Comments -> Comment \cup {Nothing}] /\ image' \subseteq Images
      /\ removed' \subseteq Items
      /\ \A y \in Items : Present(y)' => y \notin removed'
      /\ \A k \in Comments : comment'[k] = comment[k] \/ comment'[k] = Nothing
  BY <1>1, <1>2, EraseFrame
<1>4. DTypeOK' /\ HelpersInv' /\ ActionedOnce'
  BY <1>1, <1>3, FreeIsWork DEF DInv, DTypeOK, HelpersInv, ActionedOnce
<1>5. \A v \in Workers : work'[v] = work[v] \/ WorkInv(work[v])'
  <2>1. WorkInv(Free)'
    BY FreeIsWork DEF WorkInv
  <2>2. \A v \in Workers : work'[v] = work[v] \/ work'[v] = Free
    BY <1>1 DEF DInv, DTypeOK
  <2> QED
    BY <2>1, <2>2
<1> QED
  BY <1>1, <1>3, <1>4, <1>5, DMoves

LEMMA PrivacyKeeps ==
  ASSUME DInv, NEW m \in Participants, SetHopPrivacy(m)
  PROVE  DInv'
<1>1. /\ isPrivate' \in BOOLEAN
      /\ UNCHANGED <<match, hopExists, helpers, comment, image, removed, report, inbox, work>>
  BY DEF SetHopPrivacy
<1>2. DFrame
  BY <1>1 DEF DFrame, Present
<1>3. DTypeOK' /\ HelpersInv' /\ ActionedOnce'
  BY <1>1 DEF DInv, DTypeOK, HelpersInv, ActionedOnce, Present
<1> QED
  BY <1>1, <1>2, <1>3, DMoves

(* A report is of what its author may see. *)
LEMMA ReportBegins ==
  ASSUME DInv, NEW w \in Workers, NEW m \in Participants, NEW x \in Items, handleReport(w, m, x)
  PROVE  DInv'
<1> PICK j : j = [Free EXCEPT !.doing = "report", !.who = m, !.item = x]
  OBVIOUS
<1>1. j \in Work /\ j.doing = "report" /\ j.who = m /\ j.item = x
  BY DEF Work, Free
<1>2. /\ x \in Comments => x \in VisibleComments(m)
      /\ work' = [work EXCEPT ![w] = j]
      /\ UNCHANGED <<match, isPrivate, hopExists, helpers, comment, image, removed, report, inbox>>
  BY DEF handleReport, Take, hopState
<1>3. x \in Comments => ~Fresh(x)
  BY <1>2 DEF VisibleComments, Fresh, Present
<1>4. WorkInv(j)
  BY <1>1, <1>2, <1>3 DEF WorkInv
<1> QED
  BY <1>1, <1>2, <1>4, WorkMoves

LEMMA ReportKeeps ==
  ASSUME DInv, NEW w \in Workers, NEW r \in Reports, CreateReport(w, r)
  PROVE  DInv'
<1> PICK b \in Work : b = work[w] /\ WorkInv(b)
  BY WorkFields
<1> PICK p : p = [by |-> b.who, item |-> b.item, status |-> "open"]
  OBVIOUS
<1>1. /\ b.doing = "report" /\ Present(b.item) /\ report' = [report EXCEPT ![r] = p]
      /\ work' = [work EXCEPT ![w] = Free]
      /\ UNCHANGED <<match, isPrivate, hopExists, helpers, comment, image, removed, inbox>>
  BY DEF CreateReport, Doing, Finish, hopState
<1>2. p \in Report /\ p.by = b.who /\ p.item = b.item /\ p.status = "open" /\ p # Nothing
  <2>1. b.who \in Participants /\ b.item \in Items
    BY <1>1 DEF WorkInv
  <2>2. p \in Report
    BY <2>1 DEF Report
  <2> QED
    BY <2>2, DiscussionAssumption
<1>3. /\ report' \in [Reports -> Report \cup {Nothing}] /\ report'[r] = p
      /\ \A s \in Reports \ {r} : report'[s] = report[s]
  BY <1>1, <1>2 DEF DInv, DTypeOK
<1>4. ReportInv(p)
  BY <1>1, <1>2 DEF ReportInv, WorkInv, Fresh
<1>5. DFrame
  BY <1>1 DEF DFrame, Present
<1>6. DTypeOK' /\ HelpersInv'
  BY <1>1, <1>3, FreeIsWork DEF DInv, DTypeOK, HelpersInv, Present
<1>7. ActionedOnce'
  BY <1>2, <1>3 DEF DInv, ActionedOnce
<1>8. \A v \in Workers : work'[v] = work[v] \/ WorkInv(work[v])'
  <2>1. WorkInv(Free)'
    BY FreeIsWork DEF WorkInv
  <2>2. \A v \in Workers : work'[v] = work[v] \/ work'[v] = Free
    BY <1>1 DEF DInv, DTypeOK
  <2> QED
    BY <2>1, <2>2
<1>9. ReportInv(p)'
  BY <1>2, <1>4, <1>5, <1>6, ReportStays
<1>10. /\ inbox' \subseteq inbox
       /\ \A k \in Comments : comment'[k] = comment[k] \/ comment'[k] = Nothing \/ CommentInv(k)'
       /\ \A s \in Reports : report'[s] = report[s] \/ report'[s] = Nothing \/ ReportInv(report[s])'
  BY <1>1, <1>3, <1>9
<1> QED
  BY <1>5, <1>6, <1>7, <1>8, <1>10, DMoves

(* The item of a report that is settled by deleting it was there until then. *)
LEMMA SettleKeeps ==
  ASSUME DInv, NEW r \in Reports, DismissModerationReport(r) \/ DeleteReported(r)
  PROVE  DInv'
<1>1. report[r] # Nothing
  BY DEF DismissModerationReport, DeleteReported, Open
<1> PICK b \in Report : b = report[r] /\ b.item \in Items /\ ReportInv(b)
  BY <1>1, ReportFields
<1>2. PICK status \in {"dismissed", "actioned"} :
        /\ report' = [report EXCEPT ![r] = [b EXCEPT !.status = status]]
        /\ status = "dismissed" => UNCHANGED <<comment, image, removed>>
        /\ status = "actioned" => Erase(b.item)
        /\ UNCHANGED <<match, isPrivate, hopExists, helpers, inbox, work>>
  BY DEF DismissModerationReport, DeleteReported, Settle, hopState
<1> PICK p : p = [b EXCEPT !.status = status]
  OBVIOUS
<1>3. p \in Report /\ p.by = b.by /\ p.item = b.item /\ p.status = status
  BY DEF Report
<1>4. /\ report' \in [Reports -> Report \cup {Nothing}] /\ report'[r] = p /\ p # Nothing
      /\ \A s \in Reports \ {r} : report'[s] = report[s]
  BY <1>2, <1>3, DiscussionAssumption DEF DInv, DTypeOK
<1>5. /\ DFrame
      /\ comment' \in [Comments -> Comment \cup {Nothing}] /\ image' \subseteq Images
      /\ removed' \subseteq Items
      /\ \A y \in Items : Present(y)' => y \notin removed'
      /\ \A k \in Comments : comment'[k] = comment[k] \/ comment'[k] = Nothing
      /\ status = "actioned" => Present(b.item) /\ ~Present(b.item)'
  <2>1. CASE status = "actioned"
    BY <1>2, <2>1, EraseFrame
  <2>2. CASE status = "dismissed"
    BY <1>2, <2>2 DEF DFrame, DInv, DTypeOK, HelpersInv, Present
  <2> QED
    BY <2>1, <2>2
<1>6. DTypeOK' /\ HelpersInv'
  BY <1>2, <1>4, <1>5 DEF DInv, DTypeOK, HelpersInv
<1>7. ActionedOnce'
  <2>1. \A s \in Reports : report[s] # Nothing /\ report[s].item = b.item /\ status = "actioned"
          => report[s].status # "actioned"
    BY <1>5 DEF DInv, ReportInv
  <2>2. ActionedOnce
    BY DEF DInv
  <2>3. \A s \in Reports \ {r} : ~(/\ report[s] # Nothing /\ report[s].status = "actioned"
                                  /\ p.status = "actioned" /\ report[s].item = p.item)
    BY <1>3, <2>1
  <2>4. ASSUME NEW s \in Reports, NEW u \in Reports,
               report'[s] # Nothing, report'[u] # Nothing,
               report'[s].status = "actioned", report'[u].status = "actioned",
               report'[s].item = report'[u].item
        PROVE  s = u
    <3>1. CASE s = r
      BY <1>4, <2>3, <2>4, <3>1
    <3>2. CASE u = r
      BY <1>4, <2>3, <2>4, <3>2
    <3>3. CASE s # r /\ u # r
      BY <1>4, <2>2, <2>4, <3>3 DEF ActionedOnce
    <3> QED
      BY <3>1, <3>2, <3>3
  <2> QED
    BY <2>4 DEF ActionedOnce
<1>8. ReportInv(p)'
  <2>1. ReportInv(b)'
    BY <1>5, <1>6, ReportStays
  <2> QED
    BY <1>3, <1>5, <2>1 DEF ReportInv
<1>9. /\ inbox' \subseteq inbox
      /\ \A k \in Comments : comment'[k] = comment[k] \/ comment'[k] = Nothing \/ CommentInv(k)'
      /\ \A s \in Reports : report'[s] = report[s] \/ report'[s] = Nothing \/ ReportInv(report[s])'
      /\ \A v \in Workers : work'[v] = work[v] \/ WorkInv(work[v])'
  BY <1>2, <1>4, <1>5, <1>8
<1> QED
  BY <1>5, <1>6, <1>7, <1>9, DMoves

LEMMA MatchKeeps ==
  ASSUME DInv, MatchChanges
  PROVE  DInv'
<1>1. /\ match' \in (Participants \ {Creator}) \cup {NoPerson}
      /\ helpers' = helpers \cup ({match'} \ {NoPerson})
      /\ UNCHANGED <<isPrivate, hopExists, comment, image, removed, report, inbox, work>>
  BY DEF MatchChanges
<1>2. Creator # NoPerson
  BY DiscussionAssumption
<1>3. DFrame
  BY <1>1 DEF DFrame, Present
<1>4. DTypeOK'
  BY <1>1, <1>2 DEF DInv, DTypeOK, Present
<1>5. HelpersInv' /\ ActionedOnce'
  BY <1>1 DEF DInv, HelpersInv, ActionedOnce
<1> QED
  BY <1>1, <1>3, <1>4, <1>5, DMoves

LEMMA HopDeletedKeeps ==
  ASSUME DInv, HopDeleted
  PROVE  DInv'
<1>1. /\ hopExists' = FALSE /\ match' = NoPerson
      /\ comment' = [k \in Comments |-> Nothing] /\ image' = {}
      /\ report' = [r \in Reports |-> Nothing] /\ removed' = Items
      /\ UNCHANGED <<isPrivate, helpers, inbox, work>>
  BY DEF HopDeleted
<1>2. \A x \in Items : ~Present(x)'
  BY <1>1 DEF Present
<1>3. DFrame
  BY <1>1 DEF DFrame, DInv, HelpersInv
<1>4. DTypeOK'
  BY <1>1, <1>2, DiscussionAssumption DEF DInv, DTypeOK
<1>5. HelpersInv' /\ ActionedOnce'
  BY <1>1 DEF DInv, HelpersInv, ActionedOnce
<1>6. /\ inbox' \subseteq inbox
      /\ \A k \in Comments : comment'[k] = comment[k] \/ comment'[k] = Nothing \/ CommentInv(k)'
      /\ \A r \in Reports : report'[r] = report[r] \/ report'[r] = Nothing \/ ReportInv(report[r])'
      /\ \A v \in Workers : work'[v] = work[v] \/ WorkInv(work[v])'
  BY <1>1
<1> QED
  BY <1>3, <1>4, <1>5, <1>6, DMoves

LEMMA InitDInv == DInit => DInv
<1> SUFFICES ASSUME DInit PROVE DInv
  OBVIOUS
<1>1. /\ match = NoPerson /\ helpers = {} /\ inbox = {} /\ image = {}
      /\ isPrivate = FALSE /\ hopExists = TRUE
      /\ removed \subseteq Items
      /\ \A k \in Comments : comment[k] = Nothing
      /\ \A r \in Reports : report[r] = Nothing
      /\ \A w \in Workers : work[w] = Free
  BY DiscussionAssumption DEF DInit
<1>2. \A x \in Items : ~Present(x)
  BY <1>1 DEF Present
<1>3. DTypeOK
  BY <1>1, <1>2, FreeIsWork, DiscussionAssumption DEF DInit, DTypeOK
<1>4. HelpersInv /\ ActionedOnce
  BY <1>1 DEF HelpersInv, ActionedOnce
<1>5. /\ \A w \in Workers : WorkInv(work[w])
      /\ \A k \in Comments : CommentInv(k)
  BY <1>1, FreeIsWork DEF WorkInv, CommentInv
<1> QED
  BY <1>1, <1>3, <1>4, <1>5 DEF DInv

LEMMA NextDInv == DInv /\ [DNext]_dvars => DInv'
<1> SUFFICES ASSUME DInv, [DNext]_dvars PROVE DInv'
  OBVIOUS
<1>1. ASSUME NEW w \in Workers, NEW m \in Participants,
             \/ handleCreateHopComment(w, m) \/ handleUploadHopImage(w, m)
             \/ \E i \in Images : handleDeleteHopImage(w, m, i)
             \/ \E x \in Items : handleReport(w, m, x)
      PROVE  DInv'
  BY <1>1, CommentBegins, PictureBegins, ReportBegins
<1>2. ASSUME NEW w \in Workers,
             \/ normalizeHopCommentAudience(w) \/ CreateMemberNotification(w)
             \/ DeleteHopImage(w)
      PROVE  DInv'
  BY <1>2, AudienceKeeps, NotificationKeeps, PictureDeletedKeeps
<1>3. ASSUME NEW w \in Workers, Quit(w)
      PROVE  DInv'
  BY <1>3, FinishKeeps DEF Quit, hopState
<1>4. ASSUME NEW w \in Workers,
             \/ \E k \in Comments : AddHopComment(w, k)
             \/ \E i \in Images : AddHopImage(w, i)
             \/ \E r \in Reports : CreateReport(w, r)
      PROVE  DInv'
  BY <1>4, CommentKeeps, PictureKeeps, ReportKeeps
<1>5. ASSUME NEW r \in Reports, DismissModerationReport(r) \/ DeleteReported(r)
      PROVE  DInv'
  BY <1>5, SettleKeeps
<1>6. ASSUME NEW n \in inbox, DeleteMemberNotification(n)
      PROVE  DInv'
  BY <1>6, NotificationDeletedKeeps
<1>7. ASSUME NEW m \in Participants, SetHopPrivacy(m)
      PROVE  DInv'
  BY <1>7, PrivacyKeeps
<1>8. CASE MatchChanges \/ HopDeleted
  BY <1>8, MatchKeeps, HopDeletedKeeps
<1>9. CASE UNCHANGED dvars
  <2>1. UNCHANGED <<match, isPrivate, hopExists, helpers, comment, image, removed, report, inbox, work>>
    BY <1>9 DEF dvars, hopState
  <2>2. DFrame
    BY <2>1 DEF DFrame, Present
  <2>3. DTypeOK' /\ HelpersInv' /\ ActionedOnce'
    BY <2>1 DEF DInv, DTypeOK, HelpersInv, ActionedOnce, Present
  <2> QED
    BY <2>1, <2>2, <2>3, DMoves
<1> QED
  BY <1>1, <1>2, <1>3, <1>4, <1>5, <1>6, <1>7, <1>8, <1>9 DEF DNext

(* What requests, reports and notifications say of a comment or a picture   *)
(* stays true while it is there, whatever the match and the moderators do.  *)
THEOREM DiscussionRelies == DSpec => []DInv
<1> QED
  BY InitDInv, NextDInv, PTL DEF DSpec

(* The types of the discussion, and what is gone does not come back.        *)
THEOREM DiscussionTypes == DSpec => []DTypeOK
<1>1. DInv => DTypeOK
  BY DEF DInv
<1> QED
  BY <1>1, DiscussionRelies, PTL

(* A private comment is shown and announced to the two it is between only,  *)
(* who are the creator and one who was the match.                           *)
THEOREM PrivateIsPrivate == DSpec => []OnlyThePairSees
<1>1. ASSUME DInv
      PROVE  OnlyThePairSees
  <2> SUFFICES ASSUME NEW k \in Comments, comment[k] # Nothing, comment[k].to # NoPerson
               PROVE  /\ \E h \in helpers : {comment[k].author, comment[k].to} = {Creator, h}
                      /\ \A m \in Participants : k \in VisibleComments(m) \/ <<m, k>> \in inbox
                           => m \in {comment[k].author, comment[k].to}
    BY DEF OnlyThePairSees
  <2>1. CommentInv(k)
    BY <1>1 DEF DInv
  <2> QED
    BY <2>1 DEF CommentInv, VisibleComments
<1> QED
  BY <1>1, DiscussionRelies, PTL

(* Nobody reports a comment that was not for them, and of the reports of an *)
(* item one at most is answered by deleting it.                             *)
THEOREM ReportsAreHeld == DSpec => []ReportsHold
<1>1. DInv => ReportsHold
  BY DEF DInv, ReportInv, ActionedOnce, ReportsHold
<1> QED
  BY <1>1, DiscussionRelies, PTL

-----------------------------------------------------------------------------
(***************************************************************************)
(* FINITE SETS.  What holds of every finite set is shown by a least set for *)
(* which it does not.                                                      *)
(***************************************************************************)

(* A set of subsets of a finite set that is not empty has a least member.  *)
LEMMA LeastSet ==
  ASSUME NEW S, IsFiniteSet(S), NEW T \in SUBSET (SUBSET S), T # {}
  PROVE  \E x \in T : \A y \in T : y \subseteq x => y = x
<1>1. IsWellFoundedOn(StrictSubsetOrdering(S), FiniteSubsetsOf(S))
  BY FS_StrictSubsetOrderingWellFounded
<1>2. T \subseteq FiniteSubsetsOf(S)
  BY FS_Subset DEF FiniteSubsetsOf
<1>3. \E x \in T : \A y \in T : ~(<<y, x>> \in StrictSubsetOrdering(S))
  BY <1>1, <1>2, WFMin
<1> QED
  BY <1>3 DEF StrictSubsetOrdering

LEMMA GreatestExists ==
  ASSUME NEW S, IsFiniteSet(S), S # {}, \A y \in S : y \in Nat
  PROVE  \E a \in S : \A y \in S : a >= y
<1>1. PICK T : T = {x \in SUBSET S : x # {} /\ ~\E a \in x : \A y \in x : a >= y}
  OBVIOUS
<1>2. ASSUME T # {} PROVE FALSE
  <2>1. T \in SUBSET (SUBSET S)
    BY <1>1
  <2>2. PICK x \in T : \A y \in T : y \subseteq x => y = x
    BY ONLY IsFiniteSet(S), <1>2, <2>1, LeastSet
  <2>3. x \subseteq S /\ x # {} /\ ~\E a \in x : \A y \in x : a >= y
    BY <1>1
  <2>4. PICK a : a \in x
    BY <2>3
  <2>5. x \ {a} \notin T
    BY <2>2, <2>4
  <2>6. CASE x = {a}
    BY <2>3, <2>4, <2>6
  <2>7. CASE x # {a}
    <3>1. PICK b \in x \ {a} : \A y \in x \ {a} : b >= y
      BY <1>1, <2>3, <2>4, <2>5, <2>7
    <3>2. a \in Nat /\ b \in Nat /\ \A y \in x : y \in Nat
      BY <2>3, <2>4, <3>1
    <3>3. \A y \in x : (a >= b => a >= y) /\ (b >= a => b >= y)
      BY <3>1, <3>2
    <3> QED
      BY <2>3, <2>4, <3>1, <3>2, <3>3
  <2> QED
    BY <2>6, <2>7
<1> QED
  BY <1>1, <1>2

LEMMA MaxExists ==
  ASSUME NEW S, IsFiniteSet(S), S # {}, S \subseteq Nat
  PROVE  Max(S) \in S /\ \A y \in S : Max(S) >= y
<1>1. \E a \in S : \A y \in S : a >= y
  BY GreatestExists
<1> QED
  BY <1>1 DEF Max

(***************************************************************************)
(* THE SKILLS.  Ids are given out in increasing order, so one that was read *)
(* names the same skill or none for as long as a request holds it, and a   *)
(* membership is remembered when it ends.                                  *)
(***************************************************************************)

HasBelonged(m, i) == skill[i].org = Default \/ <<m, skill[i].org>> \in belonged

JobInv(j) ==
  /\ j.doing \in {"select", "replace"} =>
       j.who \in People /\ \A i \in j.ids \cap Existing : HasBelonged(j.who, i)
  /\ \A i \in j.ids \cup j.seen : i <= lastId

SelectedInv == \A s \in selected : s[2] \in Existing /\ HasBelonged(s[1], s[2])

SkillsInv ==
  /\ SkillsTypeOK /\ SelectedInv
  /\ \A i \in Existing : i <= lastId
  /\ \A e \in Editors : JobInv(edit[e])

SkillsFrame ==
  /\ belonged \subseteq belonged' /\ lastId <= lastId'
  /\ \A i \in Existing' : i <= lastId => i \in Existing /\ skill'[i] = skill[i]

LEMMA RestIsEdit == Rest \in Edit /\ Rest.doing = "nothing" /\ Rest.ids = {} /\ Rest.seen = {}
  BY DEF Rest, Edit

LEMMA EditFields ==
  ASSUME SkillsTypeOK, NEW e \in Editors
  PROVE  /\ edit[e] \in Edit
         /\ edit[e].doing \in {"nothing", "select", "replace", "list"}
         /\ edit[e].who \in People \cup {None} /\ edit[e].org \in Orgs \cup {None}
         /\ edit[e].ids \subseteq Ids /\ edit[e].names \subseteq Names /\ edit[e].seen \subseteq Ids
<1>1. edit[e] \in Edit
  BY DEF SkillsTypeOK
<1> QED
  BY <1>1 DEF Edit

(* What a request holds stays true of what is there. *)
LEMMA JobStays ==
  ASSUME SkillsInv, SkillsFrame, SkillsTypeOK', NEW j \in Edit, JobInv(j)
  PROVE  JobInv(j)'
<1>1. j.ids \subseteq Ids /\ j.seen \subseteq Ids /\ lastId \in Nat /\ lastId' \in Nat /\ Ids \subseteq Nat
  BY SkillsConstants DEF Edit, SkillsTypeOK, SkillsInv
<1>2. \A i \in j.ids \cup j.seen : i <= lastId /\ i <= lastId'
  <2> TAKE i \in j.ids \cup j.seen
  <2>1. i \in Nat
    BY <1>1
  <2>2. i <= lastId
    BY DEF JobInv
  <2>3. lastId <= lastId'
    BY DEF SkillsFrame
  <2> QED
    BY <1>1, <2>1, <2>2, <2>3
<1>3. ASSUME NEW i \in j.ids, i \in Existing', HasBelonged(j.who, i)
      PROVE  HasBelonged(j.who, i)'
  <2>1. i <= lastId
    BY <1>2
  <2>2. skill'[i] = skill[i] /\ belonged \subseteq belonged'
    BY <1>3, <2>1 DEF SkillsFrame
  <2> QED
    BY <1>3, <2>2 DEF HasBelonged
<1>4. ASSUME NEW i \in j.ids, i \in Existing'
      PROVE  i \in Existing
  BY <1>2, <1>4 DEF SkillsFrame
<1> QED
  BY <1>2, <1>3, <1>4 DEF JobInv

(* A request moves on, the others keep what they hold. *)
LEMMA JobMoves ==
  ASSUME SkillsInv, SkillsFrame, SkillsTypeOK', NEW e \in Editors, NEW j \in Edit, JobInv(j)',
         edit' = [edit EXCEPT ![e] = j]
  PROVE  \A f \in Editors : JobInv(edit[f])'
<1> TAKE f \in Editors
<1>1. edit'[f] = IF f = e THEN j ELSE edit[f]
  BY DEF SkillsInv, SkillsTypeOK
<1>2. edit[f] \in Edit /\ JobInv(edit[f])
  BY EditFields DEF SkillsInv
<1>3. PICK g : g = edit[f]
  OBVIOUS
<1>4. JobInv(g)'
  BY <1>2, <1>3, JobStays
<1>5. edit'[f] = j \/ edit'[f] = g
  BY <1>1, <1>3
<1> QED
  BY <1>4, <1>5 DEF JobInv

(* A request changes nothing but what it is in the middle of. *)
LEMMA OnlyTheRequest ==
  ASSUME SkillsInv, NEW e \in Editors, NEW j \in Edit, JobInv(j),
         edit' = [edit EXCEPT ![e] = j],
         UNCHANGED <<orgs, belongs, belonged, skill, lastId, alias, selected>>
  PROVE  SkillsInv'
<1>1. SkillsTypeOK'
  BY DEF SkillsInv, SkillsTypeOK, Existing
<1>2. lastId \in Nat
  BY SkillsConstants DEF SkillsInv, SkillsTypeOK
<1>3. SkillsFrame
  BY <1>2 DEF SkillsFrame, Existing
<1>4. JobInv(j)'
  BY <1>1, <1>3, JobStays
<1>5. \A f \in Editors : JobInv(edit[f])'
  BY <1>1, <1>3, <1>4, JobMoves
<1>6. SelectedInv' /\ \A i \in Existing' : i <= lastId'
  BY DEF SkillsInv, SelectedInv, Existing, HasBelonged
<1> QED
  BY <1>1, <1>5, <1>6 DEF SkillsInv

LEMMA CheckKeeps ==
  ASSUME SkillsInv, NEW e \in Editors, NEW m \in People, NEW chosen \in SUBSET Ids,
         CheckSelection(e, m, chosen)
  PROVE  SkillsInv'
<1>1. PICK j : j = [Rest EXCEPT !.doing = "select", !.who = m, !.ids = chosen]
  OBVIOUS
<1>2. j \in Edit /\ j.doing = "select" /\ j.who = m /\ j.ids = chosen /\ j.seen = {}
  BY <1>1 DEF Rest, Edit
<1>3. \A i \in chosen : i \in Existing /\ HasBelonged(m, i)
  BY DEF CheckSelection, ListAvailableSkillsForMember, HasBelonged, SkillsInv, SkillsTypeOK
<1>4. JobInv(j)
  BY <1>2, <1>3 DEF JobInv, SkillsInv
<1> QED
  BY <1>1, <1>2, <1>4, OnlyTheRequest DEF CheckSelection, Begin

LEMMA DeleteKeeps ==
  ASSUME SkillsInv, NEW e \in Editors, DeleteSelections(e)
  PROVE  SkillsInv'
<1>1. PICK j : j = [edit[e] EXCEPT !.doing = "replace",
                                   !.seen = ListSelectedSkillIDsForMember(edit[e].who)]
  OBVIOUS
<1>2. edit[e] \in Edit /\ JobInv(edit[e]) /\ edit[e].doing = "select"
  BY EditFields DEF SkillsInv, DeleteSelections, During
<1>3. ListSelectedSkillIDsForMember(edit[e].who) \subseteq Ids
  BY DEF ListSelectedSkillIDsForMember
<1>4. /\ j \in Edit /\ j.doing = "replace" /\ j.who = edit[e].who /\ j.ids = edit[e].ids
      /\ j.seen = ListSelectedSkillIDsForMember(edit[e].who)
  BY <1>1, <1>2, <1>3 DEF Edit
<1>5. \A i \in j.seen : i <= lastId
  BY <1>4 DEF ListSelectedSkillIDsForMember, SkillsInv, SelectedInv
<1>6. JobInv(j)
  BY <1>2, <1>4, <1>5 DEF JobInv
<1>7. edit' = [edit EXCEPT ![e] = j]
  BY <1>1, <1>2 DEF DeleteSelections, SkillsInv, SkillsTypeOK
<1> QED
  BY <1>4, <1>6, <1>7, OnlyTheRequest DEF DeleteSelections

LEMMA LoadKeeps ==
  ASSUME SkillsInv, NEW e \in Editors, NEW o \in Orgs, NEW names \in SUBSET Names,
         LoadExisting(e, o, names)
  PROVE  SkillsInv'
<1>1. PICK kept : kept = {i \in ListOrganizationSkills(o) : skill[i].name \in names}
  OBVIOUS
<1>2. PICK j : j = [Rest EXCEPT !.doing = "list", !.org = o, !.ids = kept,
                      !.names = names \ {skill[i].name : i \in kept},
                      !.seen = ListOrganizationSkills(o) \ kept]
  OBVIOUS
<1>3. kept \subseteq Existing /\ ListOrganizationSkills(o) \subseteq Existing /\ Existing \subseteq Ids
  BY <1>1 DEF ListOrganizationSkills, Existing
<1>4. /\ j \in Edit /\ j.doing = "list" /\ j.ids = kept
      /\ j.seen = ListOrganizationSkills(o) \ kept
  BY <1>2, <1>3 DEF Rest, Edit
<1>5. JobInv(j)
  BY <1>3, <1>4 DEF JobInv, SkillsInv
<1> QED
  BY <1>1, <1>2, <1>4, <1>5, OnlyTheRequest DEF LoadExisting, Begin

LEMMA RollBackKeeps ==
  ASSUME SkillsInv, NEW e \in Editors, RollBack(e)
  PROVE  SkillsInv'
<1>1. JobInv(Rest)
  BY RestIsEdit DEF JobInv
<1> QED
  BY <1>1, RestIsEdit, OnlyTheRequest DEF RollBack

(* Chosen skills that exist when the INSERTs are made are the ones checked. *)
LEMMA ReplaceKeeps ==
  ASSUME SkillsInv, NEW e \in Editors, ReplaceSelections(e)
  PROVE  SkillsInv'
<1>1. PICK m, ids : m = edit[e].who /\ ids = edit[e].ids
  OBVIOUS
<1>2. edit[e] \in Edit /\ JobInv(edit[e]) /\ edit[e].doing = "replace"
  BY EditFields DEF SkillsInv, ReplaceSelections, During
<1>3. m \in People /\ ids \subseteq Existing /\ \A i \in ids : HasBelonged(m, i)
  BY <1>1, <1>2 DEF ReplaceSelections, JobInv
<1>4. /\ UNCHANGED <<orgs, belongs, belonged, skill, lastId, alias>>
      /\ selected' \subseteq selected \cup ({m} \X ids)
      /\ edit' = [f \in Editors |->
                    IF f = e THEN Rest
                    ELSE IF edit[f].who = m THEN [edit[f] EXCEPT !.seen = @ \ edit[e].seen]
                    ELSE edit[f]]
  BY <1>1 DEF ReplaceSelections
<1>5. \A f \in Editors :
        /\ edit'[f] \in Edit
        /\ \/ edit'[f].doing = "nothing" /\ edit'[f].ids = {}
           \/ edit'[f].doing = edit[f].doing /\ edit'[f].ids = edit[f].ids /\ edit'[f].who = edit[f].who
        /\ edit'[f].seen \subseteq edit[f].seen
  <2> TAKE f \in Editors
  <2>1. edit[f] \in Edit /\ edit[f].seen \subseteq Ids
    BY EditFields DEF SkillsInv
  <2>2. PICK d : d = [edit[f] EXCEPT !.seen = @ \ edit[e].seen]
    OBVIOUS
  <2>3. /\ d \in Edit /\ d.doing = edit[f].doing /\ d.ids = edit[f].ids /\ d.who = edit[f].who
        /\ d.seen \subseteq edit[f].seen
    BY <2>1, <2>2 DEF Edit
  <2>4. edit'[f] = Rest \/ edit'[f] = edit[f] \/ edit'[f] = d
    BY <1>4, <2>2
  <2>5. Rest \in Edit /\ Rest.doing = "nothing" /\ Rest.ids = {} /\ Rest.seen \subseteq edit[f].seen
    BY RestIsEdit
  <2> QED
    BY <2>1, <2>3, <2>4, <2>5
<1>6. SkillsTypeOK'
  <2>1. edit' \in [Editors -> Edit]
    BY <1>4, <1>5
  <2>2. selected' \subseteq People \X Ids
    BY <1>3, <1>4 DEF SkillsInv, SkillsTypeOK, Existing
  <2> QED
    BY <1>4, <2>1, <2>2 DEF SkillsInv, SkillsTypeOK, Existing
<1>7. SelectedInv' /\ \A i \in Existing' : i <= lastId'
  BY <1>3, <1>4 DEF SkillsInv, SelectedInv, Existing, HasBelonged
<1>8. \A f \in Editors : JobInv(edit[f])'
  <2> TAKE f \in Editors
  <2>1. JobInv(edit[f])
    BY DEF SkillsInv
  <2>2. PICK g : g = edit'[f]
    OBVIOUS
  <2>3. /\ \/ g.doing = "nothing" /\ g.ids = {}
           \/ g.doing = edit[f].doing /\ g.ids = edit[f].ids /\ g.who = edit[f].who
        /\ g.seen \subseteq edit[f].seen
    BY <1>5, <2>2
  <2>4. JobInv(g)
    BY <2>1, <2>3 DEF JobInv
  <2>5. JobInv(g)'
    BY <1>4, <2>4 DEF JobInv, Existing, HasBelonged
  <2> QED
    BY <2>2, <2>5
<1> QED
  BY <1>6, <1>7, <1>8 DEF SkillsInv

(* What is left of the rows, and what is new. *)
LEMMA RowsLeft ==
  ASSUME SkillsTypeOK, NEW gone, NEW D \in SUBSET Nat, NEW new \in [D -> Row], RowsBecome(gone, new)
  PROVE  /\ selected' \subseteq selected /\ \A s \in selected' : s[2] \notin gone
         /\ \A i \in Ids \cap gone : skill'[i] = None
         /\ \A i \in Ids \ (gone \cup D) : skill'[i] = skill[i] /\ alias'[i] = alias[i]
  BY DEF RowsBecome

LEMMA RowsNew ==
  ASSUME NEW gone, NEW D \in SUBSET Nat, NEW new \in [D -> Row], RowsBecome(gone, new)
  PROVE  \A i \in (Ids \cap D) \ gone : skill'[i] = new[i] /\ alias'[i] = {new[i].name}
  BY DEF RowsBecome

LEMMA RowsTypes ==
  ASSUME SkillsTypeOK, NEW gone, NEW D \in SUBSET Nat, NEW new \in [D -> Row], RowsBecome(gone, new)
  PROVE  skill' \in [Ids -> Row \cup {None}] /\ alias' \in [Ids -> SUBSET Names]
<1>1. \A i \in D : new[i] \in Row /\ new[i].name \in Names
  BY DEF Row
<1>2. skill' \in [Ids -> Row \cup {None}]
  BY <1>1 DEF RowsBecome, SkillsTypeOK
<1>3. alias' \in [Ids -> SUBSET Names]
  <2>1. DOMAIN new = D
    OBVIOUS
  <2>2. alias' = [i \in Ids |-> IF i \in gone THEN {} ELSE IF i \in D THEN {new[i].name} ELSE alias[i]]
    BY <2>1 DEF RowsBecome
  <2>3. \A i \in Ids : alias[i] \in SUBSET Names
    BY DEF SkillsTypeOK
  <2>4. ASSUME NEW i \in Ids
        PROVE  (IF i \in gone THEN {} ELSE IF i \in D THEN {new[i].name} ELSE alias[i]) \in SUBSET Names
    BY <1>1, <2>3
  <2> QED
    BY <2>2, <2>4
<1> QED
  BY <1>2, <1>3

(* Selections of skills that are still there are those they were.          *)
LEMMA SelectionsStay ==
  ASSUME SkillsInv, SkillsFrame, SkillsTypeOK', selected' \subseteq selected,
         \A s \in selected' : s[2] \in Existing'
  PROVE  SelectedInv'
<1> SUFFICES ASSUME NEW s \in selected'
             PROVE  s[2] \in Existing' /\ HasBelonged(s[1], s[2])'
  BY DEF SelectedInv
<1>1. s[2] \in Existing' /\ s[2] \in Existing /\ HasBelonged(s[1], s[2])
  BY DEF SkillsInv, SelectedInv
<1>2. s[2] <= lastId
  BY <1>1 DEF SkillsInv
<1>3. skill'[s[2]] = skill[s[2]] /\ belonged \subseteq belonged'
  BY <1>1, <1>2 DEF SkillsFrame
<1> QED
  BY <1>1, <1>3 DEF HasBelonged

LEMMA WriteKeeps ==
  ASSUME SkillsInv, NEW e \in Editors, WriteSkills(e)
  PROVE  SkillsInv'
<1>1. PICK o, new, gone, last, D : /\ o = edit[e].org /\ new = edit[e].names /\ gone = edit[e].seen
                                   /\ last = lastId + Cardinality(new) /\ D = (lastId + 1)..last
  OBVIOUS
<1>2. PICK nameOf \in [D -> new] :
        /\ IsInjective(nameOf)
        /\ RowsBecome(gone, [i \in DOMAIN nameOf |-> [org |-> o, name |-> nameOf[i]]])
  BY <1>1 DEF WriteSkills
<1>3. /\ o \in orgs /\ last \in Ids /\ lastId' = last /\ UNCHANGED <<orgs, belongs, belonged>>
      /\ \A i \in ListOrganizationSkills(o) : skill[i].name \notin new
      /\ edit' = [edit EXCEPT ![e] = Rest]
  BY <1>1 DEF WriteSkills
<1>4. new \subseteq Names /\ orgs \subseteq Orgs
  BY <1>1, EditFields DEF SkillsInv, SkillsTypeOK
<1>5. IsFiniteSet(new)
  BY <1>4, FS_Subset, SkillsConstants
<1>6. Cardinality(new) \in Nat
  BY <1>5, FS_CardinalityType
<1>7. lastId \in Nat /\ last \in Nat /\ lastId <= last /\ D \in SUBSET Nat /\ Ids \subseteq Nat
  BY <1>1, <1>6, SkillsConstants DEF SkillsInv, SkillsTypeOK
<1>8. \A i \in D : i > lastId /\ i <= last
  BY <1>1, <1>7
<1>9. PICK rows : rows = [i \in D |-> [org |-> o, name |-> nameOf[i]]]
  OBVIOUS
<1>10. rows \in [D -> Row] /\ \A i \in D : rows[i].org = o /\ rows[i].name = nameOf[i]
  BY <1>3, <1>4, <1>9 DEF Row
<1>11. RowsBecome(gone, rows)
  BY <1>2, <1>9
<1>12. SkillsTypeOK
  BY DEF SkillsInv
<1>24. D \in SUBSET Nat /\ rows \in [D -> Row]
  BY <1>7, <1>10
<1>25. /\ selected' \subseteq selected /\ \A s \in selected' : s[2] \notin gone
       /\ \A i \in Ids \cap gone : skill'[i] = None
       /\ \A i \in Ids \ (gone \cup D) : skill'[i] = skill[i] /\ alias'[i] = alias[i]
  BY <1>11, <1>12, <1>24, RowsLeft
<1>26. skill' \in [Ids -> Row \cup {None}] /\ alias' \in [Ids -> SUBSET Names]
  BY <1>11, <1>12, <1>24, RowsTypes
<1>13. \A i \in (Ids \cap D) \ gone : skill'[i] = rows[i] /\ alias'[i] = {rows[i].name}
  BY <1>11, <1>24, RowsNew
<1>14. \A i \in Existing : i \in Ids /\ i <= lastId /\ i \notin D
  BY <1>7, <1>8 DEF SkillsInv, Existing
<1>15. \A i \in Existing' :
         \/ i \in D /\ skill'[i] = rows[i] /\ alias'[i] = {rows[i].name}
         \/ i \in Existing /\ skill'[i] = skill[i] /\ alias'[i] = alias[i]
  BY <1>13, <1>25, <1>26, <1>25 DEF Existing
<1>16. SkillsFrame
  <2>1. belonged \subseteq belonged' /\ lastId <= lastId'
    BY <1>3, <1>7
  <2>2. ASSUME NEW i \in Existing', i <= lastId
        PROVE  i \in Existing /\ skill'[i] = skill[i]
    <3>1. i \in Nat
      BY <1>7 DEF Existing
    <3>2. i \notin D
      BY <1>7, <1>8, <2>2, <3>1
    <3> QED
      BY <1>15, <3>2
  <2> QED
    BY <2>1, <2>2 DEF SkillsFrame
<1>17. ASSUME NEW i \in Existing', NEW j \in Existing', skill'[i] = skill'[j]
       PROVE  i = j
  <2>1. CASE i \in D /\ j \in D
    <3>1. nameOf[i] = nameOf[j]
      BY <1>10, <1>14, <1>15, <1>17, <2>1
    <3> QED
      BY <1>2, <2>1, <3>1 DEF IsInjective
  <2>2. CASE i \in Existing /\ j \in Existing
    BY <1>12, <1>14, <1>15, <1>17, <2>2 DEF SkillsTypeOK
  <2>3. ASSUME NEW k \in Existing, NEW l \in D PROVE skill[k] # rows[l]
    <3>1. CASE skill[k].org = o
      BY <1>2, <1>3, <1>10, <3>1 DEF ListOrganizationSkills
    <3>2. CASE skill[k].org # o
      BY <1>10, <3>2
    <3> QED
      BY <3>1, <3>2
  <2> QED
    BY <1>14, <1>15, <1>17, <2>1, <2>2, <2>3
<1>18. SkillsTypeOK'
  <2>1. edit' \in [Editors -> Edit]
    BY <1>3, <1>12, RestIsEdit DEF SkillsTypeOK
  <2>2. /\ orgs' \subseteq Orgs /\ belongs' \subseteq belonged' /\ belonged' \subseteq People \X Orgs
        /\ lastId' \in Ids /\ selected' \subseteq People \X Ids
    BY <1>3, <1>12, <1>13, <1>25, <1>26 DEF SkillsTypeOK
  <2>3. \A i \in Existing' : skill'[i].org \in orgs' \cup {Default} /\ skill'[i].name \in alias'[i]
    BY <1>3, <1>10, <1>12, <1>15 DEF SkillsTypeOK
  <2> QED
    BY <1>13, <1>25, <1>26, <1>17, <2>1, <2>2, <2>3 DEF SkillsTypeOK
<1>19. \A s \in selected' : s[2] \in Existing'
  <2> TAKE s \in selected'
  <2>1. s[2] \in Existing /\ s[2] \notin gone
    BY <1>13, <1>25, <1>26, <1>25 DEF SkillsInv, SelectedInv
  <2>2. s[2] \in Ids \ (gone \cup D)
    BY <1>14, <2>1
  <2> QED
    BY <1>13, <1>25, <1>26, <2>1, <2>2 DEF Existing
<1>20. SelectedInv'
  BY <1>13, <1>25, <1>26, <1>16, <1>18, <1>19, SelectionsStay
<1>21. \A i \in Existing' : i <= lastId'
  <2> TAKE i \in Existing'
  <2>1. CASE i \in D
    BY <1>3, <1>8, <2>1
  <2>2. CASE i \in Existing
    <3>1. i \in Nat /\ i <= lastId /\ lastId' = last
      BY <1>3, <1>7, <1>14, <2>2
    <3> QED
      BY <1>7, <3>1
  <2> QED
    BY <1>15, <2>1, <2>2
<1>22. JobInv(Rest)'
  BY RestIsEdit DEF JobInv
<1>23. \A f \in Editors : JobInv(edit[f])'
  BY <1>3, <1>16, <1>18, <1>22, RestIsEdit, JobMoves
<1> QED
  BY <1>18, <1>20, <1>21, <1>23 DEF SkillsInv

LEMMA AliasesKeep ==
  ASSUME SkillsInv, NEW i \in Ids, NEW aliases \in SUBSET Names, ReplaceSkillAliases(i, aliases)
  PROVE  SkillsInv'
<1>1. /\ UNCHANGED <<orgs, belongs, belonged, skill, lastId, selected, edit>> /\ i \in Existing
      /\ alias' = [alias EXCEPT ![i] = aliases \cup {skill[i].name}]
  BY DEF ReplaceSkillAliases
<1>2. skill[i].name \in Names
  BY <1>1 DEF SkillsInv, SkillsTypeOK
<1>3. alias' \in [Ids -> SUBSET Names] /\ \A j \in Existing : skill[j].name \in alias'[j]
  BY <1>1, <1>2 DEF SkillsInv, SkillsTypeOK, Existing
<1>4. SkillsTypeOK'
  BY <1>1, <1>3 DEF SkillsInv, SkillsTypeOK, Existing
<1>5. SelectedInv' /\ \A j \in Existing' : j <= lastId'
  BY <1>1 DEF SkillsInv, SelectedInv, Existing, HasBelonged
<1>6. \A e \in Editors : JobInv(edit[e])'
  BY <1>1 DEF SkillsInv, JobInv, Existing, HasBelonged
<1> QED
  BY <1>4, <1>5, <1>6 DEF SkillsInv

(* A membership that begins is remembered, and one that ends is as well.   *)
LEMMA MembershipsKeep ==
  ASSUME SkillsInv, NEW m \in People, NEW o \in Orgs, Join(m, o) \/ Leave(m, o)
  PROVE  SkillsInv'
<1>1. /\ UNCHANGED <<orgs, skill, lastId, alias, selected, edit>>
      /\ belonged \subseteq belonged' /\ belonged' \subseteq People \X Orgs
      /\ belongs' \subseteq belonged'
  BY DEF Join, Leave, SkillsInv, SkillsTypeOK
<1>2. SkillsTypeOK'
  BY <1>1 DEF SkillsInv, SkillsTypeOK, Existing
<1>3. SelectedInv' /\ \A j \in Existing' : j <= lastId'
  BY <1>1 DEF SkillsInv, SelectedInv, Existing, HasBelonged
<1>4. \A e \in Editors : JobInv(edit[e])'
  BY <1>1 DEF SkillsInv, JobInv, Existing, HasBelonged
<1> QED
  BY <1>2, <1>3, <1>4 DEF SkillsInv

LEMMA OrganizationGoes ==
  ASSUME SkillsInv, NEW o \in Orgs, DeleteOrganization(o)
  PROVE  SkillsInv'
<1>1. PICK gone : gone = ListOrganizationSkills(o)
  OBVIOUS
<1>2. /\ orgs' = orgs \ {o} /\ belongs' = belongs \ (People \X {o})
      /\ RowsBecome(gone, <<>>) /\ UNCHANGED <<belonged, lastId, edit>>
  BY <1>1 DEF DeleteOrganization
<1>3. {} \in SUBSET Nat /\ <<>> \in [{} -> Row]
  OBVIOUS
<1>4. SkillsTypeOK /\ lastId \in Nat
  BY SkillsConstants DEF SkillsInv, SkillsTypeOK
<1>15. PICK D, new : D = {} /\ new = <<>>
  OBVIOUS
<1>16. D \in SUBSET Nat /\ new \in [D -> Row] /\ RowsBecome(gone, new)
  BY <1>2, <1>3, <1>15
<1>17. /\ selected' \subseteq selected /\ \A s \in selected' : s[2] \notin gone
       /\ \A i \in Ids \cap gone : skill'[i] = None
       /\ \A i \in Ids \ (gone \cup D) : skill'[i] = skill[i] /\ alias'[i] = alias[i]
  BY <1>4, <1>16, RowsLeft
<1>18. skill' \in [Ids -> Row \cup {None}] /\ alias' \in [Ids -> SUBSET Names]
  BY <1>4, <1>16, RowsTypes
<1>5. /\ skill' \in [Ids -> Row \cup {None}] /\ alias' \in [Ids -> SUBSET Names]
      /\ selected' \subseteq selected /\ \A s \in selected' : s[2] \notin gone
      /\ \A i \in Ids \cap gone : skill'[i] = None
      /\ \A i \in Ids \ gone : skill'[i] = skill[i] /\ alias'[i] = alias[i]
  BY <1>15, <1>17, <1>18
<1>6. \A i \in Existing' :
        i \in Existing /\ i \notin gone /\ skill'[i] = skill[i] /\ alias'[i] = alias[i]
  BY <1>5 DEF Existing
<1>7. SkillsFrame
  BY <1>2, <1>4, <1>6 DEF SkillsFrame
<1>8. SkillsTypeOK'
  <2>1. \A i \in Existing' : skill'[i].org \in orgs' \cup {Default} /\ skill'[i].name \in alias'[i]
    BY <1>1, <1>2, <1>4, <1>6 DEF SkillsTypeOK, ListOrganizationSkills
  <2>2. \A i, j \in Existing' : skill'[i] = skill'[j] => i = j
    BY <1>4, <1>6 DEF SkillsTypeOK
  <2> QED
    BY <1>2, <1>4, <1>5, <2>1, <2>2 DEF SkillsTypeOK
<1>9. \A s \in selected' : s[2] \in Existing'
  BY <1>5 DEF SkillsInv, SelectedInv, Existing
<1>10. SelectedInv'
  BY <1>5, <1>7, <1>8, <1>9, SelectionsStay
<1>11. \A i \in Existing' : i <= lastId'
  BY <1>2, <1>6 DEF SkillsInv
<1>12. \A e \in Editors : edit[e] \in Edit /\ JobInv(edit[e])
  BY EditFields DEF SkillsInv
<1>13. \A j \in Edit : JobInv(j) => JobInv(j)'
  BY <1>7, <1>8, JobStays
<1>14. \A e \in Editors : JobInv(edit[e])'
  BY <1>2, <1>12, <1>13 DEF JobInv
<1> QED
  BY <1>8, <1>10, <1>11, <1>14 DEF SkillsInv

LEMMA InitSkillsInv == SkillsInit => SkillsInv
<1> SUFFICES ASSUME SkillsInit PROVE SkillsInv
  OBVIOUS
<1> USE SkillsConstants
<1>1. PICK D : D = DOMAIN Preset
  OBVIOUS
<1>2. D \subseteq Ids /\ D \subseteq Nat /\ IsFiniteSet(D) /\ D # {}
  BY <1>1
<1>3. Max(D) \in D /\ \A i \in D : Max(D) >= i
  BY <1>2, MaxExists
<1>4. lastId \in D /\ \A i \in D : i <= lastId
  BY <1>1, <1>2, <1>3 DEF SkillsInit
<1>5. \A i \in D : [org |-> Default, name |-> Preset[i]] \in Row
  BY <1>1 DEF Row
<1>6. skill = [i \in Ids |-> IF i \in D THEN [org |-> Default, name |-> Preset[i]] ELSE None]
  BY <1>1 DEF SkillsInit
<1>7. skill \in [Ids -> Row \cup {None}]
  BY <1>5, <1>6
<1>8. alias \in [Ids -> SUBSET Names]
  BY <1>1 DEF SkillsInit
<1>9. \A i \in Existing : /\ i \in D /\ skill[i].org = Default /\ skill[i].name = Preset[i]
                          /\ alias[i] = {Preset[i]}
  BY <1>1, <1>6 DEF Existing, SkillsInit
<1>10. \A i, j \in Existing : skill[i] = skill[j] => i = j
  BY <1>1, <1>9 DEF IsInjective
<1>11. SkillsTypeOK
  <2>1. edit \in [Editors -> Edit]
    BY RestIsEdit DEF SkillsInit
  <2>2. /\ orgs \subseteq Orgs /\ belongs \subseteq belonged /\ belonged \subseteq People \X Orgs
        /\ lastId \in Ids /\ selected \subseteq People \X Ids
    BY <1>2, <1>4 DEF SkillsInit
  <2> QED
    BY <1>7, <1>8, <1>9, <1>10, <2>1, <2>2 DEF SkillsTypeOK
<1>12. SelectedInv /\ \A i \in Existing : i <= lastId
  BY <1>4, <1>9 DEF SkillsInit, SelectedInv
<1>13. \A e \in Editors : JobInv(edit[e])
  BY RestIsEdit DEF SkillsInit, JobInv
<1> QED
  BY <1>11, <1>12, <1>13 DEF SkillsInv

LEMMA NextSkillsInv == SkillsInv /\ [SkillsNext]_svars => SkillsInv'
<1> SUFFICES ASSUME SkillsInv, [SkillsNext]_svars PROVE SkillsInv'
  OBVIOUS
<1>1. ASSUME NEW e \in Editors,
             DeleteSelections(e) \/ ReplaceSelections(e) \/ WriteSkills(e) \/ RollBack(e)
      PROVE  SkillsInv'
  BY <1>1, DeleteKeeps, ReplaceKeeps, WriteKeeps, RollBackKeeps
<1>2. ASSUME NEW e \in Editors, NEW m \in People, NEW chosen \in SUBSET Ids,
             CheckSelection(e, m, chosen)
      PROVE  SkillsInv'
  BY <1>2, CheckKeeps
<1>3. ASSUME NEW e \in Editors, NEW o \in Orgs, NEW names \in SUBSET Names, LoadExisting(e, o, names)
      PROVE  SkillsInv'
  BY <1>3, LoadKeeps
<1>4. ASSUME NEW i \in Realiased, NEW aliases \in SUBSET Names, ReplaceSkillAliases(i, aliases)
      PROVE  SkillsInv'
  <2>1. i \in Ids
    BY <1>4 DEF ReplaceSkillAliases, Existing
  <2> QED
    BY <1>4, <2>1, AliasesKeep
<1>5. ASSUME NEW m \in People, NEW o \in Orgs, Join(m, o) \/ Leave(m, o)
      PROVE  SkillsInv'
  BY <1>5, MembershipsKeep
<1>6. ASSUME NEW o \in Orgs, DeleteOrganization(o)
      PROVE  SkillsInv'
  BY <1>6, OrganizationGoes
<1>7. CASE UNCHANGED svars
  <2>1. UNCHANGED <<orgs, belongs, belonged, skill, lastId, alias, selected, edit>>
    BY <1>7 DEF svars
  <2>2. SkillsTypeOK'
    BY <2>1 DEF SkillsInv, SkillsTypeOK, Existing
  <2>3. SelectedInv' /\ \A i \in Existing' : i <= lastId'
    BY <2>1 DEF SkillsInv, SelectedInv, Existing, HasBelonged
  <2>4. \A e \in Editors : JobInv(edit[e])'
    BY <2>1 DEF SkillsInv, JobInv, Existing, HasBelonged
  <2> QED
    BY <2>2, <2>3, <2>4 DEF SkillsInv
<1> QED
  BY <1>1, <1>2, <1>3, <1>4, <1>5, <1>6, <1>7 DEF SkillsNext

LEMMA SelectionsHold == SkillsInv => SelectionsWereAllowed
<1> SUFFICES ASSUME SkillsInv, NEW s \in selected
             PROVE  /\ s[2] \in Existing
                    /\ s[2] \in CheckedSkills(s[1]) \/ <<s[1], skill[s[2]].org>> \in belonged \ belongs
  BY DEF SelectionsWereAllowed
<1>1. s \in People \X Ids /\ s[2] \in Existing /\ HasBelonged(s[1], s[2])
  BY DEF SkillsInv, SkillsTypeOK, SelectedInv
<1>2. s[2] \in ListSelectedSkillIDsForMember(s[1])
  BY <1>1 DEF ListSelectedSkillIDsForMember
<1>3. s[2] \in ListAvailableSkillsForMember(s[1]) \/ <<s[1], skill[s[2]].org>> \in belonged \ belongs
  BY <1>1 DEF ListAvailableSkillsForMember, HasBelonged
<1> QED
  BY <1>1, <1>2, <1>3 DEF CheckedSkills

(***************************************************************************)
(* MATCHING.  A list sorted by scores has each place as often before it as *)
(* there are places ahead of it, so it is determined by the scores, and a  *)
(* selection of the highest ones heads it.                                 *)
(***************************************************************************)

(* The values of a function with a finite domain are finitely many.        *)
LEMMA FiniteImage ==
  ASSUME NEW D, IsFiniteSet(D), NEW f, NEW T, T = {f[x] : x \in D}
  PROVE  IsFiniteSet(T)
<1>1. PICK g : g = [x \in D |-> f[x]]
  OBVIOUS
<1>2. g \in Surjection(D, T)
  BY <1>1 DEF Surjection
<1> QED
  BY <1>2, FS_Surjection

LEMMA WordsFinite ==
  ASSUME NEW W, NEW t \in Seq(W)
  PROVE  IsFiniteSet(ToSet(t)) /\ ToSet(t) \subseteq W
<1>1. IsFiniteSet(1..Len(t))
  BY FS_Interval
<1>2. ToSet(t) = {t[i] : i \in 1..Len(t)}
  BY DEF ToSet
<1>3. IsFiniteSet(ToSet(t))
  BY <1>1, <1>2, FiniteImage
<1> QED
  BY <1>2, <1>3

LEMMA TokensFinite ==
  ASSUME NEW t \in Seq(DOMAIN Stem)
  PROVE  IsFiniteSet(tokenizeMatchText(t))
<1>1. PICK D : D = ToSet(t) \ StopWords
  OBVIOUS
<1>2. IsFiniteSet(D)
  BY <1>1, WordsFinite, FS_Difference
<1>3. tokenizeMatchText(t) = {Stem[w] : w \in D}
  BY <1>1 DEF tokenizeMatchText
<1> QED
  BY <1>2, <1>3, FiniteImage

(* The words of a phrase that a text contains are words of the text.       *)
LEMMA PhraseWords ==
  ASSUME NEW W, NEW body \in Seq(W), NEW phrase \in Seq(W), containsWholePhrase(body, phrase)
  PROVE  tokenizeMatchText(phrase) \subseteq tokenizeMatchText(body)
<1>1. PICK i \in 0..(Len(body) - Len(phrase)) : SubSeq(body, i + 1, i + Len(phrase)) = phrase
  BY DEF containsWholePhrase
<1>2. i \in Int /\ i >= 0 /\ i + Len(phrase) <= Len(body)
  BY <1>1
<1>3. \A k \in 1..Len(phrase) : SubSeq(body, i + 1, i + Len(phrase))[k] = body[i + k]
  BY <1>2
<1>4. \A k \in 1..Len(phrase) : phrase[k] = body[i + k] /\ i + k \in 1..Len(body)
  BY <1>1, <1>2, <1>3
<1>5. ToSet(phrase) \subseteq ToSet(body)
  BY <1>4 DEF ToSet
<1> QED
  BY <1>5 DEF tokenizeMatchText

Text == [title : Seq(DOMAIN Stem), details : Seq(DOMAIN Stem)]
SharesStem(name, hop) ==
  tokenizeMatchText(name) \cap (tokenizeMatchText(hop.title) \cup tokenizeMatchText(hop.details)) # {}

(* A name scores on a text with a word's stem in common, and on no other.  *)
LEMMA ScoreShares ==
  ASSUME NEW name \in Names, NEW hop \in Text
  PROVE  /\ scoreAliasMatch(name, hop) \in Nat
         /\ scoreAliasMatch(name, hop) > 0 <=> SharesStem(name, hop)
<1>1. name \in Seq(DOMAIN Stem) /\ hop.title \in Seq(DOMAIN Stem) /\ hop.details \in Seq(DOMAIN Stem)
  BY SkillsConstants DEF Text
<1>2. PICK N, T, D : /\ N = tokenizeMatchText(name) /\ T = tokenizeMatchText(hop.title)
                     /\ D = tokenizeMatchText(hop.details)
  OBVIOUS
<1>3. IsFiniteSet(N)
  BY <1>1, <1>2, TokensFinite
<1>4. IsFiniteSet(N \cap T) /\ IsFiniteSet(N \cap D)
  BY <1>3, FS_Intersection
<1>5. PICK n, t, d : n = Cardinality(N) /\ t = Cardinality(N \cap T) /\ d = Cardinality(N \cap D)
  OBVIOUS
<1>6. n \in Nat /\ t \in Nat /\ d \in Nat
  BY <1>3, <1>4, <1>5, FS_CardinalityType
<1>7. (t = 0 <=> N \cap T = {}) /\ (d = 0 <=> N \cap D = {})
  BY <1>4, <1>5, FS_EmptySet
<1>8. PICK phrase : phrase = IF containsWholePhrase(hop.title, name) THEN 16
                             ELSE IF containsWholePhrase(hop.details, name) THEN 10 ELSE 0
  OBVIOUS
<1>9. phrase \in Nat /\ (phrase > 0 => N \subseteq T \/ N \subseteq D)
  BY <1>1, <1>2, <1>8, PhraseWords
<1>10. scoreAliasMatch(name, hop) =
         IF N = {} THEN 0 ELSE phrase + 6 * t + 3 * d + (IF n > 1 /\ t + d >= n THEN 4 ELSE 0)
  BY <1>2, <1>5, <1>8 DEF scoreAliasMatch
<1>11. SharesStem(name, hop) <=> N \cap T # {} \/ N \cap D # {}
  BY <1>2 DEF SharesStem
<1>12. CASE N = {}
  BY <1>10, <1>11, <1>12
<1>13. CASE N # {}
  <2>1. PICK plus : plus = (IF n > 1 /\ t + d >= n THEN 4 ELSE 0)
    OBVIOUS
  <2>2. plus \in Nat /\ (plus > 0 => t > 0 \/ d > 0)
    BY <1>6, <2>1
  <2>3. scoreAliasMatch(name, hop) = phrase + 6 * t + 3 * d + plus
    BY <1>10, <1>13, <2>1
  <2>4. phrase > 0 => t # 0 \/ d # 0
    BY <1>7, <1>9, <1>13
  <2>5. scoreAliasMatch(name, hop) \in Nat /\ (scoreAliasMatch(name, hop) > 0 <=> t # 0 \/ d # 0)
    BY <1>6, <1>9, <2>2, <2>3, <2>4
  <2> QED
    BY <1>7, <1>11, <2>5
<1> QED
  BY <1>12, <1>13

(* The best of the scores is one of them, or none scores.                  *)
LEMMA BestShares ==
  ASSUME SkillsInv, NEW hop \in Text, NEW C \in SUBSET Existing
  PROVE  /\ BestScore(hop, C) \in Nat
         /\ BestScore(hop, C) > 0 <=> \E i \in C : \E a \in Aliases(i) : SharesStem(a, hop)
<1>1. \A i \in C : Aliases(i) \subseteq Names
  BY DEF SkillsInv, SkillsTypeOK, Aliases, Existing
<1>2. PICK V : V = {0} \cup UNION {{scoreAliasMatch(a, hop) : a \in Aliases(i)} : i \in C}
  OBVIOUS
<1>3. PICK f : f = [a \in Names |-> scoreAliasMatch(a, hop)]
  OBVIOUS
<1>4. PICK R : R = {f[a] : a \in Names}
  OBVIOUS
<1>5. IsFiniteSet(R)
  BY <1>4, FiniteImage, SkillsConstants
<1>6. IsFiniteSet(R \cup {0})
  BY <1>5, FS_AddElement
<1>7. V \subseteq R \cup {0}
  BY <1>1, <1>2, <1>3, <1>4
<1>8. IsFiniteSet(V) /\ V # {}
  BY <1>2, <1>6, <1>7, FS_Subset
<1>9. \A a \in Names : scoreAliasMatch(a, hop) \in Nat /\ (scoreAliasMatch(a, hop) > 0 <=> SharesStem(a, hop))
  BY ScoreShares
<1>10. V \subseteq Nat
  BY <1>1, <1>2, <1>9
<1>11. PICK b : b = BestScore(hop, C)
  OBVIOUS
<1>12. b \in V /\ \A y \in V : b >= y
  BY <1>2, <1>8, <1>10, <1>11, MaxExists DEF BestScore
<1>13. b \in Nat
  BY <1>10, <1>12
<1>14. ASSUME b > 0
       PROVE  \E i \in C : \E a \in Aliases(i) : SharesStem(a, hop)
  <2>1. b # 0
    BY <1>13, <1>14
  <2>2. PICK i \in C : \E a \in Aliases(i) : b = scoreAliasMatch(a, hop)
    BY <1>2, <1>12, <2>1
  <2> QED
    BY <1>1, <1>9, <1>14, <2>2
<1>15. ASSUME NEW i \in C, NEW a \in Aliases(i), SharesStem(a, hop)
       PROVE  b > 0
  <2>1. scoreAliasMatch(a, hop) \in V
    BY <1>2
  <2>2. scoreAliasMatch(a, hop) > 0 /\ scoreAliasMatch(a, hop) \in Nat
    BY <1>1, <1>9, <1>15
  <2>3. b >= scoreAliasMatch(a, hop)
    BY <1>12, <2>1
  <2> QED
    BY <1>13, <2>2, <2>3
<1> QED
  BY <1>11, <1>13, <1>14, <1>15

Ahead(score, p, q) == score[p] > score[q] \/ (score[p] = score[q] /\ p < q)
Sorted(S, score, f) ==
  /\ f \in Bijection(1..Cardinality(S), S)
  /\ \A i, j \in 1..Cardinality(S) : i < j => Ahead(score, f[i], f[j])

LEMMA AheadIsAnOrder ==
  ASSUME NEW score, NEW S, \A p \in S : p \in Nat /\ score[p] \in Nat
  PROVE  /\ \A p \in S : ~Ahead(score, p, p)
         /\ \A p, q \in S : p # q => Ahead(score, p, q) \/ Ahead(score, q, p)
         /\ \A p, q, r \in S : Ahead(score, p, q) /\ Ahead(score, q, r) => Ahead(score, p, r)
  BY DEF Ahead

(* Each place after those ahead of it: that is a sorted list.              *)
LEMMA SortedExists ==
  ASSUME NEW score, NEW S, IsFiniteSet(S), \A p \in S : p \in Nat /\ score[p] \in Nat
  PROVE  \E f : Sorted(S, score, f)
<1>1. PICK n : n = Cardinality(S)
  OBVIOUS
<1>2. n \in Nat
  BY <1>1, FS_CardinalityType
<1>3. PICK rank : rank = [p \in S |-> Cardinality({q \in S : Ahead(score, q, p)}) + 1]
  OBVIOUS
<1>4. /\ \A p \in S : ~Ahead(score, p, p)
      /\ \A p, q \in S : p # q => Ahead(score, p, q) \/ Ahead(score, q, p)
      /\ \A p, q, r \in S : Ahead(score, p, q) /\ Ahead(score, q, r) => Ahead(score, p, r)
  BY AheadIsAnOrder
<1>5. ASSUME NEW p \in S
      PROVE  /\ IsFiniteSet({q \in S : Ahead(score, q, p)})
             /\ rank[p] \in 1..n /\ rank[p] = Cardinality({q \in S : Ahead(score, q, p)}) + 1
  <2>1. PICK A : A = {q \in S : Ahead(score, q, p)}
    OBVIOUS
  <2>2. A \in SUBSET (S \ {p}) /\ A \in SUBSET S
    BY <1>4, <2>1
  <2>3. IsFiniteSet(S \ {p}) /\ Cardinality(S \ {p}) = n - 1
    BY <1>1, FS_RemoveElement
  <2>4. IsFiniteSet(A) /\ Cardinality(A) <= n - 1
    BY <2>2, <2>3, FS_Subset
  <2>5. Cardinality(A) \in Nat
    BY <2>4, FS_CardinalityType
  <2>6. rank[p] = Cardinality(A) + 1
    BY <1>3, <2>1
  <2> QED
    BY <1>2, <2>1, <2>4, <2>5, <2>6
<1>6. ASSUME NEW p \in S, NEW q \in S, Ahead(score, p, q)
      PROVE  rank[p] < rank[q]
  <2>1. PICK A, B : A = {r \in S : Ahead(score, r, p)} /\ B = {r \in S : Ahead(score, r, q)}
    OBVIOUS
  <2>2. IsFiniteSet(A) /\ IsFiniteSet(B) /\ rank[p] = Cardinality(A) + 1 /\ rank[q] = Cardinality(B) + 1
    BY <1>5, <2>1
  <2>3. p \notin A /\ A \cup {p} \in SUBSET B
    BY <1>4, <1>6, <2>1
  <2>4. Cardinality(A \cup {p}) = Cardinality(A) + 1
    BY <2>2, <2>3, FS_AddElement
  <2>5. Cardinality(A \cup {p}) <= Cardinality(B)
    BY <2>2, <2>3, FS_Subset
  <2>6. Cardinality(A) \in Nat /\ Cardinality(B) \in Nat
    BY <2>2, FS_CardinalityType
  <2> QED
    BY <2>2, <2>4, <2>5, <2>6
<1>7. rank \in [S -> 1..n]
  BY <1>3, <1>5
<1>8. ASSUME NEW p \in S, NEW q \in S, rank[p] = rank[q]
      PROVE  p = q
  <2>1. rank[p] \in Nat /\ rank[q] \in Nat
    BY <1>2, <1>7
  <2>2. ~Ahead(score, p, q)
    BY <1>6, <1>8, <2>1
  <2>3. ~Ahead(score, q, p)
    BY <1>6, <1>8, <2>1
  <2> QED
    BY <1>4, <2>2, <2>3
<1>9. rank \in Injection(S, 1..n)
  BY <1>7, <1>8, Fun_IsInj
<1>10. IsFiniteSet(1..n) /\ Cardinality(1..n) = n
  BY <1>2, FS_Interval
<1>11. rank \in Surjection(S, 1..n)
  BY <1>1, <1>9, <1>10, FS_Injection
<1>12. rank \in Bijection(S, 1..n)
  BY <1>9, <1>11 DEF Bijection
<1>13. PICK f : f = Inverse(rank, S, 1..n)
  OBVIOUS
<1>14. f \in Bijection(1..n, S) /\ \A p \in S : f[rank[p]] = p
  BY <1>12, <1>13, Fun_BijInverse
<1>15. ASSUME NEW i \in 1..n, NEW j \in 1..n, i < j
       PROVE  Ahead(score, f[i], f[j])
  <2>1. PICK p \in S, q \in S : rank[p] = i /\ rank[q] = j
    BY <1>11 DEF Surjection
  <2>2. f[i] = p /\ f[j] = q
    BY <1>14, <2>1
  <2>3. p # q
    BY <1>15, <2>1
  <2>4. ~Ahead(score, q, p)
    BY <1>2, <1>6, <1>15, <2>1
  <2> QED
    BY <1>4, <2>2, <2>3, <2>4
<1> QED
  BY <1>1, <1>14, <1>15 DEF Sorted

(* The i-th place of a sorted list has exactly i - 1 others ahead of it.     *)
LEMMA SortedRank ==
  ASSUME NEW score, NEW S, IsFiniteSet(S), \A p \in S : p \in Nat /\ score[p] \in Nat,
         NEW f, Sorted(S, score, f), NEW i \in 1..Cardinality(S)
  PROVE  f[i] \in S /\ Cardinality({q \in S : Ahead(score, q, f[i])}) = i - 1
<1>1. PICK n : n = Cardinality(S)
  OBVIOUS
<1>2. n \in Nat /\ i \in 1..n
  BY <1>1, FS_CardinalityType
<1>14. f \in Bijection(1..n, S)
  BY <1>1 DEF Sorted
<1>3. /\ f \in [1..n -> S] /\ \A t \in S : \E s \in 1..n : f[s] = t
      /\ \A a, b \in 1..n : f[a] = f[b] => a = b
  BY <1>14 DEF Bijection, Injection, Surjection, IsInjective
<1>4. \A j, k \in 1..n : j < k => Ahead(score, f[j], f[k])
  BY <1>1 DEF Sorted
<1>5. /\ \A p \in S : ~Ahead(score, p, p)
      /\ \A p, q, r \in S : Ahead(score, p, q) /\ Ahead(score, q, r) => Ahead(score, p, r)
  BY AheadIsAnOrder
<1>6. PICK A, g : A = {q \in S : Ahead(score, q, f[i])} /\ g = [j \in 1..(i - 1) |-> f[j]]
  OBVIOUS
<1>7. \A j \in 1..(i - 1) : j \in 1..n /\ j < i
  BY <1>2
<1>8. \A j \in 1..(i - 1) : g[j] = f[j] /\ f[j] \in A
  BY <1>2, <1>3, <1>4, <1>6, <1>7
<1>9. ASSUME NEW q \in A
      PROVE  \E j \in 1..(i - 1) : g[j] = q
  <2>1. PICK j \in 1..n : f[j] = q
    BY <1>3, <1>6
  <2>2. Ahead(score, f[j], f[i]) /\ f[j] \in S /\ f[i] \in S
    BY <1>2, <1>3, <1>6, <2>1
  <2>3. j # i
    BY <1>5, <2>2
  <2>4. ~(i < j)
    BY <1>2, <1>4, <1>5, <2>2
  <2>5. j \in 1..(i - 1)
    BY <1>2, <2>3, <2>4
  <2> QED
    BY <1>8, <2>1, <2>5
<1>10. g \in [1..(i - 1) -> A] /\ \A a, b \in 1..(i - 1) : g[a] = g[b] => a = b
  BY <1>3, <1>6, <1>7, <1>8
<1>11. g \in Bijection(1..(i - 1), A)
  BY <1>9, <1>10, Fun_IsBij
<1>12. i - 1 \in Nat /\ ExistsBijection(1..(i - 1), A)
  BY <1>2, <1>11 DEF ExistsBijection
<1>13. Cardinality(A) = i - 1
  BY <1>12, FS_CountingElements
<1> QED
  BY <1>2, <1>3, <1>6, <1>13

(* Those that score higher than the others head the list of all, in the    *)
(* order they have among themselves.                                       *)
LEMMA HighestHead ==
  ASSUME NEW score, NEW S, IsFiniteSet(S), \A p \in S : p \in Nat /\ score[p] \in Nat,
         NEW P \in SUBSET S, \A p \in P, q \in S \ P : score[p] > score[q],
         NEW f, Sorted(S, score, f), NEW g, Sorted(P, score, g), NEW i \in 1..Cardinality(P)
  PROVE  i \in 1..Cardinality(S) /\ g[i] = f[i]
<1>1. IsFiniteSet(P) /\ Cardinality(P) <= Cardinality(S)
  BY FS_Subset
<1>2. Cardinality(P) \in Nat /\ Cardinality(S) \in Nat
  BY <1>1, FS_CardinalityType
<1>3. i \in 1..Cardinality(S)
  BY <1>1, <1>2
<1>4. \A p \in P : p \in Nat /\ score[p] \in Nat
  OBVIOUS
<1>5. g[i] \in P /\ Cardinality({q \in P : Ahead(score, q, g[i])}) = i - 1
  BY <1>1, <1>4, SortedRank
<1>6. \A q \in S \ P : ~Ahead(score, q, g[i])
  BY <1>4, <1>5 DEF Ahead
<1>7. {q \in S : Ahead(score, q, g[i])} = {q \in P : Ahead(score, q, g[i])}
  BY <1>6
<1>8. PICK k \in 1..Cardinality(S) : f[k] = g[i]
  <2>1. f \in Bijection(1..Cardinality(S), S)
    BY DEF Sorted
  <2>2. \A t \in S : \E k \in 1..Cardinality(S) : f[k] = t
    BY <2>1 DEF Bijection, Surjection
  <2> QED
    BY <1>5, <2>2
<1>9. Cardinality({q \in S : Ahead(score, q, f[k])}) = k - 1
  BY <1>8, SortedRank
<1>10. k - 1 = i - 1
  BY <1>5, <1>7, <1>8, <1>9
<1>11. k = i
  BY <1>2, <1>10
<1> QED
  BY <1>3, <1>8, <1>11

(* The list a page shows is a sorted one.                                  *)
LEMMA BestFirstIsSorted ==
  ASSUME NEW hops, NEW C, NEW S, IsFiniteSet(S), NEW score, \A p \in S : p \in Nat /\ score[p] \in Nat,
         \A p \in S : score[p] = BestScore(hops[p], C)
  PROVE  \E f : Sorted(S, score, f) /\ BestFirst(hops, S, C) = [n \in 1..Cardinality(S) |-> hops[f[n]]]
<1>1. PICK sc : sc = [p \in S |-> BestScore(hops[p], C)]
  OBVIOUS
<1>2. PICK f : Sorted(S, score, f)
  BY SortedExists
<1>3. f \in [1..Cardinality(S) -> S] /\ \A a, b \in 1..Cardinality(S) : f[a] = f[b] => a = b
  BY <1>2, Fun_BijectionProperties DEF Sorted
<1>4. f \in SetToSeqs(S)
  BY <1>3 DEF SetToSeqs
<1>5. \A p, q \in S : (sc[p] > sc[q] \/ (sc[p] = sc[q] /\ p < q)) <=> Ahead(score, p, q)
  BY <1>1 DEF Ahead
<1>6. \A i, j \in DOMAIN f : i < j =>
        sc[f[i]] > sc[f[j]] \/ (sc[f[i]] = sc[f[j]] /\ f[i] < f[j])
  BY <1>2, <1>3, <1>5 DEF Sorted
<1>7. PICK order : order = CHOOSE ps \in SetToSeqs(S) : \A i, j \in DOMAIN ps : i < j =>
        sc[ps[i]] > sc[ps[j]] \/ (sc[ps[i]] = sc[ps[j]] /\ ps[i] < ps[j])
  OBVIOUS
<1>8. /\ order \in SetToSeqs(S)
      /\ \A i, j \in DOMAIN order : i < j =>
           sc[order[i]] > sc[order[j]] \/ (sc[order[i]] = sc[order[j]] /\ order[i] < order[j])
  <2>1. \E ps \in SetToSeqs(S) : \A i, j \in DOMAIN ps : i < j =>
          sc[ps[i]] > sc[ps[j]] \/ (sc[ps[i]] = sc[ps[j]] /\ ps[i] < ps[j])
    BY <1>4, <1>6
  <2> QED
    BY <1>7, <2>1
<1>9. order \in [1..Cardinality(S) -> S] /\ \A i, j \in 1..Cardinality(S) : order[i] = order[j] => i = j
  BY <1>8 DEF SetToSeqs
<1>10. \A i, j \in 1..Cardinality(S) : i < j => Ahead(score, order[i], order[j])
  BY <1>5, <1>8, <1>9
<1>11. order \in Injection(1..Cardinality(S), S)
  BY <1>9, Fun_IsInj
<1>12. IsFiniteSet(1..Cardinality(S)) /\ Cardinality(1..Cardinality(S)) = Cardinality(S)
  BY FS_CardinalityType, FS_Interval
<1>13. order \in Surjection(1..Cardinality(S), S)
  BY <1>11, <1>12, FS_Injection
<1>14. Sorted(S, score, order)
  BY <1>10, <1>11, <1>13 DEF Sorted, Bijection
<1>15. BestFirst(hops, S, C) = [n \in DOMAIN order |-> hops[order[n]]]
  BY <1>1, <1>7 DEF BestFirst
<1> QED
  BY <1>9, <1>14, <1>15

LEMMA PrefixByElements ==
  ASSUME NEW W, NEW s \in Seq(W), NEW t \in Seq(W), Len(s) <= Len(t), \A i \in 1..Len(s) : s[i] = t[i]
  PROVE  IsPrefix(s, t)
<1>1. PICK a, b : a = SubSeq(s, 1, Len(s)) /\ b = SubSeq(t, 1, Len(s))
  OBVIOUS
<1>2. a \in Seq(W) /\ b \in Seq(W) /\ Len(a) = Len(s) /\ Len(b) = Len(s)
  BY <1>1
<1>3. \A i \in 1..Len(s) : a[i] = s[i] /\ b[i] = t[i]
  BY <1>1
<1>4. a = b
  BY <1>2, <1>3
<1> QED
  BY <1>1, <1>4 DEF IsPrefix

LEMMA SuggestionsAreRight == SkillsInv => SuggestionsFit
<1> SUFFICES ASSUME SkillsInv, NEW m \in People, NEW o \in orgs, NEW sorted, NEW suggested,
                    sorted = SortHopsByMemberSkillMatch(o, m, Listed),
                    suggested = FilterAndSortHopsByMemberSkillMatch(o, m, Listed)
             PROVE  /\ ToSet(suggested) =
                         {hop \in ToSet(Listed) : \E i \in Existing :
                            /\ <<m, i>> \in selected /\ skill[i].org \in {Default, o}
                            /\ \E a \in Aliases(i) : SharesStem(a, hop)}
                    /\ suggested # <<>> => IsPrefix(suggested, sorted)
  BY DEF SuggestionsFit, SharesStem
<1>1. PICK C : C = ListSelectedSkillCandidatesForMember(o, m)
  OBVIOUS
<1>2. C = {i \in Existing : <<m, i>> \in selected /\ skill[i].org \in {Default, o}}
  BY <1>1 DEF ListSelectedSkillCandidatesForMember, ListSelectedSkillIDsForMember, SkillsInv,
    SelectedInv, Existing
<1>3. Listed \in Seq(Text)
  BY SkillsConstants DEF Text
<1>4. PICK S : S = DOMAIN Listed
  OBVIOUS
<1>5. /\ S = 1..Len(Listed) /\ Len(Listed) \in Nat /\ S \in SUBSET Nat
      /\ IsFiniteSet(S) /\ Cardinality(S) = Len(Listed) /\ \A p \in S : p \in Nat /\ Listed[p] \in Text
  <2>1. S = 1..Len(Listed) /\ Len(Listed) \in Nat
    BY <1>3, <1>4
  <2>2. IsFiniteSet(S) /\ Cardinality(S) = Len(Listed)
    <3>1. PICK k : k = Len(Listed)
      OBVIOUS
    <3>2. k \in Int /\ 1 \in Int /\ k >= 0
      BY <2>1, <3>1
    <3>3. IsFiniteSet(1..k) /\ Cardinality(1..k) = IF 1 > k THEN 0 ELSE k - 1 + 1
      BY <3>2, FS_Interval
    <3> QED
      BY <2>1, <3>1, <3>2, <3>3
  <2> QED
    BY <1>3, <2>1, <2>2
<1>6. PICK score : score = [p \in S |-> BestScore(Listed[p], C)]
  OBVIOUS
<1>7. C \in SUBSET Existing
  BY <1>2
<1>8. \A p \in S : /\ score[p] = BestScore(Listed[p], C) /\ BestScore(Listed[p], C) \in Nat
                   /\ score[p] > 0 <=> \E i \in C : \E a \in Aliases(i) : SharesStem(a, Listed[p])
  BY <1>5, <1>6, <1>7, BestShares
<1>9. PICK P : P = {p \in S : score[p] > 0}
  OBVIOUS
<1>10. P \in SUBSET S /\ P \in SUBSET Nat /\ IsFiniteSet(P) /\ Cardinality(P) <= Cardinality(S)
  BY <1>5, <1>9, FS_Subset
<1>11. Cardinality(P) \in Nat
  BY <1>10, FS_CardinalityType
<1>12. suggested = BestFirst(Listed, P, C)
  BY <1>1, <1>4, <1>8, <1>9 DEF FilterAndSortHopsByMemberSkillMatch
<1>13. \A p \in P : p \in Nat /\ score[p] \in Nat
  BY <1>5, <1>8, <1>9
<1>21. \A p \in P : score[p] = BestScore(Listed[p], C)
  BY <1>8, <1>9
<1>22. IsFiniteSet(P)
  BY <1>10
<1>14. PICK g : /\ Sorted(P, score, g)
                /\ BestFirst(Listed, P, C) = [n \in 1..Cardinality(P) |-> Listed[g[n]]]
  BY <1>13, <1>21, <1>22, BestFirstIsSorted
<1>15. suggested = [n \in 1..Cardinality(P) |-> Listed[g[n]]]
  BY <1>12, <1>14
<1>16. g \in [1..Cardinality(P) -> P] /\ \A p \in P : \E n \in 1..Cardinality(P) : g[n] = p
  BY <1>14 DEF Sorted, Bijection, Injection, Surjection
<1>17. ToSet(suggested) = {Listed[p] : p \in P}
  BY <1>15, <1>16 DEF ToSet
<1>18. ToSet(Listed) = {Listed[p] : p \in S}
  BY <1>4 DEF ToSet
<1>19. ToSet(suggested) = {hop \in ToSet(Listed) : \E i \in C : \E a \in Aliases(i) : SharesStem(a, hop)}
  BY <1>8, <1>9, <1>17, <1>18
<1>20. ASSUME suggested # <<>>
       PROVE  IsPrefix(suggested, sorted)
  <2>1. P # {}
    <3>1. ASSUME P = {} PROVE FALSE
      <4>1. Cardinality(P) = 0
        BY <3>1, FS_EmptySet
      <4> QED
        BY <1>15, <1>20, <4>1
    <3> QED
      BY <3>1
  <2>2. C # {} /\ S # {}
    BY <1>8, <1>9, <2>1
  <2>7. \A p \in S : p \in Nat /\ score[p] \in Nat
    BY <1>5, <1>8
  <2>12. \A p \in S : score[p] = BestScore(Listed[p], C)
    BY <1>8
  <2>13. IsFiniteSet(S)
    BY <1>5
  <2>3. PICK f : /\ Sorted(S, score, f)
                 /\ BestFirst(Listed, S, C) = [n \in 1..Cardinality(S) |-> Listed[f[n]]]
    BY <2>7, <2>12, <2>13, BestFirstIsSorted
  <2>4. f \in [1..Cardinality(S) -> S]
    BY <2>3 DEF Sorted, Bijection, Injection
  <2>5. sorted = [n \in 1..Cardinality(S) |-> Listed[f[n]]]
    <3>1. CASE Len(Listed) <= 1
      <4>1. S = 1..1 /\ Len(Listed) = 1 /\ Cardinality(S) = 1
        BY <1>5, <2>2, <3>1
      <4>2. f[1] = 1
        BY <2>4, <4>1
      <4>3. sorted = Listed
        BY <3>1 DEF SortHopsByMemberSkillMatch
      <4>4. Listed = [n \in 1..1 |-> Listed[n]]
        BY <1>3, <4>1
      <4> QED
        BY <4>1, <4>2, <4>3, <4>4
    <3>2. CASE ~(Len(Listed) <= 1)
      BY <1>1, <1>4, <2>2, <2>3, <3>2 DEF SortHopsByMemberSkillMatch
    <3> QED
      BY <3>1, <3>2
  <2>6. \A p \in P, q \in S \ P : score[p] > score[q]
    <3> TAKE p \in P, q \in S \ P
    <3>1. score[p] \in Nat /\ score[q] \in Nat /\ score[p] > 0 /\ ~(score[q] > 0)
      BY <1>8, <1>9, <1>13
    <3> QED
      BY <3>1
  <2>8. ASSUME NEW n \in 1..Cardinality(P)
        PROVE  n \in 1..Cardinality(S) /\ g[n] = f[n]
    <3>1. P \in SUBSET S
      BY <1>10
    <3>2. Sorted(S, score, f) /\ Sorted(P, score, g)
      BY <1>14, <2>3
    <3> QED
      BY <2>6, <2>7, <2>13, <3>1, <3>2, HighestHead
  <2>9. suggested \in Seq(Text) /\ Len(suggested) = Cardinality(P)
    <3>1. \A n \in 1..Cardinality(P) : Listed[g[n]] \in Text
      BY <1>5, <1>10, <1>16
    <3> QED
      BY <1>11, <1>15, <3>1
  <2>10. sorted \in Seq(Text) /\ Len(sorted) = Cardinality(S)
    BY <1>5, <2>4, <2>5
  <2>11. \A n \in 1..Len(suggested) : suggested[n] = sorted[n]
    <3> TAKE n \in 1..Len(suggested)
    <3>1. n \in 1..Cardinality(P)
      BY <2>9
    <3>2. suggested[n] = Listed[g[n]]
      BY <1>15, <3>1
    <3>3. n \in 1..Cardinality(S) /\ g[n] = f[n]
      BY <2>8, <3>1
    <3>4. sorted[n] = Listed[f[n]]
      BY <2>5, <3>3
    <3> QED
      BY <3>2, <3>3, <3>4
  <2> QED
    BY <1>10, <2>9, <2>10, <2>11, PrefixByElements
<1> QED
  BY <1>2, <1>19, <1>20

-----------------------------------------------------------------------------
(***************************************************************************)
(* THE DISCUSSION and THE SKILLS beside each other.                        *)
(***************************************************************************)

(* The parts share no variable: what happens in one is no step of another.  *)
LEMMA CommunityIsApart == CommunitySpec => DSpec /\ SkillsInit /\ [][SkillsNext]_svars
<1>1. CommunityInit => DInit /\ SkillsInit
  BY DEF CommunityInit
<1>2. ASSUME [CommunityNext]_<<dvars, svars, part>>
      PROVE  [DNext]_dvars /\ [SkillsNext]_svars
  BY <1>2 DEF CommunityNext
<1> QED
  BY <1>1, <1>2, PTL DEF CommunitySpec, DSpec

(* What a request holds of the skills stays true or names none, in every    *)
(* interleaving of the saves.                                              *)
THEOREM SkillsRely == CommunitySpec => []SkillsInv
<1>1. SkillsInit /\ [][SkillsNext]_svars => []SkillsInv
  BY InitSkillsInv, NextSkillsInv, PTL
<1> QED
  BY <1>1, CommunityIsApart, PTL

(* A selected skill exists, and is to be seen on the profile page or of an  *)
(* organization the member has left, whatever falls between the check of a  *)
(* selection and its INSERTs.                                              *)
THEOREM SelectionsAreAllowed == CommunitySpec => []SelectionsWereAllowed
  BY SelectionsHold, SkillsRely, PTL

(* Whatever the hops say and however many there are, the suggested ones are *)
(* those that share a word's stem with a selected skill, and they head the  *)
(* sorted list in the same order.                                          *)
THEOREM SuggestionsAlwaysFit == CommunitySpec => []SuggestionsFit
  BY SuggestionsAreRight, SkillsRely, PTL

(* The rows of the discussion and of the skills keep their types; a skill   *)
(* is one of an organization that exists, and has a name of its own there.  *)
THEOREM CommunityTypes == CommunitySpec => []CommunityTypeOK
<1>1. DInv /\ SkillsInv => CommunityTypeOK
  BY DEF DInv, SkillsInv, CommunityTypeOK
<1> QED
  BY <1>1, DiscussionRelies, SkillsRely, CommunityIsApart, PTL
=============================================================================
