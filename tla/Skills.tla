------------------------------- MODULE Skills -------------------------------
(***************************************************************************)
(* The skills of hopshare: an organization keeps a list of its own beside   *)
(* the default one, members select from both, and hops are ranked for a    *)
(* member by how well their text fits the selected skills.  A save checks   *)
(* or reads first and replaces the rows in a transaction afterwards, and   *)
(* two saves may overlap.  A name, an alias and a text are sequences of     *)
(* normalized words.  That the saver of a list owns the organization is     *)
(* established in Membership.                                              *)
(***************************************************************************)
EXTENDS Naturals, SequencesExt

CONSTANTS
  People, Orgs,
  Ids,           \* the ids of skills, given out in increasing order
  Preset,        \* the default skills: a function from ids to names
  Names,         \* the names and aliases in use
  Stem,          \* stemMatchToken, a function on words
  StopWords,     \* hopMatchStopWords
  Listed,        \* a list of hops, each with a title and details
  Realiased,     \* bound: the skills whose aliases are replaced
  Editors,       \* the requests served at a time
  Default, None

VARIABLES
  orgs,      \* the organizations that exist
  belongs,   \* organization_memberships without left_at
  belonged,  \* who has been a member of what
  skill,     \* skills
  lastId,    \* the sequence behind the ids
  alias,     \* skill_aliases
  selected,  \* member_skills
  edit       \* what each request is in the middle of

(* There are default skills, each with a name of its own, and names that    *)
(* could be stored at all are finitely many.                               *)
ASSUME SkillsConstants ==
  /\ Ids \subseteq Nat /\ IsFiniteSet(Names) /\ Names \subseteq Seq(DOMAIN Stem)
  /\ DOMAIN Preset # {} /\ DOMAIN Preset \subseteq Ids /\ IsFiniteSet(DOMAIN Preset)
  /\ \A i \in DOMAIN Preset : Preset[i] \in Names
  /\ IsInjective(Preset)
  /\ Listed \in Seq([title : Seq(DOMAIN Stem), details : Seq(DOMAIN Stem)])

svars == <<orgs, belongs, belonged, skill, lastId, alias, selected, edit>>

Row == [org : Orgs \cup {Default}, name : Names]
Edit == [doing : {"nothing", "select", "replace", "list"},
         who : People \cup {None}, org : Orgs \cup {None},
         ids : SUBSET Ids, names : SUBSET Names, seen : SUBSET Ids]
Rest == [doing |-> "nothing", who |-> None, org |-> None, ids |-> {}, names |-> {}, seen |-> {}]

SkillsInit ==
  /\ orgs = Orgs /\ belongs = {} /\ belonged = {} /\ selected = {}
  /\ skill = [i \in Ids |-> IF i \in DOMAIN Preset THEN [org |-> Default, name |-> Preset[i]]
                            ELSE None]
  /\ alias = [i \in Ids |-> IF i \in DOMAIN Preset THEN {Preset[i]} ELSE {}]
  /\ lastId = Max(DOMAIN Preset) /\ edit = [e \in Editors |-> Rest]

Existing == {i \in Ids : skill[i] # None}
ListOrganizationSkills(o) == {i \in Existing : skill[i].org = o}
ListAvailableSkillsForMember(m) ==
  {i \in Existing : skill[i].org = Default \/ <<m, skill[i].org>> \in belongs}
ListSelectedSkillIDsForMember(m) == {i \in Ids : <<m, i>> \in selected}

(* The boxes that are checked on the profile page, whose save replaces all. *)
CheckedSkills(m) == ListAvailableSkillsForMember(m) \cap ListSelectedSkillIDsForMember(m)

(* Skills are deleted with their aliases and selections; a new one has its *)
(* name as an alias.                                                       *)
RowsBecome(gone, new) ==
  /\ skill' = [i \in Ids |-> IF i \in gone THEN None ELSE IF i \in DOMAIN new THEN new[i] ELSE skill[i]]
  /\ alias' = [i \in Ids |-> IF i \in gone THEN {} ELSE IF i \in DOMAIN new THEN {new[i].name} ELSE alias[i]]
  /\ selected' = {s \in selected : s[2] \notin gone}

Begin(e, job) == edit[e] = Rest /\ edit' = [edit EXCEPT ![e] = job]
During(e, step) == edit[e].doing = step

-----------------------------------------------------------------------------
(* ReplaceMemberSkills.  The check is a query before the transaction.      *)

CheckNothing(e, m, chosen) ==   \* mutant: whatever was posted
  /\ chosen \subseteq Existing
  /\ Begin(e, [Rest EXCEPT !.doing = "select", !.who = m, !.ids = chosen])
  /\ UNCHANGED <<orgs, belongs, belonged, skill, lastId, alias, selected>>
CheckSelection(e, m, chosen) ==
  /\ chosen \subseteq ListAvailableSkillsForMember(m)
  /\ Begin(e, [Rest EXCEPT !.doing = "select", !.who = m, !.ids = chosen])
  /\ UNCHANGED <<orgs, belongs, belonged, skill, lastId, alias, selected>>

(* The DELETE sees the rows that are committed when it starts, and waits   *)
(* for the ones another save is deleting.                                  *)
DeleteSelections(e) ==
  /\ During(e, "select")
  /\ edit' = [edit EXCEPT ![e].doing = "replace",
                          ![e].seen = ListSelectedSkillIDsForMember(edit[e].who)]
  /\ UNCHANGED <<orgs, belongs, belonged, skill, lastId, alias, selected>>

(* The INSERTs and the commit: the rows another save has inserted since    *)
(* stay, and one of them chosen here too violates the primary key.         *)
ReplaceSelections(e) ==
  LET m == edit[e].who
      staying == ListSelectedSkillIDsForMember(m) \ edit[e].seen
  IN /\ During(e, "replace")
     /\ edit[e].ids \subseteq Existing \ staying
     /\ selected' = (selected \ ({m} \X edit[e].seen)) \cup ({m} \X edit[e].ids)
     /\ edit' = [f \in Editors |->
                   IF f = e THEN Rest
                   ELSE IF edit[f].who = m THEN [edit[f] EXCEPT !.seen = @ \ edit[e].seen]
                   ELSE edit[f]]
     /\ UNCHANGED <<orgs, belongs, belonged, skill, lastId, alias>>

-----------------------------------------------------------------------------
(* ReplaceOrganizationSkills and ReplaceSkillAliases.                      *)

LoadExisting(e, o, names) ==
  LET kept == {i \in ListOrganizationSkills(o) : skill[i].name \in names} IN
  /\ o \in orgs
  /\ Begin(e, [Rest EXCEPT !.doing = "list", !.org = o, !.ids = kept,
                 !.names = names \ {skill[i].name : i \in kept},
                 !.seen = ListOrganizationSkills(o) \ kept])
  /\ UNCHANGED <<orgs, belongs, belonged, skill, lastId, alias, selected>>

(* A kept skill is given its name as an alias, which fails when the skill  *)
(* is gone; a new name gets an id of its own, unless another request has   *)
(* inserted the name; and what was read and not kept is deleted.           *)
WriteSkills(e) ==
  LET o == edit[e].org
      new == edit[e].names
      last == lastId + Cardinality(new)
  IN /\ During(e, "list") /\ o \in orgs /\ last \in Ids
     /\ edit[e].ids \subseteq Existing
     /\ \A i \in ListOrganizationSkills(o) : skill[i].name \notin new
     /\ \E nameOf \in [(lastId + 1)..last -> new] :
          /\ IsInjective(nameOf)
          /\ RowsBecome(edit[e].seen, [i \in DOMAIN nameOf |-> [org |-> o, name |-> nameOf[i]]])
     /\ lastId' = last /\ edit' = [edit EXCEPT ![e] = Rest]
     /\ UNCHANGED <<orgs, belongs, belonged>>

(* No handler calls it.                                                    *)
ReplaceSkillAliases(i, aliases) ==
  /\ i \in Existing
  /\ alias' = [alias EXCEPT ![i] = aliases \cup {skill[i].name}]
  /\ UNCHANGED <<orgs, belongs, belonged, skill, lastId, selected, edit>>

-----------------------------------------------------------------------------
(* The rest of the system.  Who leaves keeps the selections.               *)

Join(m, o) ==
  /\ o \in orgs /\ <<m, o>> \notin belongs
  /\ belongs' = belongs \cup {<<m, o>>} /\ belonged' = belonged \cup {<<m, o>>}
  /\ UNCHANGED <<orgs, skill, lastId, alias, selected, edit>>

Leave(m, o) ==
  /\ <<m, o>> \in belongs /\ belongs' = belongs \ {<<m, o>>}
  /\ UNCHANGED <<orgs, belonged, skill, lastId, alias, selected, edit>>

DeleteOrganization(o) ==
  /\ o \in orgs /\ orgs' = orgs \ {o}
  /\ belongs' = belongs \ (People \X {o})
  /\ RowsBecome(ListOrganizationSkills(o), <<>>)
  /\ UNCHANGED <<belonged, lastId, edit>>

(* A statement that fails, a deadlock, or a request that is cancelled.     *)
RollBack(e) ==
  /\ edit[e] # Rest /\ edit' = [edit EXCEPT ![e] = Rest]
  /\ UNCHANGED <<orgs, belongs, belonged, skill, lastId, alias, selected>>

SkillsNext ==
  \/ \E e \in Editors :
       \/ DeleteSelections(e) \/ ReplaceSelections(e) \/ WriteSkills(e) \/ RollBack(e)
       \/ \E m \in People, chosen \in SUBSET Ids : CheckSelection(e, m, chosen)
       \/ \E o \in Orgs, names \in SUBSET Names : LoadExisting(e, o, names)
  \/ \E i \in Realiased, aliases \in SUBSET Names : ReplaceSkillAliases(i, aliases)
  \/ \E m \in People, o \in Orgs : Join(m, o) \/ Leave(m, o)
  \/ \E o \in Orgs : DeleteOrganization(o)

-----------------------------------------------------------------------------
(* Matching.  The order among skills of one score is left out.             *)

tokenizeMatchText(text) == {Stem[w] : w \in ToSet(text) \ StopWords}

containsWholePhrase(body, phrase) ==
  \E i \in 0..(Len(body) - Len(phrase)) : SubSeq(body, i + 1, i + Len(phrase)) = phrase

PhraseOnly(name, hop) ==   \* mutant: the single words do not count
  IF containsWholePhrase(hop.title, name) THEN 16
  ELSE IF containsWholePhrase(hop.details, name) THEN 10 ELSE 0
scoreAliasMatch(name, hop) ==
  LET tokens == tokenizeMatchText(name)
      titleHits == Cardinality(tokens \cap tokenizeMatchText(hop.title))
      detailHits == Cardinality(tokens \cap tokenizeMatchText(hop.details))
  IN IF tokens = {} THEN 0
     ELSE (IF containsWholePhrase(hop.title, name) THEN 16
           ELSE IF containsWholePhrase(hop.details, name) THEN 10 ELSE 0)
          + 6 * titleHits + 3 * detailHits
          + (IF Cardinality(tokens) > 1 /\ titleHits + detailHits >= Cardinality(tokens)
             THEN 4 ELSE 0)

ListSelectedSkillCandidatesForMember(o, m) ==
  {i \in ListSelectedSkillIDsForMember(m) : skill[i].org \in {Default, o}}
Aliases(i) == alias[i] \cup {skill[i].name}

(* The score of the first of MatchHopTextToSkillCandidates.                *)
BestScore(hop, candidates) ==
  Max({0} \cup UNION {{scoreAliasMatch(a, hop) : a \in Aliases(i)} : i \in candidates})

BestFirst(hops, places, candidates) ==
  LET score == [p \in places |-> BestScore(hops[p], candidates)]
      Before(p, q) == score[p] > score[q] \/ (score[p] = score[q] /\ p < q)
      order == CHOOSE ps \in SetToSeqs(places) : \A i, j \in DOMAIN ps : i < j => Before(ps[i], ps[j])
  IN [n \in DOMAIN order |-> hops[order[n]]]

SortHopsByMemberSkillMatch(o, m, hops) ==
  LET candidates == ListSelectedSkillCandidatesForMember(o, m) IN
  IF Len(hops) <= 1 \/ candidates = {} THEN hops
  ELSE BestFirst(hops, DOMAIN hops, candidates)

FilterAndSortHopsByMemberSkillMatch(o, m, hops) ==
  LET candidates == ListSelectedSkillCandidatesForMember(o, m) IN
  BestFirst(hops, {p \in DOMAIN hops : BestScore(hops[p], candidates) > 0}, candidates)

-----------------------------------------------------------------------------

(* Every variable keeps its type; a skill is one of an organization that   *)
(* exists, has its name among its aliases and shares the name with no      *)
(* other of the organization, however the saves of its owners overlap.     *)
SkillsTypeOK ==
  /\ orgs \subseteq Orgs /\ belongs \subseteq belonged /\ belonged \subseteq People \X Orgs
  /\ lastId \in Ids
  /\ skill \in [Ids -> Row \cup {None}] /\ alias \in [Ids -> SUBSET Names]
  /\ selected \subseteq People \X Ids /\ edit \in [Editors -> Edit]
  /\ \A i \in Existing :
       /\ skill[i].org \in orgs \cup {Default} /\ skill[i].name \in alias[i]
       /\ \A j \in Existing : skill[i] = skill[j] => i = j

(* A selected skill is one that exists; the profile page shows it checked, *)
(* or it is of an organization the member has left: a list that is         *)
(* replaced, a membership that ends or another save may fall between the   *)
(* check of a selection and its INSERTs, but never brings in a skill that  *)
(* is gone or was not to be selected.                                      *)
SelectionsWereAllowed ==
  \A s \in selected :
    /\ s[2] \in Existing
    /\ s[2] \in CheckedSkills(s[1]) \/ <<s[1], skill[s[2]].org>> \in belonged \ belongs

(* The hops suggested to a member are those that share a word's stem with  *)
(* one of the names of a skill selected for this organization or by        *)
(* default, and they head the sorted list in the same order.               *)
SuggestionsFit ==
  \A m \in People, o \in orgs :
    LET sorted == SortHopsByMemberSkillMatch(o, m, Listed)
        suggested == FilterAndSortHopsByMemberSkillMatch(o, m, Listed)
        Shares(hop, i) == \E a \in Aliases(i) :
          tokenizeMatchText(a) \cap (tokenizeMatchText(hop.title) \cup tokenizeMatchText(hop.details)) # {}
    IN /\ ToSet(suggested) =
            {hop \in ToSet(Listed) : \E i \in Existing :
               <<m, i>> \in selected /\ skill[i].org \in {Default, o} /\ Shares(hop, i)}
       /\ suggested # <<>> => IsPrefix(suggested, sorted)
=============================================================================
