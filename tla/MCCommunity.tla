---------------------------- MODULE MCCommunity ----------------------------
(* What members say about a hop, and the skills they are found by: two      *)
(* parts of the server that share nothing, in one run.  Each behaviour is a *)
(* behaviour of one of them, while the other rests in an initial state.     *)
(* Constants and bounds for TLC.                                            *)
EXTENDS Discussion, Skills

CONSTANTS eve, bob, cy, k1, i1

OneItemLeft == {{k1}, {i1}}

OilChange == <<"oil", "change">>
DefaultNames == <<OilChange>>
SkillNames == {OilChange, <<"help">>}
StemOf == [w \in {"oil", "oils", "change", "help", "paint"} |-> IF w = "oils" THEN "oil" ELSE w]
Texts ==
  <<[title |-> <<"help", "paint">>, details |-> <<>>],
    [title |-> <<"paint">>, details |-> <<"change", "oils">>],
    [title |-> <<"oil", "change">>, details |-> <<"help">>]>>

Same == Permutations(Reports) \cup Permutations(Workers) \cup Permutations({bob, cy})

VARIABLE part

(* The discussion has one comment or one picture; of what is used up from   *)
(* the start nothing is asked.                                              *)
OnlyAbout(kind) ==
  \A w \in Workers :
    IF kind = "comment" THEN work[w].item # i1 /\ work[w].doing # "upload"
    ELSE work[w].item # k1 /\ work[w].doing \notin {"audience", "insert", "notify"}

CommunityInit ==
  /\ DInit /\ SkillsInit
  /\ part \in {"comment", "picture", "skills"}
  /\ removed = IF part = "comment" THEN {i1} ELSE {k1}

CommunityNext ==
  /\ UNCHANGED part
  /\ \/ part # "skills" /\ DNext /\ UNCHANGED svars /\ OnlyAbout(part)'
     \/ part = "skills" /\ SkillsNext /\ UNCHANGED dvars

CommunitySpec == CommunityInit /\ [][CommunityNext]_<<dvars, svars, part>>

(* Every variable of the two parts keeps its type.                          *)
CommunityTypeOK == DTypeOK /\ SkillsTypeOK
=============================================================================
