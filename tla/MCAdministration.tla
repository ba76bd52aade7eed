-------------------------- MODULE MCAdministration --------------------------
(***************************************************************************)
(* Six parts of the system that share no variable, explored one at a time: *)
(* the initial state chooses one, and the others rest.                     *)
(***************************************************************************)
EXTENDS Discovery, Categories, Marketing, TagAssociations, SignUp, Seed

VARIABLE area

vars == <<discoveryVars, categoryVars, marketingVars, tagVars, signUpVars, seedVars, area>>

Init ==
  /\ DiscoveryInit /\ CategoriesInit /\ MarketingInit /\ TagsInit /\ SignUpInit /\ SeedInit
  /\ area \in {"discovery", "categories", "marketing", "tags", "signUp", "seed"}
  /\ area # "discovery" => page = "tags:all" /\ source = "tag"

Rest(a, theirs) == IF area = a THEN TRUE ELSE UNCHANGED theirs

Only(a) ==
  /\ area = a /\ UNCHANGED area
  /\ Rest("discovery", discoveryVars) /\ Rest("categories", categoryVars)
  /\ Rest("marketing", marketingVars) /\ Rest("tags", tagVars)
  /\ Rest("signUp", signUpVars) /\ Rest("seed", seedVars)

Next ==
  \/ Only("discovery") /\ DiscoveryNext
  \/ Only("categories") /\ CategoriesNext
  \/ Only("marketing") /\ MarketingNext
  \/ Only("tags") /\ TagsNext
  \/ Only("signUp") /\ SignUpNext
  \/ Only("seed") /\ SeedNext

Spec == Init /\ [][Next]_vars /\ WF_vars(Only("discovery") /\ Expire)
=============================================================================
