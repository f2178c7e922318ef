---------------------------- MODULE MCLoaderDocs ----------------------------
(***************************************************************************)
(* What docs.md and the component headers say of a loaded scene, on scenes *)
(* of a single node.                                                       *)
(***************************************************************************)
EXTENDS MCEntityLoader

(* One scene with the node nA of the given type; the template nT is an entity. *)
Single(type, keys, copies) ==
    [Document(nA :> type @@ nB :> "other" @@ nC :> "other" @@ nT :> "entity",
              keys, copies, File)
        EXCEPT !.scenes = <<scene1>>,
               !.scene = [@ EXCEPT ![scene1] = <<nA>>],
               !.children = [n \in Node |-> <<>>]]

EntityDocuments == {Single("entity", Intact, 0)}

TemplateDocuments == {Single("template", Intact, copies) : copies \in 0 .. 2}

(* The shape of data/scene1.yml: type, comment and components, no children. *)
ShippedDocuments ==
    {Single("entity", [Intact EXCEPT ![nA]["children"] = "absent",
                                     ![nA]["defaults"] = "absent",
                                     ![nA]["source"] = "absent",
                                     ![nA]["instances"] = "absent"], 0)}

(* TimeAware.h:7 and docs.md:404: every entity gets a TimeAware component     *)
(* with timeScale 1.0 (Loader.cpp:260-262).                                   *)
EveryEntityIsTimeAware ==
    phase = "done" =>
        \A e \in DOMAIN componentsOf : e \in DOMAIN timeAware /\ timeAware[e] = 1

(* docs.md:164: the entity of the template source file is loaded in place of   *)
(* the template node (Loader.cpp:249-254).                                     *)
TemplateHasSourceComponents ==
    phase = "done" => \A e \in DOMAIN componentsOf : componentsOf[e] = OwnComponents(nT)

(* data/scene1.yml:2-8: an entity without children is part of the scene        *)
(* (Loader.cpp:141-145).                                                       *)
ShippedSceneIsLoaded ==
    phase = "done" => Len(Roots(0)) = 1
=============================================================================
