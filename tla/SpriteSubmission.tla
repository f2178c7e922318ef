-------------------------- MODULE SpriteSubmission --------------------------
(***************************************************************************)
(* DeferredRenderer::submitSprites: pad the spheres to whole groups, cull  *)
(* them, take the culled ones out of both vectors.  A sphere and an        *)
(* instance are the entity they were made for.                             *)
(***************************************************************************)
EXTENDS Integers, Sequences

CONSTANTS
    GroupSize,     \* spheres culled at a time: 4 lanes in the code
    NullObject     \* glm::vec4()

ASSUME GroupSizeAssumption == GroupSize \in Nat \ {0}

(* Variant: a null object is pushed before the size is tested. *)
PadFirst(positions) ==
    positions \o [i \in 1 .. GroupSize - (Len(positions) % GroupSize) |-> NullObject]

(* Null objects up to a whole number of groups. *)
Pad(positions) ==
    positions \o [i \in 1 .. (-Len(positions)) % GroupSize |-> NullObject]

(* sse_cull_spheres stores each mask over its own pointer culling_res_sse,   *)
(* not where that points: culling_results keeps the zeros it was made with.  *)
CullingResults(n) == [i \in 1 .. n |-> 0]

(* Helpers::remove: the last element replaces the removed one.  An index     *)
(* behind the last element writes to spare storage, and the last is lost.    *)
(* The function is declared bool and returns nothing, which is undefined;    *)
(* no call is reached while the culling results are zero.                    *)
SwapRemove(container, i) ==
    SubSeq([container EXCEPT ![i] = container[Len(container)]], 1, Len(container) - 1)

(* The loop over the objects: the index advances also after a removal. *)
RemoveCulled(positions, instanceData, culled, num_objects) ==
    LET after[i \in 0 .. num_objects] ==
            IF i = 0
            THEN [positions |-> positions, instances |-> instanceData]
            ELSE IF culled[i] = 0
                 THEN after[i - 1]
                 ELSE [positions |-> SwapRemove(after[i - 1].positions, i),
                       instances |-> SwapRemove(after[i - 1].instances, i)]
    IN  after[num_objects]

(* What is left in the two vectors, to be queued for rendering. *)
SubmitSprites(positions, instanceData) ==
    RemoveCulled(Pad(positions), instanceData,
                 CullingResults(Len(Pad(positions))), Len(positions))
=============================================================================
