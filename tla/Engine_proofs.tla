---------------------------- MODULE Engine_proofs ----------------------------
(***************************************************************************)
(* Proofs about Engine: EngineInv is inductive, so that on every path, the *)
(* exceptional ones included, destructors find what they need, frames use  *)
(* live objects and an exit is orderly.                                    *)
(***************************************************************************)
EXTENDS Engine, SequenceTheorems, FiniteSetTheorems, TLAPS

Among(f, fs) == \E i \in DOMAIN fs : fs[i] = f

(* A member of fs is live after glGen, and any other stays as it was. *)
LEMMA GenerateLive ==
    ASSUME NEW fs, Generate(fs), NEW f \in Member, Among(f, fs) \/ Live(f)
    PROVE  <<KindOf(f), member'[f]>> \in objects'
<1>1. CASE Among(f, fs)
  <2> DEFINE i == CHOOSE i \in DOMAIN fs : fs[i] = f
  <2>1. i \in DOMAIN fs /\ fs[i] = f
    BY <1>1 DEF Among
  <2>2. member'[f] = Name(fs, i)
    BY <1>1 DEF Generate, Among
  <2>3. <<KindOf(fs[i]), Name(fs, i)>> \in objects'
    BY <2>1 DEF Generate
  <2> QED BY <2>1, <2>2, <2>3
<1>2. CASE ~ Among(f, fs)
  <2>1. member'[f] = member[f]
    BY <1>2 DEF Generate, Among
  <2>2. <<KindOf(f), member[f]>> \in objects'
    BY <1>2 DEF Generate, Live, Object
  <2> QED BY <2>1, <2>2
<1> QED BY <1>1, <1>2

(* Concatenation keeps the members of both sequences. *)
LEMMA AmongConcat ==
    ASSUME NEW s \in Seq(Member), NEW t \in Seq(Member), NEW f,
           Among(f, s) \/ Among(f, t)
    PROVE  Among(f, s \o t) /\ s \o t \in Seq(Member)
<1>1. /\ s \o t \in Seq(Member)
      /\ Len(s \o t) = Len(s) + Len(t)
      /\ \A i \in 1 .. Len(s) : (s \o t)[i] = s[i]
      /\ \A i \in 1 .. Len(t) : (s \o t)[Len(s) + i] = t[i]
  BY ConcatProperties
<1>2. CASE Among(f, s)
  <2>1. PICK i \in DOMAIN s : s[i] = f
    BY <1>2 DEF Among
  <2>2. i \in 1 .. Len(s) /\ i \in DOMAIN (s \o t)
    BY <1>1
  <2> QED BY <1>1, <2>1, <2>2 DEF Among
<1>3. CASE Among(f, t)
  <2>1. PICK i \in DOMAIN t : t[i] = f
    BY <1>3 DEF Among
  <2>2. i \in 1 .. Len(t) /\ Len(s) + i \in DOMAIN (s \o t)
    BY <1>1
  <2> QED BY <1>1, <2>1, <2>2 DEF Among
<1> QED BY <1>1, <1>2, <1>3

(* The members of TileMap and the shaders are members. *)
LEMMA TileMapAreMembers ==
    {"gbufferSpriteShader", "pbrLightingShader", "gbufferBackgroundShader", "debugShader",
     "tileShader", "tileVAO", "tileVertices", "tileColours", "tileTexcoords",
     "imageIdBuffer", "tileIndices"} \subseteq Member
  BY DEF Member, Kind, Members

(* So are those of the renderer and its sprite pool. *)
LEMMA RendererAreMembers ==
    {"quadVAO", "quadVBO", "matrices_ubo", "spriteVAO", "spriteVertices", "spriteTexcoords",
     "tbo", "tbo_tex", "gBuffer", "gBufferPosition", "gBufferNormal", "gBufferAlbedo",
     "gBufferDepth"} \subseteq Member
  BY DEF Member, Kind, Members

(* DeferredRenderer::init makes everything render uses but the textures. *)
LEMMA RendererMakesAll ==
    \A f \in RenderUses(debug) \ {"texture"} :
        Among(f, RendererShaders(debug) \o HardMembers \o SoftMembers)
<1> SUFFICES ASSUME NEW f \in RenderUses(debug) \ {"texture"}
             PROVE  Among(f, RendererShaders(debug) \o HardMembers \o SoftMembers)
  OBVIOUS
<1> DEFINE three == <<"gbufferSpriteShader", "pbrLightingShader", "gbufferBackgroundShader">>
           more  == IF debug THEN <<"debugShader">> ELSE <<>>
<1>1. /\ three \in Seq(Member) /\ more \in Seq(Member)
      /\ HardMembers \in Seq(Member) /\ SoftMembers \in Seq(Member)
  <2>1. three \in Seq(Member)
    BY TileMapAreMembers
  <2>2. <<"debugShader">> \in Seq(Member) /\ <<>> \in Seq(Member)
    BY TileMapAreMembers
  <2>3. HardMembers \in Seq(Member)
    BY RendererAreMembers DEF HardMembers
  <2>4. SoftMembers \in Seq(Member)
    BY RendererAreMembers DEF SoftMembers
  <2> QED BY <2>1, <2>2, <2>3, <2>4
<1>2. RendererShaders(debug) = three \o more
  BY DEF RendererShaders
<1>3. three \o more \in Seq(Member) /\ three \o more \o HardMembers \in Seq(Member)
  BY <1>1, ConcatProperties
<1>4. \/ Among(f, three) \/ Among(f, more)
      \/ Among(f, HardMembers) \/ Among(f, SoftMembers)
  BY DEF Among, RenderUses, HardMembers, SoftMembers
<1> HIDE DEF three, more
<1>5. CASE Among(f, SoftMembers)
  BY <1>1, <1>2, <1>3, <1>5, AmongConcat
<1>6. CASE Among(f, HardMembers)
  <2>1. Among(f, three \o more \o HardMembers)
    BY <1>1, <1>3, <1>6, AmongConcat
  <2> QED BY <1>1, <1>2, <1>3, <2>1, AmongConcat
<1>7. CASE Among(f, three) \/ Among(f, more)
  <2>1. Among(f, three \o more)
    BY <1>1, <1>7, AmongConcat
  <2>2. Among(f, three \o more \o HardMembers)
    BY <1>1, <1>3, <2>1, AmongConcat
  <2> QED BY <1>1, <1>2, <1>3, <2>2, AmongConcat
<1> QED BY <1>4, <1>5, <1>6, <1>7

(* So is everything a frame uses. *)
LEMMA UsesAreMembers == RenderUses(debug) \cup {"imageIdBuffer"} \subseteq Member
  BY DEF RenderUses, Member, Kind, Members

-----------------------------------------------------------------------------
(* main begins with nothing built. *)
LEMMA InitEstablishes == Init => EngineInv
  BY DEF Init, GraphicsInit, EngineInv, ControlInv, DestructorsFindTheirServices, LiveInv,
         Step, Scoped, Setup, Open, Run, Ended

(* Which objects are built, and with which services, at every step. *)
LEMMA ControlStep ==
    ASSUME ControlInv, DestructorsFindTheirServices, [Next]_vars
    PROVE  ControlInv' /\ DestructorsFindTheirServices'
<1> USE DEF ControlInv, DestructorsFindTheirServices, Step, Scoped, Setup, Open, Run, Ended,
            Goto, Throw, Die, Continue
<1>1. CASE LoadFile
  BY <1>1 DEF LoadFile, glVars
<1>2. CASE LoggingInit
  BY <1>2 DEF LoggingInit, glVars
<1>3. CASE SetupPhysFS
  BY <1>3 DEF SetupPhysFS, glVars
<1>4. CASE NewWindow
  BY <1>4 DEF NewWindow, glVars
<1>5. CASE LoadGameConfig
  BY <1>5 DEF LoadGameConfig, glVars
<1>6. CASE OpenWindow
  BY <1>6 DEF OpenWindow, glVars
<1>7. CASE StartGame
  BY <1>7 DEF StartGame, glVars
<1>8. CASE NewTileMap
  BY <1>8 DEF NewTileMap, glVars
<1>9. CASE LoadTextures
  BY <1>9 DEF LoadTextures, glVars
<1>10. CASE RendererInit
  BY <1>10 DEF RendererInit
<1>11. CASE LoadModelShader
  BY <1>11 DEF LoadModelShader
<1>12. CASE PollEvent
  BY <1>12 DEF PollEvent, mainVars, glVars
<1>13. CASE NoEvent
  BY <1>13 DEF NoEvent, glVars
<1>14. CASE Frame
  BY <1>14 DEF Frame, glVars
<1>15. CASE RendererTerm
  BY <1>15 DEF RendererTerm, Delete
<1>16. CASE DestroyTileMap
  BY <1>16 DEF DestroyTileMap, Delete
<1>17. CASE DestroyPhysics
  BY <1>17 DEF DestroyPhysics, glVars
<1>18. CASE DestroyWindow
  BY <1>18 DEF DestroyWindow, Delete
<1>19. CASE LeaveTry
  BY <1>19 DEF LeaveTry, glVars
<1>20. CASE Deinit
  BY <1>20 DEF Deinit, glVars
<1>21. CASE PostEvent
  BY <1>21 DEF PostEvent, mainVars, glVars
<1>22. CASE UNCHANGED vars
  BY <1>22 DEF vars, mainVars, glVars
<1> QED
  BY <1>1, <1>2, <1>3, <1>4, <1>5, <1>6, <1>7, <1>8, <1>9, <1>10, <1>11, <1>12, <1>13,
     <1>14, <1>15, <1>16, <1>17, <1>18, <1>19, <1>20, <1>21, <1>22 DEF Next, Main

(* A step that makes objects for fs keeps every member live, and makes the   *)
(* members of fs live.                                                       *)
LEMMA StaysLive ==
    ASSUME NEW fs, Generate(fs), NEW S \in SUBSET Member,
           \A f \in S : Among(f, fs) \/ Live(f)
    PROVE  \A f \in S : Live(f)'
<1> TAKE f \in S
<1>1. f \in Member /\ (Among(f, fs) \/ Live(f))
  OBVIOUS
<1>2. <<KindOf(f), member'[f]>> \in objects'
  BY <1>1, GenerateLive
<1> QED BY <1>2 DEF Live, Object, KindOf

(* Which OpenGL objects are live at every step. *)
LEMMA LiveStep ==
    ASSUME LiveInv, ControlInv, [Next]_vars
    PROVE  LiveInv'
<1> USE DEF Step, Setup, Open, Run, Ended, Goto, Throw, Die, Continue
<1> DEFINE Same == UNCHANGED <<member, objects, debug>>
<1>1. ASSUME Same, pc' = pc \/ (pc \in {"PollEvents", "Frame"} /\ pc' \in {"Frame", "PollEvents"})
                   \/ pc' \notin Run \ {"RendererTerm"}
      PROVE  LiveInv'
  BY <1>1 DEF LiveInv, Live, Object
<1>2. ASSUME pc' \notin Run \ {"RendererTerm"}
      PROVE  LiveInv'
  BY <1>2 DEF LiveInv
<1>3. CASE LoadFile \/ LoggingInit \/ SetupPhysFS \/ NewWindow \/ LoadGameConfig
           \/ OpenWindow \/ StartGame
  BY <1>2, <1>3 DEF LoadFile, LoggingInit, SetupPhysFS, NewWindow, LoadGameConfig,
                    OpenWindow, StartGame
<1>4. CASE NewTileMap
  <2>1. CASE pc' # "LoadTextures"
    BY <1>2, <1>4, <2>1 DEF NewTileMap
  <2>2. CASE pc' = "LoadTextures"
    <3> DEFINE made == <<"tileVAO", "tileShader">>
    <3>1. Generate(made \o TileMapBuffers)
      BY <1>4, <2>2 DEF NewTileMap
    <3>2. Among("imageIdBuffer", TileMapBuffers)
      BY DEF Among, TileMapBuffers
    <3>3. made \in Seq(Member) /\ TileMapBuffers \in Seq(Member)
      BY TileMapAreMembers DEF TileMapBuffers
    <3>4. Among("imageIdBuffer", made \o TileMapBuffers)
      BY <3>2, <3>3, AmongConcat
    <3>5. \A f \in {"imageIdBuffer"} : Live(f)'
      BY <3>1, <3>4, StaysLive, UsesAreMembers
    <3> QED BY <2>2, <3>5 DEF LiveInv
  <2> QED BY <2>1, <2>2
<1>5. CASE LoadTextures
  <2>1. CASE pc' # "RendererInit"
    BY <1>2, <1>5, <2>1 DEF LoadTextures
  <2>2. CASE pc' = "RendererInit"
    <3>1. Generate(<<"texture">>) /\ pc = "LoadTextures"
      BY <1>5, <2>2 DEF LoadTextures
    <3>2. {"imageIdBuffer", "texture"} \in SUBSET Member
      BY UsesAreMembers DEF RenderUses
    <3>3. \A f \in {"imageIdBuffer", "texture"} : Among(f, <<"texture">>) \/ Live(f)
      BY <3>1 DEF LiveInv, Among
    <3>4. \A f \in {"imageIdBuffer", "texture"} : Live(f)'
      BY <3>1, <3>2, <3>3, StaysLive
    <3> QED BY <2>2, <3>4 DEF LiveInv
  <2> QED BY <2>1, <2>2
<1>6. CASE RendererInit
  <2>1. CASE pc' # "LoadModelShader"
    BY <1>2, <1>6, <2>1 DEF RendererInit
  <2>2. CASE pc' = "LoadModelShader"
    <3> DEFINE fs == RendererShaders(debug) \o HardMembers \o SoftMembers
               S  == RenderUses(debug) \cup {"imageIdBuffer"}
    <3>1. Generate(fs) /\ pc = "RendererInit" /\ debug' = debug
      BY <1>6, <2>2 DEF RendererInit
    <3>2. \A f \in S : Among(f, fs) \/ Live(f)
      BY <3>1, RendererMakesAll DEF LiveInv
    <3>3. \A f \in S : Live(f)'
      BY <3>1, <3>2, UsesAreMembers, StaysLive
    <3>4. RenderUses(debug)' = RenderUses(debug) /\ "texture" \in S
      BY <3>1 DEF RenderUses
    <3> QED BY <2>2, <3>3, <3>4 DEF LiveInv
  <2> QED BY <2>1, <2>2
<1>7. CASE LoadModelShader
  <2>1. CASE pc' # "PollEvents"
    BY <1>2, <1>7, <2>1 DEF LoadModelShader
  <2>2. CASE pc' = "PollEvents"
    <3> DEFINE S == RenderUses(debug) \cup {"imageIdBuffer"}
    <3>1. Generate(<<"modelShader">>) /\ pc = "LoadModelShader" /\ debug' = debug
      BY <1>7, <2>2 DEF LoadModelShader
    <3>2. \A f \in S : Live(f)
      BY <3>1 DEF LiveInv
    <3>3. \A f \in S : Live(f)'
      BY <3>1, <3>2, UsesAreMembers, StaysLive
    <3>4. RenderUses(debug)' = RenderUses(debug) /\ "texture" \in S
      BY <3>1 DEF RenderUses
    <3> QED BY <2>2, <3>3, <3>4 DEF LiveInv
  <2> QED BY <2>1, <2>2
<1>8. CASE PollEvent \/ NoEvent \/ Frame \/ PostEvent \/ UNCHANGED vars
  <2>1. Same
    BY <1>8 DEF PollEvent, NoEvent, Frame, PostEvent, vars, mainVars, glVars
  <2>2. pc' = pc \/ (pc \in {"PollEvents", "Frame"} /\ pc' \in {"Frame", "PollEvents"})
        \/ pc' \notin Run \ {"RendererTerm"}
    BY <1>8 DEF PollEvent, NoEvent, Frame, PostEvent, vars, mainVars
  <2> QED BY <2>1, <2>2, <1>1
<1>9. CASE RendererTerm \/ DestroyTileMap \/ DestroyPhysics \/ DestroyWindow \/ LeaveTry
           \/ Deinit
  BY <1>2, <1>9 DEF RendererTerm, DestroyTileMap, DestroyPhysics, DestroyWindow, LeaveTry,
                    Deinit
<1> QED
  BY <1>3, <1>4, <1>5, <1>6, <1>7, <1>8, <1>9 DEF Next, Main

(* Each step finds built, and live, what it relies on, on every path through *)
(* main and Window::run.                                                     *)
THEOREM EngineInvariant == Spec => []EngineInv
<1>1. EngineInv /\ [Next]_vars => EngineInv'
  BY ControlStep, LiveStep DEF EngineInv
<1> QED BY InitEstablishes, <1>1, PTL DEF Spec

(* Whatever throws, and wherever: TileMap's destructor finds the OpenGL      *)
(* context, the physics engine's finds the logger, and the context has a     *)
(* Window to delete it.                                                      *)
THEOREM DestructorsAreServed == Spec => []DestructorsFindTheirServices
<1>1. EngineInv => DestructorsFindTheirServices
  BY DEF EngineInv
<1> QED BY EngineInvariant, <1>1, PTL

(* Window::run draws no frame with an OpenGL object that does not exist,     *)
(* for any names that a driver gives.                                        *)
THEOREM FramesAlwaysUseLiveObjects == Spec => []FramesUseLiveObjects
<1>1. EngineInv => FramesUseLiveObjects
  BY DEF EngineInv, LiveInv, FramesUseLiveObjects, Run
<1> QED BY EngineInvariant, <1>1, PTL

(* main returns only after SDL, the context, PhysFS and the logger have been *)
(* released.                                                                 *)
THEOREM ExitAlwaysOrderly == Spec => []ExitIsOrderly
<1>1. EngineInv => ExitIsOrderly
  BY DEF EngineInv, ControlInv, DestructorsFindTheirServices, ExitIsOrderly
<1> QED BY EngineInvariant, <1>1, PTL

-----------------------------------------------------------------------------
(* Types. *)

(* A kind has a member only if the member is one. *)
LEMMA KindOfMember ==
    ASSUME NEW f \in Member
    PROVE  KindOf(f) \in Kind /\ f \in Members[KindOf(f)]
<1>1. \E k \in Kind : f \in Members[k]
  BY DEF Member
<1> QED BY <1>1 DEF KindOf

(* How many of the first n indices satisfy a condition is a number. *)
LEMMA CountType ==
    ASSUME NEW n \in Int, NEW I \in SUBSET (1 .. n)
    PROVE  Cardinality(I) \in Nat
<1>1. IsFiniteSet(1 .. n)
  BY FS_Interval
<1>2. IsFiniteSet(I)
  BY <1>1, FS_Subset
<1> QED BY <1>2, FS_CardinalityType

(* glGen* gives a name that is a positive number. *)
LEMMA NameType ==
    ASSUME GraphicsTypeOK, NEW fs \in Seq(Member), NEW i \in DOMAIN fs
    PROVE  Name(fs, i) \in Nat \ {0}
<1>1. i \in Nat /\ fs[i] \in Member
  BY ElementOfSeq
<1>2. next[KindOf(fs[i])] \in Nat \ {0}
  BY <1>1, KindOfMember DEF GraphicsTypeOK
<1> DEFINE I == {j \in 1 .. i - 1 : KindOf(fs[j]) = KindOf(fs[i])}
<1>3. i - 1 \in Int /\ I \in SUBSET (1 .. i - 1)
  BY <1>1
<1>4. Cardinality(I) \in Nat
  BY <1>3, CountType
<1> HIDE DEF I
<1>5. next[KindOf(fs[i])] + Cardinality(I) \in Nat \ {0}
  BY <1>2, <1>4
<1> QED BY <1>5 DEF Name, I

(* Generating objects keeps names numbers and objects of a kind. *)
LEMMA GenerateType ==
    ASSUME GraphicsTypeOK, NEW fs \in Seq(Member), Generate(fs)
    PROVE  GraphicsTypeOK'
<1>1. ASSUME NEW f \in Member
      PROVE  member'[f] \in Nat
  <2>1. CASE Among(f, fs)
    <3> DEFINE i == CHOOSE i \in DOMAIN fs : fs[i] = f
    <3>1. i \in DOMAIN fs
      BY <2>1 DEF Among
    <3>2. member'[f] = Name(fs, i)
      BY <2>1 DEF Generate, Among
    <3> HIDE DEF i
    <3> QED BY <3>1, <3>2, NameType
  <2>2. CASE ~ Among(f, fs)
    BY <2>2 DEF Generate, Among, GraphicsTypeOK
  <2> QED BY <2>1, <2>2
<1>2. member' \in [Member -> Nat]
  BY <1>1 DEF Generate
<1>3. ASSUME NEW i \in DOMAIN fs
      PROVE  <<KindOf(fs[i]), Name(fs, i)>> \in Kind \X Nat
  <2>1. fs[i] \in Member
    BY ElementOfSeq
  <2> QED BY <2>1, NameType, KindOfMember
<1>4. objects' \subseteq Kind \X Nat
  BY <1>3 DEF Generate, GraphicsTypeOK
<1>5. ASSUME NEW k \in Kind
      PROVE  next'[k] \in Nat \ {0}
  <2> DEFINE I == {i \in DOMAIN fs : KindOf(fs[i]) = k}
  <2>1. Len(fs) \in Int /\ I \in SUBSET (1 .. Len(fs))
    BY LenProperties
  <2>2. Cardinality(I) \in Nat
    BY <2>1, CountType
  <2>3. next'[k] = next[k] + Cardinality(I)
    BY DEF Generate
  <2> HIDE DEF I
  <2> QED BY <2>2, <2>3 DEF GraphicsTypeOK
<1>6. next' \in [Kind -> Nat \ {0}]
  BY <1>5 DEF Generate
<1> QED BY <1>2, <1>4, <1>6 DEF GraphicsTypeOK

(* The sequences that init and load make objects for, made of members. *)
LEMMA SequencesOfMembers ==
    /\ <<"tileVAO">> \in Seq(Member) /\ <<"tileVAO", "tileShader">> \in Seq(Member)
    /\ TileMapBuffers \in Seq(Member) /\ HardMembers \in Seq(Member)
    /\ SoftMembers \in Seq(Member) /\ <<"tileShader">> \in Seq(Member)
    /\ <<"texture">> \in Seq(Member) /\ <<"modelShader">> \in Seq(Member)
    /\ <<"shaderProgram">> \in Seq(Member)
<1>1. {"texture", "modelShader", "shaderProgram"} \subseteq Member
  BY DEF Member, Kind, Members
<1>2. TileMapBuffers \in Seq(Member)
  BY TileMapAreMembers DEF TileMapBuffers
<1>3. HardMembers \in Seq(Member)
  BY RendererAreMembers DEF HardMembers
<1>4. SoftMembers \in Seq(Member)
  BY RendererAreMembers DEF SoftMembers
<1> QED BY <1>1, <1>2, <1>3, <1>4, TileMapAreMembers

(* The shaders of the renderer. *)
LEMMA ShadersAreMembers ==
    /\ <<"gbufferSpriteShader", "pbrLightingShader", "gbufferBackgroundShader">> \in Seq(Member)
    /\ (IF debug THEN <<"debugShader">> ELSE <<>>) \in Seq(Member)
    /\ RendererShaders(debug) \in Seq(Member)
<1> DEFINE three == <<"gbufferSpriteShader", "pbrLightingShader", "gbufferBackgroundShader">>
           more  == IF debug THEN <<"debugShader">> ELSE <<>>
<1>1. three \in Seq(Member)
  BY TileMapAreMembers
<1>2. <<"debugShader">> \in Seq(Member) /\ <<>> \in Seq(Member)
  BY TileMapAreMembers
<1>3. more \in Seq(Member)
  BY <1>2
<1> HIDE DEF three, more
<1>4. three \o more \in Seq(Member)
  BY <1>1, <1>3, ConcatProperties
<1> QED BY <1>1, <1>3, <1>4 DEF three, more, RendererShaders

(* So is what is made before a shader fails. *)
LEMMA FailedAreMembers ==
    ASSUME NEW shaders \in Seq(Member), NEW fs \in LoadsFailed(shaders)
    PROVE  fs \in Seq(Member)
<1>1. PICK i \in DOMAIN shaders : fs = SubSeq(shaders, 1, i - 1) \o <<"shaderProgram">>
  BY DEF LoadsFailed
<1>2. SubSeq(shaders, 1, i - 1) \in Seq(Member)
  BY SubSeqProperties, <1>1
<1> QED BY <1>1, <1>2, SequencesOfMembers, ConcatProperties

(* A step that generates does so for members. *)
LEMMA GeneratedAreMembers ==
    ASSUME NewTileMap \/ LoadTextures \/ RendererInit \/ LoadModelShader
    PROVE  (\E fs \in Seq(Member) : Generate(fs)) \/ UNCHANGED glVars
<1>1. CASE NewTileMap
  <2>1. <<"tileVAO", "tileShader">> \o TileMapBuffers \in Seq(Member)
    BY SequencesOfMembers, ConcatProperties
  <2>2. ASSUME NEW fs \in LoadsFailed(<<"tileShader">>)
        PROVE  <<"tileVAO">> \o fs \in Seq(Member)
    BY SequencesOfMembers, FailedAreMembers, ConcatProperties
  <2> QED BY <1>1, <2>1, <2>2 DEF NewTileMap
<1>2. CASE LoadTextures
  BY <1>2, SequencesOfMembers DEF LoadTextures
<1>3. CASE RendererInit
  <2>1. RendererShaders(debug) \o HardMembers \in Seq(Member)
    BY SequencesOfMembers, ShadersAreMembers, ConcatProperties
  <2>2. RendererShaders(debug) \o HardMembers \o SoftMembers \in Seq(Member)
    BY <2>1, SequencesOfMembers, ConcatProperties
  <2> QED BY <1>3, <2>2, ShadersAreMembers, FailedAreMembers DEF RendererInit
<1>4. CASE LoadModelShader
  BY <1>4, SequencesOfMembers, FailedAreMembers DEF LoadModelShader
<1> QED BY <1>1, <1>2, <1>3, <1>4

(* Deleting, or leaving OpenGL alone, keeps the types of its names. *)
LEMMA DeleteType ==
    ASSUME GraphicsTypeOK, (\E names : Delete(names)) \/ UNCHANGED glVars
    PROVE  GraphicsTypeOK'
BY DEF GraphicsTypeOK, Delete, glVars

(* The OpenGL part of the type invariant, step by step. *)
LEMMA GraphicsTypeStep ==
    ASSUME GraphicsTypeOK, [Next]_vars
    PROVE  GraphicsTypeOK'
<1>1. CASE NewTileMap \/ LoadTextures \/ RendererInit \/ LoadModelShader
  BY <1>1, GeneratedAreMembers, GenerateType, DeleteType
<1>2. CASE RendererTerm \/ DestroyTileMap \/ DestroyWindow
  <2>1. \E names : Delete(names)
    BY <1>2 DEF RendererTerm, DestroyTileMap, DestroyWindow
  <2> QED BY <2>1, DeleteType
<1>3. CASE LoadFile \/ LoggingInit \/ SetupPhysFS \/ NewWindow \/ LoadGameConfig
           \/ OpenWindow \/ StartGame \/ PollEvent \/ NoEvent \/ Frame \/ PostEvent
           \/ DestroyPhysics \/ LeaveTry \/ Deinit \/ UNCHANGED vars
  <2>1. UNCHANGED glVars
    BY <1>3 DEF LoadFile, LoggingInit, SetupPhysFS, NewWindow, LoadGameConfig, OpenWindow,
                StartGame, PollEvent, NoEvent, Frame, PostEvent, DestroyPhysics, LeaveTry,
                Deinit, vars
  <2> QED BY <2>1, DeleteType
<1> QED BY <1>1, <1>2, <1>3 DEF Next, Main

(* The rest of it: control, services and the queue of events. *)
LEMMA ControlTypeStep ==
    ASSUME TypeOK, [Next]_vars
    PROVE  TypeOK'
<1>0. GraphicsTypeOK'
  BY GraphicsTypeStep DEF TypeOK
<1> USE DEF TypeOK, Step, Scoped, Goto, Throw, Die, Continue, loopVars
<1> HIDE DEF GraphicsTypeOK
<1> DEFINE Passes == \/ pc # "Unwind" /\ pc' \in Step /\ UNCHANGED thrown
                     \/ pc' = "Unwind" /\ thrown' = TRUE
           Others == /\ physfs' \in BOOLEAN /\ context' \in BOOLEAN /\ debug' \in BOOLEAN
                     /\ logger' \in {"null", "console", "dropped"} /\ built' \subseteq Scoped
                     /\ UNCHANGED <<running, events, posted>>
<1>a. ASSUME Passes, Others
      PROVE  TypeOK'
  <2>1. pc' \in Step /\ thrown' \in BOOLEAN /\ (thrown' => pc' = "Unwind")
    <3>1. CASE pc # "Unwind" /\ pc' \in Step /\ UNCHANGED thrown
      <4>1. thrown = FALSE
        BY <3>1
      <4> QED BY <3>1, <4>1
    <3>2. CASE pc' = "Unwind" /\ thrown' = TRUE
      BY <3>2
    <3> QED BY <1>a, <3>1, <3>2
  <2> QED BY <1>0, <1>a, <2>1
<1>1. CASE LoadFile
  <2>1. Passes
    BY <1>1 DEF LoadFile
  <2>2. Others
    BY <1>1 DEF LoadFile
  <2> QED BY <1>a, <2>1, <2>2
<1>2. CASE LoggingInit
  <2>1. Passes
    BY <1>2 DEF LoggingInit
  <2>2. Others
    BY <1>2 DEF LoggingInit
  <2> QED BY <1>a, <2>1, <2>2
<1>3. CASE SetupPhysFS
  BY <1>0, <1>3 DEF SetupPhysFS
<1>4. CASE NewWindow
  <2>1. Passes
    BY <1>4 DEF NewWindow
  <2>2. Others
    BY <1>4 DEF NewWindow
  <2> QED BY <1>a, <2>1, <2>2
<1>5. CASE LoadGameConfig
  <2>1. Passes
    BY <1>5 DEF LoadGameConfig
  <2>2. Others
    BY <1>5 DEF LoadGameConfig
  <2> QED BY <1>a, <2>1, <2>2
<1>6. CASE OpenWindow
  BY <1>0, <1>6 DEF OpenWindow
<1>7. CASE StartGame
  <2>1. Passes
    BY <1>7 DEF StartGame
  <2>2. Others
    BY <1>7 DEF StartGame
  <2> QED BY <1>a, <2>1, <2>2
<1>8. CASE NewTileMap
  <2>1. Passes
    BY <1>8 DEF NewTileMap
  <2>2. Others
    BY <1>8 DEF NewTileMap
  <2> QED BY <1>a, <2>1, <2>2
<1>9. CASE LoadTextures
  <2>1. Passes
    BY <1>9 DEF LoadTextures
  <2>2. Others
    BY <1>9 DEF LoadTextures
  <2> QED BY <1>a, <2>1, <2>2
<1>10. CASE RendererInit
  <2>1. Passes
    BY <1>10 DEF RendererInit
  <2>2. Others
    BY <1>10 DEF RendererInit
  <2> QED BY <1>a, <2>1, <2>2
<1>11. CASE LoadModelShader
  <2>1. Passes
    BY <1>11 DEF LoadModelShader
  <2>2. Others
    BY <1>11 DEF LoadModelShader
  <2> QED BY <1>a, <2>1, <2>2
<1>12. CASE PollEvent
  <2>1. events' \in Seq(Event) /\ running' \in BOOLEAN
    BY <1>12, HeadTailProperties DEF PollEvent
  <2> QED BY <1>0, <1>12, <2>1 DEF PollEvent, mainVars
<1>13. CASE NoEvent
  BY <1>0, <1>13 DEF NoEvent
<1>14. CASE Frame
  BY <1>0, <1>14 DEF Frame
<1>15. CASE RendererTerm
  BY <1>0, <1>15 DEF RendererTerm
<1>16. CASE DestroyTileMap
  BY <1>0, <1>16 DEF DestroyTileMap
<1>17. CASE DestroyPhysics
  BY <1>0, <1>17 DEF DestroyPhysics
<1>18. CASE DestroyWindow
  BY <1>0, <1>18 DEF DestroyWindow
<1>19. CASE LeaveTry
  BY <1>0, <1>19 DEF LeaveTry
<1>20. CASE Deinit
  BY <1>0, <1>20 DEF Deinit
<1>21. CASE PostEvent
  <2>1. events' \in Seq(Event) /\ posted' \in 0 .. MaxEvents
    BY <1>21, AppendProperties, MaxEventsAssumption DEF PostEvent
  <2> QED BY <1>0, <1>21, <2>1 DEF PostEvent, mainVars
<1>22. CASE UNCHANGED vars
  BY <1>0, <1>22 DEF vars, mainVars
<1> QED
  BY <1>1, <1>2, <1>3, <1>4, <1>5, <1>6, <1>7, <1>8, <1>9, <1>10, <1>11, <1>12, <1>13,
     <1>14, <1>15, <1>16, <1>17, <1>18, <1>19, <1>20, <1>21, <1>22 DEF Next, Main

(* On every path every variable has its type, and an exception that is on    *)
(* its way to main's handler is unwinding.                                   *)
THEOREM TypeCorrect == Spec => []TypeOK
<1>1. Init => TypeOK
  <2> SUFFICES ASSUME Init PROVE TypeOK
    OBVIOUS
  <2>1. GraphicsTypeOK
    BY FirstNameAssumption DEF Init, GraphicsInit, GraphicsTypeOK, Unset
  <2> HIDE DEF GraphicsTypeOK
  <2>2. 0 \in 0 .. MaxEvents /\ <<>> \in Seq(Event)
    BY MaxEventsAssumption
  <2> QED BY <2>1, <2>2 DEF Init, TypeOK, Step
<1>2. TypeOK /\ [Next]_vars => TypeOK'
  BY ControlTypeStep
<1> QED BY <1>1, <1>2, PTL DEF Spec

-----------------------------------------------------------------------------
(* Leaks. *)

(* What has been generated when a step is reached, and is not deleted yet. *)
TileMembers == {"tileVAO", "tileShader", "tileVertices", "tileColours", "tileTexcoords",
                "imageIdBuffer", "tileIndices"}
RendererMembers == (RenderUses(debug) \ {"texture"}) \cup {"gbufferBackgroundShader"}

MadeBefore(s) ==
    TileMembers
    \cup (IF s = "LoadTextures" THEN {} ELSE {"texture"})
    \cup (IF s \in {"LoadTextures", "RendererInit"} THEN {} ELSE RendererMembers)
    \cup (IF s \in {"LoadTextures", "RendererInit", "LoadModelShader"} THEN {}
          ELSE {"modelShader"})

ObjectsOf(fs) == {Object(f) : f \in fs}

(* Every OpenGL object is the one of a member, until renderer.term and       *)
(* ~TileMap delete theirs.                                                   *)
LeakInv ==
    /\ pc \in Setup \cup Open => objects = {}
    /\ pc \in Run => objects \subseteq ObjectsOf(MadeBefore(pc)) /\ member["tileShader"] # Unset
    /\ pc = "Unwind" /\ thrown = FALSE =>
          IF "tileMap" \in built
          THEN objects \subseteq ObjectsOf(Abandoned \cup TileMembers)
               /\ member["tileShader"] # Unset
          ELSE objects \subseteq ObjectsOf(Abandoned)

Distinct(fs) == \A i, j \in DOMAIN fs : fs[i] = fs[j] => i = j

(* Concatenation adds nothing, and repeats nothing that the parts do not. *)
LEMMA DistinctConcat ==
    ASSUME NEW s \in Seq(Member), NEW t \in Seq(Member), Distinct(s), Distinct(t),
           \A f : ~ (Among(f, s) /\ Among(f, t))
    PROVE  /\ s \o t \in Seq(Member) /\ Distinct(s \o t)
           /\ \A f : Among(f, s \o t) => Among(f, s) \/ Among(f, t)
<1>1. /\ s \o t \in Seq(Member)
      /\ Len(s \o t) = Len(s) + Len(t)
      /\ \A i \in 1 .. Len(s) : (s \o t)[i] = s[i]
      /\ \A i \in 1 .. Len(t) : (s \o t)[Len(s) + i] = t[i]
      /\ DOMAIN (s \o t) = 1 .. Len(s) + Len(t)
  BY ConcatProperties, LenProperties
<1>2. ASSUME NEW i \in DOMAIN (s \o t)
      PROVE  \/ i \in DOMAIN s /\ (s \o t)[i] = s[i]
             \/ i - Len(s) \in DOMAIN t /\ (s \o t)[i] = t[i - Len(s)]
  <2>1. CASE i <= Len(s)
    BY <1>1, <2>1, LenProperties
  <2>2. CASE i > Len(s)
    <3>1. i - Len(s) \in 1 .. Len(t) /\ Len(s) + (i - Len(s)) = i
      BY <1>1, <2>2, LenProperties
    <3> QED BY <1>1, <3>1, LenProperties
  <2> QED BY <1>1, <2>1, <2>2, LenProperties
<1>3. ASSUME NEW i \in DOMAIN (s \o t), NEW j \in DOMAIN (s \o t),
             (s \o t)[i] = (s \o t)[j]
      PROVE  i = j
  <2>1. i \in Int /\ j \in Int /\ Len(s) \in Nat
    BY <1>1, LenProperties
  <2>2. CASE i \in DOMAIN s /\ j \in DOMAIN s
             /\ (s \o t)[i] = s[i] /\ (s \o t)[j] = s[j]
    BY <1>3, <2>2 DEF Distinct
  <2>3. CASE i - Len(s) \in DOMAIN t /\ j - Len(s) \in DOMAIN t
             /\ (s \o t)[i] = t[i - Len(s)] /\ (s \o t)[j] = t[j - Len(s)]
    <3>1. i - Len(s) = j - Len(s)
      BY <1>3, <2>3 DEF Distinct
    <3> QED BY <2>1, <3>1
  <2> QED BY <1>2, <1>3, <2>2, <2>3 DEF Among
<1>4. ASSUME NEW f, Among(f, s \o t)
      PROVE  Among(f, s) \/ Among(f, t)
  BY <1>2, <1>4 DEF Among
<1> QED BY <1>1, <1>3, <1>4 DEF Distinct

(* Generating for distinct members that had no object adds their objects     *)
(* and no other.                                                             *)
LEMMA GenerateOnly ==
    ASSUME NEW fs \in Seq(Member), Distinct(fs), Generate(fs),
           NEW S \in SUBSET Member, \A f \in S : ~ Among(f, fs),
           objects \subseteq ObjectsOf(S),
           NEW T, \A f : f \in S \/ Among(f, fs) => f \in T
    PROVE  /\ objects' \subseteq {<<KindOf(f), member'[f]>> : f \in T}
           /\ \A f \in S : member'[f] = member[f]
<1>1. \A f \in S : member'[f] = member[f]
  BY DEF Generate, Among
<1>2. ASSUME NEW o \in objects
      PROVE  o \in {<<KindOf(f), member'[f]>> : f \in T}
  <2>1. PICK f \in S : o = <<KindOf(f), member[f]>>
    BY DEF ObjectsOf, Object
  <2> QED BY <1>1, <2>1
<1>3. ASSUME NEW i \in DOMAIN fs
      PROVE  <<KindOf(fs[i]), Name(fs, i)>> \in {<<KindOf(f), member'[f]>> : f \in T}
  <2> DEFINE j == CHOOSE j \in DOMAIN fs : fs[j] = fs[i]
  <2>1. j \in DOMAIN fs /\ fs[j] = fs[i]
    OBVIOUS
  <2>2. j = i
    BY <2>1 DEF Distinct
  <2>3. fs[i] \in Member /\ Among(fs[i], fs)
    BY ElementOfSeq DEF Among
  <2>4. member'[fs[i]] = Name(fs, j)
    BY <2>3 DEF Generate, Among
  <2>5. fs[i] \in T /\ member'[fs[i]] = Name(fs, i)
    BY <2>2, <2>3, <2>4
  <2> HIDE DEF j
  <2>6. \E f \in T : <<KindOf(fs[i]), Name(fs, i)>> = <<KindOf(f), member'[f]>>
    BY <2>5
  <2> QED BY <2>6
<1>4. objects' = objects \cup {<<KindOf(fs[i]), Name(fs, i)>> : i \in DOMAIN fs}
  BY DEF Generate
<1>5. ASSUME NEW o \in objects'
      PROVE  o \in {<<KindOf(f), member'[f]>> : f \in T}
  <2>1. CASE o \in objects
    BY <1>2, <2>1
  <2>2. CASE o \notin objects
    <3>1. PICK i \in DOMAIN fs : o = <<KindOf(fs[i]), Name(fs, i)>>
      BY <1>4, <2>2
    <3> QED BY <1>3, <3>1
  <2> QED BY <2>1, <2>2
<1> QED BY <1>1, <1>5

(* What TileMap's constructor and init make: each of its members once. *)
LEMMA TileMapMakes ==
    LET fs == <<"tileVAO", "tileShader">> \o TileMapBuffers
    IN  /\ fs \in Seq(Member) /\ Distinct(fs) /\ Among("tileShader", fs)
        /\ \A f : Among(f, fs) => f \in TileMembers
<1> DEFINE two == <<"tileVAO", "tileShader">>
<1>1. two \in Seq(Member) /\ TileMapBuffers \in Seq(Member)
  BY SequencesOfMembers
<1>2. Distinct(two) /\ Distinct(TileMapBuffers)
  BY DEF Distinct, TileMapBuffers
<1>3. \A f : Among(f, two) => f \in {"tileVAO", "tileShader"}
  BY DEF Among
<1>4. \A f : Among(f, TileMapBuffers) => f \in TileMembers \ {"tileVAO", "tileShader"}
  BY DEF Among, TileMapBuffers, TileMembers
<1>5. Among("tileShader", two)
  BY DEF Among
<1> HIDE DEF two
<1>6. Among("tileShader", two \o TileMapBuffers)
  BY <1>1, <1>5, AmongConcat
<1>7. /\ two \o TileMapBuffers \in Seq(Member) /\ Distinct(two \o TileMapBuffers)
      /\ \A f : Among(f, two \o TileMapBuffers) => Among(f, two) \/ Among(f, TileMapBuffers)
  BY <1>1, <1>2, <1>3, <1>4, DistinctConcat
<1> QED BY <1>3, <1>4, <1>6, <1>7 DEF two, TileMembers

(* What DeferredRenderer::init makes: each of its members once. *)
LEMMA RendererMakes ==
    LET fs == RendererShaders(debug) \o HardMembers \o SoftMembers
    IN  /\ fs \in Seq(Member) /\ Distinct(fs)
        /\ \A f : Among(f, fs) => f \in RendererMembers
<1> DEFINE three == <<"gbufferSpriteShader", "pbrLightingShader", "gbufferBackgroundShader">>
           more  == IF debug THEN <<"debugShader">> ELSE <<>>
           Hard  == {"quadVAO", "quadVBO", "matrices_ubo", "spriteVAO", "spriteVertices",
                     "spriteTexcoords", "tbo", "tbo_tex"}
           Soft  == {"gBuffer", "gBufferPosition", "gBufferNormal", "gBufferAlbedo",
                     "gBufferDepth"}
           Three == {"gbufferSpriteShader", "pbrLightingShader", "gbufferBackgroundShader"}
           More  == IF debug THEN {"debugShader"} ELSE {}
<1>1. three \in Seq(Member) /\ more \in Seq(Member)
  BY ShadersAreMembers
<1>2. HardMembers \in Seq(Member) /\ SoftMembers \in Seq(Member)
  BY SequencesOfMembers
<1>3. Distinct(three) /\ Distinct(HardMembers) /\ Distinct(SoftMembers)
  BY DEF Distinct, HardMembers, SoftMembers
<1>4. Distinct(more)
  BY DEF Distinct
<1>5. (\A f : Among(f, three) => f \in Three) /\ (\A f : Among(f, more) => f \in More)
  BY DEF Among
<1>6. \A f : Among(f, HardMembers) => f \in Hard
  BY DEF Among, HardMembers
<1>7. \A f : Among(f, SoftMembers) => f \in Soft
  BY DEF Among, SoftMembers
<1>8. Three \cap More = {} /\ (Three \cup More) \cap Hard = {}
      /\ (Three \cup More \cup Hard) \cap Soft = {}
  OBVIOUS
<1>9. Three \cup More \cup Hard \cup Soft \subseteq RendererMembers
  BY DEF RendererMembers, RenderUses
<1>10. RendererShaders(debug) = three \o more
  BY DEF RendererShaders
<1> HIDE DEF three, more, Three, More, Hard, Soft
<1>11. /\ three \o more \in Seq(Member) /\ Distinct(three \o more)
       /\ \A f : Among(f, three \o more) => f \in Three \cup More
  BY <1>1, <1>3, <1>4, <1>5, <1>8, DistinctConcat
<1>12. /\ three \o more \o HardMembers \in Seq(Member)
       /\ Distinct(three \o more \o HardMembers)
       /\ \A f : Among(f, three \o more \o HardMembers) => f \in Three \cup More \cup Hard
  BY <1>2, <1>3, <1>6, <1>8, <1>11, DistinctConcat
<1>13. /\ three \o more \o HardMembers \o SoftMembers \in Seq(Member)
       /\ Distinct(three \o more \o HardMembers \o SoftMembers)
       /\ \A f : Among(f, three \o more \o HardMembers \o SoftMembers) =>
                    f \in Three \cup More \cup Hard \cup Soft
  BY <1>2, <1>3, <1>7, <1>8, <1>12, DistinctConcat
<1> QED BY <1>9, <1>10, <1>13

(* The kinds of the members that are not deleted through Object. *)
LEMMA KindsDeletedByName ==
    KindOf("matrices_ubo") = "buffer" /\ KindOf("tileShader") = "program"
<1>1. {"matrices_ubo", "tileShader"} \subseteq Member
  BY TileMapAreMembers, RendererAreMembers
<1>2. \A k \in Kind : "matrices_ubo" \in Members[k] => k = "buffer"
  BY DEF Kind, Members
<1>3. \A k \in Kind : "tileShader" \in Members[k] => k = "program"
  BY DEF Kind, Members
<1> QED BY <1>1, <1>2, <1>3, KindOfMember

(* A member set of the engine is one of members. *)
LEMMA MadeAreMembers ==
    /\ TileMembers \subseteq Member /\ {"texture", "modelShader"} \subseteq Member
    /\ RendererMembers \subseteq Member
<1>1. TileMembers \subseteq Member
  BY TileMapAreMembers DEF TileMembers
<1>2. {"texture", "modelShader"} \subseteq Member
  BY DEF Member, Kind, Members
<1>3. RendererMembers \subseteq Member
  BY UsesAreMembers, TileMapAreMembers DEF RendererMembers
<1> QED BY <1>1, <1>2, <1>3

(* Each step of Window::run makes objects for its own members only, and      *)
(* renderer.term and ~TileMap delete all but the abandoned ones.             *)
LEMMA LeakStep ==
    ASSUME TypeOK, ControlInv, LeakInv, [Next]_vars
    PROVE  LeakInv'
<1> USE DEF Setup, Open, Run, Goto, Throw, Die, Continue
<1>1. ASSUME pc' \notin Setup \cup Open \cup Run, pc' # "Unwind" \/ thrown' = TRUE
      PROVE  LeakInv'
  BY <1>1 DEF LeakInv
<1>2. ASSUME UNCHANGED <<member, objects, debug, thrown, built>>,
             \/ pc' = pc
             \/ pc \in Setup \cup Open /\ pc' \in Setup \cup Open
             \/ {pc, pc'} \subseteq {"PollEvents", "Frame", "RendererTerm"}
      PROVE  LeakInv'
  <2>1. ObjectsOf(MadeBefore(pc))' = ObjectsOf(MadeBefore(pc'))
    BY <1>2 DEF ObjectsOf, MadeBefore, RendererMembers, RenderUses, Object
  <2>2. CASE pc' = pc
    BY <1>2, <2>1, <2>2 DEF LeakInv, ObjectsOf, Object
  <2>3. CASE pc \in Setup \cup Open /\ pc' \in Setup \cup Open
    BY <1>2, <2>3 DEF LeakInv
  <2>4. CASE {pc, pc'} \subseteq {"PollEvents", "Frame", "RendererTerm"}
    <3>1. MadeBefore(pc') = MadeBefore(pc)
      BY <2>4 DEF MadeBefore
    <3> QED BY <1>2, <2>1, <2>4, <3>1 DEF LeakInv
  <2> QED BY <1>2, <2>2, <2>3, <2>4
<1>3. CASE LoadFile \/ LoggingInit \/ SetupPhysFS \/ LoadGameConfig \/ StartGame
  <2>1. CASE pc' \in Setup \cup Open
    <3>1. objects' = {}
      BY <1>3, <2>1 DEF LoadFile, LoggingInit, SetupPhysFS, LoadGameConfig, StartGame,
                        LeakInv, glVars
    <3> QED BY <2>1, <3>1 DEF LeakInv
  <2>2. CASE pc' \notin Setup \cup Open
    <3>1. pc' \notin Run /\ (pc' # "Unwind" \/ thrown' = TRUE)
      BY <1>3, <2>2 DEF LoadFile, LoggingInit, SetupPhysFS, LoadGameConfig, StartGame
    <3> QED BY <1>1, <2>2, <3>1
  <2> QED BY <2>1, <2>2
<1>4. CASE NewWindow \/ OpenWindow
  <2>1. objects' = {}
    BY <1>4 DEF NewWindow, OpenWindow, LeakInv, glVars
  <2>2. pc' \in Setup \cup Open \cup {"Unwind"} /\ (pc' # "Unwind" \/ thrown' = TRUE)
    BY <1>4 DEF NewWindow, OpenWindow
  <2> QED BY <1>1, <2>1, <2>2 DEF LeakInv
<1>5. CASE PollEvent \/ NoEvent \/ Frame \/ PostEvent \/ UNCHANGED vars
  <2>1. UNCHANGED <<member, objects, debug, thrown, built>>
    BY <1>5 DEF PollEvent, NoEvent, Frame, PostEvent, vars, mainVars, glVars
  <2>2. \/ pc' = pc
        \/ {pc, pc'} \subseteq {"PollEvents", "Frame", "RendererTerm"}
    BY <1>5 DEF PollEvent, NoEvent, Frame, PostEvent, vars, mainVars
  <2> QED BY <1>2, <2>1, <2>2
<1>6. CASE LeaveTry \/ Deinit
  <2>1. pc' \in {"Deinit", "Exited"}
    BY <1>6 DEF LeaveTry, Deinit
  <2> QED BY <1>1, <2>1
<1>7. CASE DestroyPhysics
  <2>1. "tileMap" \notin built /\ "tileMap" \notin built' /\ pc' = pc /\ pc = "Unwind"
        /\ UNCHANGED <<member, objects, thrown>>
    BY <1>7 DEF DestroyPhysics, glVars
  <2> QED BY <2>1 DEF LeakInv, ObjectsOf, Object
<1>8. CASE DestroyWindow
  <2>1. objects' = {} /\ pc' = "Unwind" /\ "tileMap" \notin built'
    BY <1>8 DEF DestroyWindow, Delete
  <2> QED BY <2>1 DEF LeakInv
<1>9. ASSUME pc' \in Run, debug' = debug,
             objects' \subseteq {<<KindOf(f), member'[f]>> : f \in MadeBefore(pc')},
             member'["tileShader"] # Unset
      PROVE  LeakInv'
  <2>1. MadeBefore(pc)' = MadeBefore(pc')
    BY <1>9 DEF MadeBefore, RendererMembers, RenderUses
  <2>2. ObjectsOf(MadeBefore(pc))' = {<<KindOf(f), member'[f]>> : f \in MadeBefore(pc')}
    BY <2>1 DEF ObjectsOf, Object, KindOf
  <2> QED BY <1>9, <2>2 DEF LeakInv
<1>10. ASSUME NEW fs \in Seq(Member), Distinct(fs), Generate(fs), pc \in Run, pc' \in Run,
              debug' = debug,
              \A f \in MadeBefore(pc) : ~ Among(f, fs),
              \A f : f \in MadeBefore(pc) \/ Among(f, fs) => f \in MadeBefore(pc')
       PROVE  LeakInv'
  <2>1. objects \subseteq ObjectsOf(MadeBefore(pc)) /\ member["tileShader"] # Unset
    BY <1>10 DEF LeakInv
  <2>2. MadeBefore(pc) \in SUBSET Member /\ "tileShader" \in MadeBefore(pc)
    BY MadeAreMembers DEF MadeBefore, TileMembers
  <2>3. /\ objects' \subseteq {<<KindOf(f), member'[f]>> : f \in MadeBefore(pc')}
        /\ \A f \in MadeBefore(pc) : member'[f] = member[f]
    BY <1>10, <2>1, <2>2, GenerateOnly
  <2> QED BY <1>9, <1>10, <2>1, <2>2, <2>3
<1>11. CASE NewTileMap
  <2>1. CASE pc' # "LoadTextures"
    <3>1. pc' \in {"Crashed", "Unwind"} /\ (pc' # "Unwind" \/ thrown' = TRUE)
      BY <1>11, <2>1 DEF NewTileMap
    <3> QED BY <1>1, <3>1
  <2>2. CASE pc' = "LoadTextures"
    <3> DEFINE fs == <<"tileVAO", "tileShader">> \o TileMapBuffers
    <3>1. Generate(fs) /\ pc = "NewTileMap" /\ debug' = debug
      BY <1>11, <2>2 DEF NewTileMap
    <3>2. /\ fs \in Seq(Member) /\ Distinct(fs) /\ Among("tileShader", fs)
          /\ \A f : Among(f, fs) => f \in TileMembers
      BY TileMapMakes
    <3> HIDE DEF fs
    <3>3. objects \subseteq ObjectsOf({})
      BY <3>1 DEF LeakInv
    <3>4. objects' \subseteq {<<KindOf(f), member'[f]>> : f \in TileMembers}
      <4>1. {} \in SUBSET Member /\ \A f \in {} : ~ Among(f, fs)
        OBVIOUS
      <4>2. \A f : f \in {} \/ Among(f, fs) => f \in TileMembers
        BY <3>2
      <4>3. Generate(fs) /\ fs \in Seq(Member) /\ Distinct(fs)
        BY <3>1, <3>2
      <4> QED BY <3>3, <4>1, <4>2, <4>3, GenerateOnly
    <3>5. MadeBefore(pc') = TileMembers
      BY <2>2 DEF MadeBefore
    <3>6. member'["tileShader"] # Unset
      <4> DEFINE i == CHOOSE i \in DOMAIN fs : fs[i] = "tileShader"
      <4>1. i \in DOMAIN fs
        BY <3>2 DEF Among
      <4>2. member'["tileShader"] = Name(fs, i)
        BY <3>1, <3>2, TileMapAreMembers DEF Generate, Among
      <4> HIDE DEF i
      <4> QED BY <3>2, <4>1, <4>2, NameType DEF TypeOK, Unset
    <3> QED BY <1>9, <2>2, <3>1, <3>4, <3>5, <3>6
  <2> QED BY <2>1, <2>2
<1>12. CASE LoadTextures
  <2>1. CASE pc' # "RendererInit"
    <3>1. pc' \in {"Terminated", "Crashed"}
      BY <1>12, <2>1 DEF LoadTextures
    <3> QED BY <1>1, <3>1
  <2>2. CASE pc' = "RendererInit"
    <3>1. Generate(<<"texture">>) /\ pc = "LoadTextures" /\ debug' = debug
      BY <1>12, <2>2 DEF LoadTextures
    <3>2. Distinct(<<"texture">>) /\ \A f : Among(f, <<"texture">>) <=> f = "texture"
      BY DEF Distinct, Among
    <3>3. MadeBefore(pc) = TileMembers /\ MadeBefore(pc') = TileMembers \cup {"texture"}
      BY <2>2, <3>1 DEF MadeBefore
    <3>4. "texture" \notin TileMembers
      BY DEF TileMembers
    <3> QED BY <1>10, <2>2, <3>1, <3>2, <3>3, <3>4, SequencesOfMembers
  <2> QED BY <2>1, <2>2
<1>13. CASE RendererInit
  <2>1. CASE pc' # "LoadModelShader"
    <3>1. pc' = "Unwind" /\ thrown' = TRUE
      BY <1>13, <2>1 DEF RendererInit
    <3> QED BY <1>1, <3>1
  <2>2. CASE pc' = "LoadModelShader"
    <3> DEFINE fs == RendererShaders(debug) \o HardMembers \o SoftMembers
    <3>1. Generate(fs) /\ pc = "RendererInit" /\ debug' = debug
      BY <1>13, <2>2 DEF RendererInit
    <3>2. /\ fs \in Seq(Member) /\ Distinct(fs)
          /\ \A f : Among(f, fs) => f \in RendererMembers
      BY RendererMakes
    <3> HIDE DEF fs
    <3>3. /\ MadeBefore(pc) = TileMembers \cup {"texture"}
          /\ MadeBefore(pc') = TileMembers \cup {"texture"} \cup RendererMembers
      BY <2>2, <3>1 DEF MadeBefore
    <3>4. (TileMembers \cup {"texture"}) \cap RendererMembers = {}
      BY DEF TileMembers, RendererMembers, RenderUses
    <3> QED BY <1>10, <2>2, <3>1, <3>2, <3>3, <3>4
  <2> QED BY <2>1, <2>2
<1>14. CASE LoadModelShader
  <2>1. CASE pc' # "PollEvents"
    <3>1. pc' = "Unwind" /\ thrown' = TRUE
      BY <1>14, <2>1 DEF LoadModelShader
    <3> QED BY <1>1, <3>1
  <2>2. CASE pc' = "PollEvents"
    <3>1. Generate(<<"modelShader">>) /\ pc = "LoadModelShader" /\ debug' = debug
      BY <1>14, <2>2 DEF LoadModelShader
    <3>2. Distinct(<<"modelShader">>) /\ \A f : Among(f, <<"modelShader">>) <=> f = "modelShader"
      BY DEF Distinct, Among
    <3>3. /\ MadeBefore(pc) = TileMembers \cup {"texture"} \cup RendererMembers
          /\ MadeBefore(pc') = MadeBefore(pc) \cup {"modelShader"}
      BY <2>2, <3>1 DEF MadeBefore
    <3>4. "modelShader" \notin TileMembers \cup {"texture"} \cup RendererMembers
      BY DEF TileMembers, RendererMembers, RenderUses
    <3>5. /\ \A f \in MadeBefore(pc) : ~ Among(f, <<"modelShader">>)
          /\ \A f : f \in MadeBefore(pc) \/ Among(f, <<"modelShader">>) => f \in MadeBefore(pc')
      BY <3>2, <3>3, <3>4
    <3>6. <<"modelShader">> \in Seq(Member) /\ Distinct(<<"modelShader">>)
      BY <3>2, SequencesOfMembers
    <3> QED BY <1>10, <2>2, <3>1, <3>5, <3>6
  <2> QED BY <2>1, <2>2
<1>15. CASE RendererTerm
  <2> DEFINE gone == SoftDeleted \cup HardDeleted(debug) \cup {Object("texture")}
  <2>1. /\ objects' = objects \ gone /\ pc = "RendererTerm" /\ pc' = "Unwind"
        /\ UNCHANGED <<member, built, debug>> /\ "tileMap" \in built
    BY <1>15 DEF RendererTerm, Delete, ControlInv, Scoped
  <2>2. /\ objects \subseteq ObjectsOf(MadeBefore("RendererTerm"))
        /\ member["tileShader"] # Unset
    BY <2>1 DEF LeakInv
  <2>3. \A f \in MadeBefore("RendererTerm") :
            \/ f \in Abandoned \cup TileMembers
            \/ f \in {"matrices_ubo", "texture"}
            \/ f \in {"spriteVAO", "spriteVertices", "spriteTexcoords", "quadVAO",
                      "gbufferSpriteShader", "pbrLightingShader"}
            \/ debug /\ f = "debugShader"
    BY DEF MadeBefore, RendererMembers, RenderUses, Abandoned
  <2>4. Object("matrices_ubo") \in SoftDeleted
    BY KindsDeletedByName DEF SoftDeleted, Object
  <2>5. \A f \in MadeBefore("RendererTerm") :
            f \in Abandoned \cup TileMembers \/ Object(f) \in gone
    BY <2>3, <2>4 DEF HardDeleted
  <2> HIDE DEF gone
  <2>6. objects' \subseteq ObjectsOf(Abandoned \cup TileMembers)
    BY <2>1, <2>2, <2>5 DEF ObjectsOf
  <2>7. ObjectsOf(Abandoned \cup TileMembers)' = ObjectsOf(Abandoned \cup TileMembers)
    BY <2>1 DEF ObjectsOf, Object, KindOf, Abandoned, TileMembers
  <2> QED BY <2>1, <2>2, <2>6, <2>7 DEF LeakInv
<1>16. CASE DestroyTileMap
  <2>1. /\ pc = "Unwind" /\ pc' = "Unwind" /\ thrown' = thrown /\ member' = member
        /\ "tileMap" \in built /\ "tileMap" \notin built'
    BY <1>16 DEF DestroyTileMap, Delete
  <2>2. CASE thrown = FALSE
    <3>1. objects \subseteq ObjectsOf(Abandoned \cup TileMembers) /\ member["tileShader"] # Unset
      BY <2>1, <2>2 DEF LeakInv
    <3> DEFINE gone == {Object(f) : f \in {"tileVAO", "tileVertices", "tileColours",
                                          "tileTexcoords", "imageIdBuffer", "tileIndices"}}
    <3>2. objects' = objects \ ({<<"program", member["tileShader"]>>} \cup gone)
      BY <1>16, <3>1 DEF DestroyTileMap, Delete
    <3>3. Object("tileShader") = <<"program", member["tileShader"]>>
      BY KindsDeletedByName DEF Object
    <3>4. \A f \in TileMembers : Object(f) \in {<<"program", member["tileShader"]>>} \cup gone
      BY <3>3 DEF TileMembers
    <3> HIDE DEF gone
    <3>5. objects' \subseteq ObjectsOf(Abandoned)
      BY <3>1, <3>2, <3>4 DEF ObjectsOf
    <3>6. ObjectsOf(Abandoned)' = ObjectsOf(Abandoned)
      BY <2>1 DEF ObjectsOf, Object, KindOf, Abandoned
    <3> QED BY <2>1, <3>5, <3>6 DEF LeakInv
  <2>3. CASE thrown # FALSE
    BY <2>1, <2>3 DEF LeakInv
  <2> QED BY <2>2, <2>3
<1> QED
  BY <1>3, <1>4, <1>5, <1>6, <1>7, <1>8, <1>11, <1>12, <1>13, <1>14, <1>15, <1>16
     DEF Next, Main

(* When Window::run has returned and the TileMap is gone, the only OpenGL    *)
(* objects left to the context are the ones no destructor knows, for any     *)
(* names that a driver gives.                                                *)
THEOREM LeaksAreOnlyTheKnownOnes == Spec => []OnlyKnownLeaks
<1>1. Init => LeakInv
  BY DEF Init, GraphicsInit, LeakInv, Setup, Run
<1>2. TypeOK /\ EngineInv /\ LeakInv /\ [Next]_vars => LeakInv'
  BY LeakStep DEF EngineInv
<1>3. TypeOK /\ LeakInv => OnlyKnownLeaks
  <2> SUFFICES ASSUME TypeOK, LeakInv, pc = "Unwind", ~ thrown, "tileMap" \notin built
               PROVE  objects \subseteq {Object(f) : f \in Abandoned}
    BY DEF OnlyKnownLeaks
  <2>1. thrown = FALSE
    BY DEF TypeOK
  <2> QED BY <2>1 DEF LeakInv, ObjectsOf
<1> QED BY <1>1, <1>2, <1>3, TypeCorrect, EngineInvariant, PTL DEF Spec

-----------------------------------------------------------------------------
(* The ways out of the loop, as far as they are safety. *)

(* The user has asked to quit, and run has seen it or will. *)
Quitting == ~ running \/ \E i \in DOMAIN events : events[i] \in {"quit", "escape"}

(* The loop does not lose a request, does not run on after a frame in which   *)
(* it has seen one, and ends only because of one.                             *)
QuitIsKept ==
    /\ pc \in {"PollEvents", "Frame"} /\ Quitting => Quitting'
    /\ pc = "PollEvents" /\ pc' = "Frame" /\ Quitting => ~ running'
    /\ pc = "Frame" /\ pc' # pc => pc' = IF running THEN "PollEvents" ELSE "RendererTerm"
    /\ ~ running => ~ running'

(* An event that stays in the queue, or that PollEvent takes. *)
LEMMA PollKeepsQuit ==
    ASSUME TypeOK, PollEvent, Quitting
    PROVE  Quitting'
<1>1. /\ events \in Seq(Event) /\ events # <<>> /\ events' = Tail(events)
      /\ running' = (running /\ Head(events) \notin {"quit", "escape"})
  BY DEF TypeOK, PollEvent
<1>2. CASE ~ running
  BY <1>1, <1>2 DEF Quitting
<1>3. ASSUME NEW i \in DOMAIN events, events[i] \in {"quit", "escape"} PROVE Quitting'
  <2>1. CASE i = 1
    <3>1. Head(events) = events[1]
      BY <1>1
    <3> QED BY <1>1, <1>3, <2>1, <3>1 DEF Quitting
  <2>2. CASE i # 1
    <3>1. i - 1 \in DOMAIN Tail(events) /\ Tail(events)[i - 1] = events[i]
      BY <1>1, <2>2
    <3> QED BY <1>1, <1>3, <3>1 DEF Quitting
  <2> QED BY <2>1, <2>2
<1> QED BY <1>2, <1>3 DEF Quitting

(* An event that is posted goes behind those that wait. *)
LEMMA PostKeepsQuit ==
    ASSUME TypeOK, PostEvent, Quitting
    PROVE  Quitting'
<1>1. PICK e \in Event : events' = Append(events, e)
  BY DEF PostEvent
<1>2. events \in Seq(Event) /\ running' = running
  BY DEF TypeOK, PostEvent
<1>3. ASSUME NEW i \in DOMAIN events
      PROVE  i \in DOMAIN events' /\ events'[i] = events[i]
  BY <1>1, <1>2, <1>3
<1> QED BY <1>2, <1>3 DEF Quitting

(* A quit or an escape that was queued before a frame ends the loop with that  *)
(* frame, whatever is queued behind it, and nothing else does (Window.cpp:537- *)
(* 548 and 738): the part of QuitEndsTheGame that is safety.                   *)
THEOREM QuitIsNeverLost == Spec => [][QuitIsKept]_vars
<1>1. TypeOK /\ [Next]_vars => [QuitIsKept]_vars
  <2> SUFFICES ASSUME TypeOK, Next PROVE QuitIsKept
    OBVIOUS
  <2>1. CASE PollEvent
    <3>1. Quitting => Quitting'
      BY <2>1, PollKeepsQuit
    <3>2. pc = "PollEvents" /\ pc' = pc /\ (~ running => ~ running')
      BY <2>1 DEF PollEvent
    <3> QED BY <3>1, <3>2 DEF QuitIsKept
  <2>2. CASE PostEvent
    <3>1. Quitting => Quitting'
      BY <2>2, PostKeepsQuit
    <3>2. pc' = pc /\ running' = running
      BY <2>2 DEF PostEvent
    <3> QED BY <3>1, <3>2 DEF QuitIsKept
  <2>3. CASE NoEvent
    <3>1. /\ pc = "PollEvents" /\ running' = running /\ events' = events /\ events = <<>>
      BY <2>3 DEF NoEvent, loopVars
    <3>2. DOMAIN events = {}
      BY <3>1
    <3> QED BY <3>1, <3>2 DEF QuitIsKept, Quitting
  <2>4. CASE Frame
    <3>1. /\ pc = "Frame" /\ running' = running /\ events' = events
          /\ pc' = IF running THEN "PollEvents" ELSE "RendererTerm"
      BY <2>4 DEF Frame, loopVars, Continue, Goto
    <3> QED BY <3>1 DEF QuitIsKept, Quitting
  <2>5. CASE pc \notin {"PollEvents", "Frame"} /\ running' = running
    BY <2>5 DEF QuitIsKept
  <2>6. CASE \/ LoadFile \/ LoggingInit \/ SetupPhysFS \/ NewWindow \/ LoadGameConfig
             \/ OpenWindow \/ StartGame \/ NewTileMap \/ LoadTextures \/ RendererInit
    BY <2>5, <2>6 DEF LoadFile, LoggingInit, SetupPhysFS, NewWindow, LoadGameConfig, OpenWindow,
                      StartGame, NewTileMap, LoadTextures, RendererInit, loopVars
  <2>7. CASE \/ LoadModelShader \/ RendererTerm \/ DestroyTileMap \/ DestroyPhysics
             \/ DestroyWindow \/ LeaveTry \/ Deinit
    BY <2>5, <2>7 DEF LoadModelShader, RendererTerm, DestroyTileMap, DestroyPhysics,
                      DestroyWindow, LeaveTry, Deinit, loopVars
  <2> QED BY <2>1, <2>2, <2>3, <2>4, <2>6, <2>7 DEF Next, Main
<1> QED BY <1>1, TypeCorrect, PTL DEF Spec

(* While an exception is on its way main does nothing but destroy what is left *)
(* of the try block, one object at a time, and then take it.                   *)
Unwinds ==
    thrown => \/ thrown' /\ pc' = "Unwind" /\ built' \subseteq built /\ built' # built
              \/ ~ thrown' /\ pc' = "Deinit" /\ built = {}

(* A std::runtime_error, wherever it is thrown, takes the process through the  *)
(* destructors to deinit (main.cpp:106-110): none is thrown on the way and     *)
(* none of them brings the process down.  The part of ExceptionsEndTheGame     *)
(* that is safety.                                                             *)
THEOREM ExceptionsOnlyUnwind == Spec => [][Unwinds]_vars
<1>1. TypeOK /\ [Next]_vars => [Unwinds]_vars
  <2> SUFFICES ASSUME TypeOK, Next, thrown PROVE Unwinds
    BY DEF Unwinds
  <2>1. pc = "Unwind" /\ thrown = TRUE
    BY DEF TypeOK
  <2>2. CASE PostEvent
    BY <2>1, <2>2 DEF PostEvent
  <2>3. CASE DestroyTileMap
    BY <2>1, <2>3 DEF DestroyTileMap, Unwinds
  <2>4. CASE DestroyPhysics
    BY <2>1, <2>4 DEF DestroyPhysics, Unwinds
  <2>5. CASE DestroyWindow
    BY <2>1, <2>5 DEF DestroyWindow, Unwinds
  <2>6. CASE LeaveTry
    BY <2>1, <2>6 DEF LeaveTry, Goto, Unwinds
  <2>7. CASE \/ LoadFile \/ LoggingInit \/ SetupPhysFS \/ NewWindow \/ LoadGameConfig
             \/ OpenWindow \/ StartGame \/ NewTileMap \/ LoadTextures \/ RendererInit
             \/ LoadModelShader \/ PollEvent \/ NoEvent \/ Frame \/ RendererTerm \/ Deinit
    BY <2>1, <2>7 DEF LoadFile, LoggingInit, SetupPhysFS, NewWindow, LoadGameConfig, OpenWindow,
                      StartGame, NewTileMap, LoadTextures, RendererInit, LoadModelShader,
                      PollEvent, NoEvent, Frame, RendererTerm, Deinit
  <2> QED BY <2>2, <2>3, <2>4, <2>5, <2>6, <2>7 DEF Next, Main
<1> QED BY <1>1, TypeCorrect, PTL DEF Spec
=============================================================================
