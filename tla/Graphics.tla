------------------------------ MODULE Graphics ------------------------------
(***************************************************************************)
(* The OpenGL objects of the engine: which names the members of TileMap,   *)
(* SpritePool, Mesh, Shader, DeferredRenderer and Window hold, and which   *)
(* objects exist.  Every kind of object has a name space of its own, so a  *)
(* buffer and a framebuffer may have the same name; glGen* gives the next  *)
(* names of its kind, from a first name that the driver chooses.  (A name  *)
(* is never given twice: the program generates no object of a kind after   *)
(* it deleted one.)  A shader stands for the program and its two stages.   *)
(***************************************************************************)
EXTENDS Naturals, Sequences, FiniteSets

CONSTANT FirstName    \* the names a driver may begin with

ASSUME FirstNameAssumption == FirstName \subseteq Nat \ {0}

Members ==
    [buffer       |-> {"tileVertices", "tileColours", "tileTexcoords", "imageIdBuffer",
                       "tileIndices", "quadVBO", "matrices_ubo", "spriteVertices",
                       "spriteTexcoords", "tbo"},
     vertexArray  |-> {"tileVAO", "quadVAO", "spriteVAO"},
     texture      |-> {"texture", "tbo_tex", "gBufferPosition", "gBufferNormal",
                       "gBufferAlbedo"},
     framebuffer  |-> {"gBuffer"},
     renderbuffer |-> {"gBufferDepth"},
     program      |-> {"tileShader", "gbufferSpriteShader", "pbrLightingShader",
                       "gbufferBackgroundShader", "debugShader", "modelShader",
                       "shaderProgram"}]    \* the local of createShader

Kind    == DOMAIN Members
Member  == UNION {Members[k] : k \in Kind}
KindOf(f) == CHOOSE k \in Kind : f \in Members[k]

Unset == 0    \* a member that was not assigned holds an arbitrary number

VARIABLES
    member,     \* the name each member holds
    objects,    \* the OpenGL objects that exist: <<kind, name>>
    next        \* the next name of each kind

glVars == <<member, objects, next>>

GraphicsTypeOK ==
    /\ member \in [Member -> Nat]
    /\ objects \subseteq Kind \X Nat
    /\ next \in [Kind -> Nat \ {0}]

GraphicsInit ==
    /\ member = [f \in Member |-> Unset]
    /\ objects = {}
    /\ next \in [Kind -> FirstName]

Object(f) == <<KindOf(f), member[f]>>
Live(f)   == Object(f) \in objects

(* glGen* or glCreateProgram for the members fs, in this order. *)
Name(fs, i) ==
    next[KindOf(fs[i])] + Cardinality({j \in 1 .. i - 1 : KindOf(fs[j]) = KindOf(fs[i])})

Generate(fs) ==
    /\ member' = [f \in Member |->
                    IF \E i \in DOMAIN fs : fs[i] = f
                    THEN Name(fs, CHOOSE i \in DOMAIN fs : fs[i] = f)
                    ELSE member[f]]
    /\ objects' = objects \cup {<<KindOf(fs[i]), Name(fs, i)>> : i \in DOMAIN fs}
    /\ next' = [k \in Kind |-> next[k] + Cardinality({i \in DOMAIN fs : KindOf(fs[i]) = k})]

Delete(names) ==
    /\ objects' = objects \ names
    /\ UNCHANGED <<member, next>>

-----------------------------------------------------------------------------
(* Shader::load for several members, one of which fails: it throws after     *)
(* glCreateProgram, and that program is never deleted.                       *)
LoadsFailed(shaders) ==
    {SubSeq(shaders, 1, i - 1) \o <<"shaderProgram">> : i \in DOMAIN shaders}

(* TileMap::TileMap constructs the mesh; TileMap::init adds the buffers. *)
TileMapBuffers ==
    <<"tileVertices", "tileColours", "tileTexcoords", "imageIdBuffer", "tileIndices">>

(* DeferredRenderer::init: the shaders, then the rest.  SpritePool::init is  *)
(* called from it.                                                           *)
RendererShaders(debug) ==
    <<"gbufferSpriteShader", "pbrLightingShader", "gbufferBackgroundShader">>
    \o (IF debug THEN <<"debugShader">> ELSE <<>>)

HardMembers ==
    <<"quadVAO", "quadVBO", "matrices_ubo",
      "spriteVAO", "spriteVertices", "spriteTexcoords", "tbo", "tbo_tex">>

SoftMembers ==
    <<"gBuffer", "gBufferPosition", "gBufferNormal", "gBufferAlbedo", "gBufferDepth">>

(* DeferredRenderer::term: everything goes through glDeleteBuffers. *)
SoftDeleted ==
    {<<"buffer", member[f]>> :
        f \in {"matrices_ubo", "gBuffer", "gBufferDepth", "gBufferPosition",
               "gBufferNormal", "gBufferAlbedo"}}

(* Variant: the pool is not deleted. *)
HardDeletedButPool(debug) ==
    {Object(f) : f \in {"quadVAO", "gbufferSpriteShader", "pbrLightingShader"}
                       \cup (IF debug THEN {"debugShader"} ELSE {})}

(* delete spritePool (its Mesh), the quad and the shaders. *)
HardDeleted(debug) ==
    {Object(f) : f \in {"spriteVAO", "spriteVertices", "spriteTexcoords", "quadVAO",
                        "gbufferSpriteShader", "pbrLightingShader"}
                       \cup (IF debug THEN {"debugShader"} ELSE {})}

(* What DeferredRenderer::render binds, attaches or draws with. *)
RenderUses(debug) ==
    {"matrices_ubo", "gBuffer", "gBufferPosition", "gBufferNormal", "gBufferAlbedo",
     "gBufferDepth", "gbufferSpriteShader", "pbrLightingShader", "quadVAO", "quadVBO",
     "spriteVAO", "spriteVertices", "spriteTexcoords", "tbo", "tbo_tex", "texture"}
    \cup (IF debug THEN {"debugShader"} ELSE {})
=============================================================================
