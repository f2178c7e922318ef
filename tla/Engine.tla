------------------------------- MODULE Engine -------------------------------
(***************************************************************************)
(* The life of the process: main (src/core/main.cpp), Logging, Window and  *)
(* the OpenGL objects of Graphics.  A step is a statement of main or of    *)
(* Window::run with everything it calls.  A std::runtime_error unwinds the *)
(* objects of the try block, is caught, and the process exits; any other   *)
(* exception, and one outside the try block, terminates it; a null         *)
(* dereference crashes it.  A normal return runs the same destructors.     *)
(***************************************************************************)
EXTENDS Graphics

CONSTANT MaxEvents    \* the number of events the user generates

ASSUME MaxEventsAssumption == MaxEvents \in Nat

Step == {"LoadFile", "LoggingInit", "SetupPhysFS", "NewWindow", "LoadGameConfig",
         "OpenWindow", "StartGame", "NewTileMap", "LoadTextures", "RendererInit",
         "LoadModelShader", "PollEvents", "Frame", "RendererTerm", "Unwind", "Deinit",
         "Exited", "Terminated", "Crashed"}
Ended == {"Exited", "Terminated", "Crashed"}

Event == {"quit", "escape", "space", "other"}

VARIABLES
    pc,        \* the step that runs next
    thrown,    \* a std::runtime_error is on its way to main's handler
    cause,     \* what went wrong, if anything
    logger,    \* Logging::logger: "null", "console", "dropped"
    physfs,    \* PhysFS is initialised
    built,     \* the objects whose destructors are to run
    context,   \* the window and its OpenGL context exist
    debug,     \* debugRenderingEnabled
    running,   \* the flag of Window::run
    events,    \* the queue of SDL events
    posted     \* how many events there were

mainVars == <<thrown, cause, logger, physfs, built, context, debug>>
loopVars == <<running, events, posted>>
vars     == <<pc, mainVars, loopVars, glVars>>

(* The destructors of these objects have an effect. *)
Scoped == {"window", "physics", "tileMap"}

Init ==
    /\ pc = "LoadFile"
    /\ thrown = FALSE
    /\ cause = "none"
    /\ logger = "null"
    /\ physfs = FALSE
    /\ built = {}
    /\ context = FALSE
    /\ debug = FALSE
    /\ running = TRUE
    /\ events = <<>>
    /\ posted = 0
    /\ GraphicsInit

Goto(s) == pc' = s

(* What a failure does next. *)
Throw(c) == Goto("Unwind") /\ thrown' = TRUE /\ cause' = c
Die(s, c) == Goto(s) /\ cause' = c /\ UNCHANGED thrown
Continue(s) == Goto(s) /\ UNCHANGED <<thrown, cause>>

-----------------------------------------------------------------------------
(* main, up to window.run(). *)
LoadFile ==
    /\ pc = "LoadFile"
    /\ Continue("LoggingInit") \/ Die("Terminated", "no config")
    /\ UNCHANGED <<logger, physfs, built, context, debug, loopVars, glVars>>

(* The parser's error handler logs; there is no logger before line 40. *)
LoggingInit ==
    /\ pc = "LoggingInit"
    /\ \/ Continue("SetupPhysFS") /\ logger' = "console"
       \/ Die("Crashed", "parse error") /\ UNCHANGED logger
    /\ UNCHANGED <<physfs, built, context, debug, loopVars, glVars>>

(* mount's failures are ignored; a parse error is logged. *)
SetupPhysFS ==
    /\ pc = "SetupPhysFS"
    /\ physfs' = TRUE
    /\ Continue("NewWindow")
    /\ UNCHANGED <<logger, built, context, debug, loopVars, glVars>>

(* A constructor that throws leaves no object; the next one is the engine. *)
NewWindow ==
    /\ pc = "NewWindow"
    /\ \/ Continue("LoadGameConfig") /\ built' = {"window", "physics"}
       \/ Throw("no SDL") /\ UNCHANGED built
    /\ UNCHANGED <<logger, physfs, context, debug, loopVars, glVars>>

(* A missing file is a std::invalid_argument, bad YAML a runtime_error. *)
LoadGameConfig ==
    /\ pc = "LoadGameConfig"
    /\ Continue("OpenWindow") \/ Throw("bad YAML") \/ Die("Terminated", "no file")
    /\ UNCHANGED <<logger, physfs, built, context, debug, loopVars, glVars>>

(* Window::open goes on when SDL_CreateWindow fails. *)
OpenWindow ==
    /\ pc = "OpenWindow"
    /\ context' \in BOOLEAN
    /\ debug' \in BOOLEAN
    /\ Continue("StartGame")
    /\ UNCHANGED <<logger, physfs, built, loopVars, glVars>>

(* physicsEngine.init, startSystems and loader.load: no GL call.  The loader  *)
(* swallows what a scene's nodes raise, but reads and parses each scene file  *)
(* (Loader.cpp:70) outside its parser: a missing file is a                    *)
(* std::invalid_argument, bad YAML a runtime_error.  EntityLoader's crash is  *)
(* one of the process.                                                        *)
StartGame ==
    /\ pc = "StartGame"
    /\ \/ Continue("NewTileMap")
       \/ Throw("bad YAML")
       \/ Die("Terminated", "no file")
       \/ Die("Crashed", "bad scene")
    /\ UNCHANGED <<logger, physfs, built, context, debug, loopVars, glVars>>

-----------------------------------------------------------------------------
(* Window::run, up to the loop.  Without a context the first GLEW function   *)
(* is a null pointer.                                                        *)
NewTileMap ==
    /\ pc = "NewTileMap"
    /\ \/ /\ ~ context
          /\ Die("Crashed", "no window")
          /\ UNCHANGED <<built, glVars>>
       \/ /\ context
          /\ Continue("LoadTextures")
          /\ built' = built \cup {"tileMap"}
          /\ Generate(<<"tileVAO", "tileShader">> \o TileMapBuffers)
       \/ /\ context
          /\ Throw("shader")
          /\ built' = built \cup {"tileMap"}
          /\ \E fs \in LoadsFailed(<<"tileShader">>) : Generate(<<"tileVAO">> \o fs)
    /\ UNCHANGED <<logger, physfs, context, debug, loopVars>>

(* loadTextureArray: no test of what stbi_load returns. *)
LoadTextures ==
    /\ pc = "LoadTextures"
    /\ \/ Continue("RendererInit") /\ Generate(<<"texture">>)
       \/ Die("Terminated", "no file") /\ UNCHANGED glVars
       \/ Die("Crashed", "bad image") /\ Generate(<<"texture">>)
    /\ UNCHANGED <<logger, physfs, built, context, debug, loopVars>>

(* Variant: the framebuffer and its attachments are not made. *)
RendererInitHard ==
    /\ pc = "RendererInit"
    /\ \/ /\ Continue("LoadModelShader")
          /\ Generate(RendererShaders(debug) \o HardMembers)
       \/ /\ Throw("shader")
          /\ \E fs \in LoadsFailed(RendererShaders(debug)) : Generate(fs)
    /\ UNCHANGED <<logger, physfs, built, context, debug, loopVars>>

RendererInit ==
    /\ pc = "RendererInit"
    /\ \/ /\ Continue("LoadModelShader")
          /\ Generate(RendererShaders(debug) \o HardMembers \o SoftMembers)
       \/ /\ Throw("shader")
          /\ \E fs \in LoadsFailed(RendererShaders(debug)) : Generate(fs)
    /\ UNCHANGED <<logger, physfs, built, context, debug, loopVars>>

LoadModelShader ==
    /\ pc = "LoadModelShader"
    /\ \/ Continue("PollEvents") /\ Generate(<<"modelShader">>)
       \/ Throw("shader") /\ \E fs \in LoadsFailed(<<"modelShader">>) : Generate(fs)
    /\ UNCHANGED <<logger, physfs, built, context, debug, loopVars>>

-----------------------------------------------------------------------------
(* The loop.  SDL queues events as the user makes them. *)
PostEvent ==
    /\ pc \in {"PollEvents", "Frame"} /\ posted < MaxEvents
    /\ \E e \in Event : events' = Append(events, e)
    /\ posted' = posted + 1
    /\ UNCHANGED <<pc, mainVars, running, glVars>>

(* Variant: a key that is not escape sets the flag again. *)
PollEventForgetting ==
    /\ pc = "PollEvents" /\ events # <<>>
    /\ running' = (Head(events) \notin {"quit", "escape"})
    /\ events' = Tail(events)
    /\ UNCHANGED <<pc, mainVars, posted, glVars>>

(* Space calls tileMap.reset, which fills imageIdBuffer again. *)
PollEvent ==
    /\ pc = "PollEvents" /\ events # <<>>
    /\ running' = (running /\ Head(events) \notin {"quit", "escape"})
    /\ events' = Tail(events)
    /\ UNCHANGED <<pc, mainVars, posted, glVars>>

NoEvent ==
    /\ pc = "PollEvents" /\ events = <<>>
    /\ Continue("Frame")
    /\ UNCHANGED <<logger, physfs, built, context, debug, loopVars, glVars>>

(* renderer.render, SDL_GL_SwapWindow, and the test of do ... while. *)
Frame ==
    /\ pc = "Frame"
    /\ Continue(IF running THEN "PollEvents" ELSE "RendererTerm")
    /\ UNCHANGED <<logger, physfs, built, context, debug, loopVars, glVars>>

(* renderer.term(); glDeleteTextures(1, &texture); return. *)
RendererTerm ==
    /\ pc = "RendererTerm"
    /\ Delete(SoftDeleted \cup HardDeleted(debug) \cup {Object("texture")})
    /\ Continue("Unwind")
    /\ UNCHANGED <<logger, physfs, built, context, debug, loopVars>>

-----------------------------------------------------------------------------
(* The destructors, in the reverse order of construction.  TileMap's unloads *)
(* its shader first, also one that was never assigned.                       *)
DestroyTileMap ==
    /\ pc = "Unwind" /\ "tileMap" \in built
    /\ built' = built \ {"tileMap"}
    /\ \E p \in IF member["tileShader"] = Unset THEN 0 .. next["program"]
                                                ELSE {member["tileShader"]} :
          Delete({<<"program", p>>}
                 \cup {Object(f) : f \in {"tileVAO", "tileVertices", "tileColours",
                                         "tileTexcoords", "imageIdBuffer", "tileIndices"}})
    /\ UNCHANGED <<pc, thrown, cause, logger, physfs, context, debug, loopVars>>

DestroyPhysics ==
    /\ pc = "Unwind" /\ "tileMap" \notin built /\ "physics" \in built
    /\ built' = built \ {"physics"}
    /\ UNCHANGED <<pc, thrown, cause, logger, physfs, context, debug, loopVars, glVars>>

(* Variant: the window goes before what was built after it. *)
DestroyWindowFirst ==
    /\ pc = "Unwind" /\ "window" \in built
    /\ built' = built \ {"window"}
    /\ context' = FALSE
    /\ Delete(objects)
    /\ UNCHANGED <<pc, thrown, cause, logger, physfs, debug, loopVars>>

(* The objects of a context go with it. *)
DestroyWindow ==
    /\ pc = "Unwind" /\ built = {"window"}
    /\ built' = {}
    /\ context' = FALSE
    /\ Delete(objects)
    /\ UNCHANGED <<pc, thrown, cause, logger, physfs, debug, loopVars>>

(* Variant: the handler does not match. *)
LeaveTryUncaught ==
    /\ pc = "Unwind" /\ built = {}
    /\ Goto(IF thrown THEN "Terminated" ELSE "Deinit") /\ thrown' = FALSE
    /\ UNCHANGED <<cause, logger, physfs, built, context, debug, loopVars, glVars>>

(* Variant: the exception is not taken. *)
LeaveTryThrowing ==
    /\ pc = "Unwind" /\ built = {}
    /\ Continue("Deinit")
    /\ UNCHANGED <<logger, physfs, built, context, debug, loopVars, glVars>>

(* Variant: the handler returns from main. *)
LeaveTryEarly ==
    /\ pc = "Unwind" /\ built = {}
    /\ Goto(IF thrown THEN "Exited" ELSE "Deinit") /\ thrown' = FALSE
    /\ UNCHANGED <<cause, logger, physfs, built, context, debug, loopVars, glVars>>

(* The end of the try block, or its handler, which logs the exception. *)
LeaveTry ==
    /\ pc = "Unwind" /\ built = {}
    /\ Goto("Deinit") /\ thrown' = FALSE
    /\ UNCHANGED <<cause, logger, physfs, built, context, debug, loopVars, glVars>>

Deinit ==
    /\ pc = "Deinit"
    /\ physfs' = FALSE
    /\ logger' = "dropped"
    /\ Continue("Exited")
    /\ UNCHANGED <<built, context, debug, loopVars, glVars>>

Main == \/ LoadFile \/ LoggingInit \/ SetupPhysFS \/ NewWindow \/ LoadGameConfig
        \/ OpenWindow \/ StartGame \/ NewTileMap \/ LoadTextures \/ RendererInit
        \/ LoadModelShader \/ PollEvent \/ NoEvent \/ Frame \/ RendererTerm
        \/ DestroyTileMap \/ DestroyPhysics \/ DestroyWindow \/ LeaveTry \/ Deinit

Next == Main \/ PostEvent

Spec == Init /\ [][Next]_vars /\ WF_vars(Main)

-----------------------------------------------------------------------------
(* An exception on its way is unwinding. *)
TypeOK ==
    /\ pc \in Step
    /\ thrown \in BOOLEAN /\ (thrown => pc = "Unwind")
    /\ physfs \in BOOLEAN /\ context \in BOOLEAN /\ debug \in BOOLEAN
    /\ running \in BOOLEAN
    /\ logger \in {"null", "console", "dropped"}
    /\ built \subseteq Scoped
    /\ events \in Seq(Event)
    /\ posted \in 0 .. MaxEvents
    /\ GraphicsTypeOK

(* Every object a frame binds, attaches or draws with exists under the name  *)
(* its member holds, and so does the buffer that the space key fills again.  *)
FramesUseLiveObjects ==
    pc \in {"PollEvents", "Frame"} =>
        \A f \in RenderUses(debug) \cup {"imageIdBuffer"} : Live(f)

(* A destructor finds what it needs: TileMap's calls OpenGL and needs the    *)
(* context, the physics engine's logs, and a context never outlives the      *)
(* Window that deletes it, on every path that an exception can take.         *)
DestructorsFindTheirServices ==
    /\ "tileMap" \in built => context
    /\ built # {} => logger = "console" /\ physfs
    /\ context => "window" \in built
    /\ objects # {} => context

(* Members nobody deletes, and those that term tries to delete as buffers. *)
Abandoned ==
    {"quadVBO", "gbufferBackgroundShader", "tbo", "tbo_tex", "modelShader", "gBuffer",
     "gBufferDepth", "gBufferPosition", "gBufferNormal", "gBufferAlbedo"}

(* When run has returned, the OpenGL objects that are left to the context    *)
(* are the abandoned ones: no name of a TileMap, Mesh or live shader leaks.  *)
OnlyKnownLeaks ==
    pc = "Unwind" /\ ~ thrown /\ "tileMap" \notin built =>
        objects \subseteq {Object(f) : f \in Abandoned}

(* However the game ended, an exit releases SDL, the context, PhysFS and the *)
(* logger.                                                                   *)
ExitIsOrderly ==
    pc = "Exited" => /\ built = {} /\ ~ context /\ ~ physfs
                     /\ logger = "dropped"

(* What every step preserves: which objects are built, and which OpenGL     *)
(* objects are live, at each step.                                          *)
Setup == {"LoadFile", "LoggingInit", "SetupPhysFS", "NewWindow"}
Open  == {"LoadGameConfig", "OpenWindow", "StartGame", "NewTileMap"}
Run   == {"LoadTextures", "RendererInit", "LoadModelShader", "PollEvents", "Frame",
          "RendererTerm"}

ControlInv ==
    /\ pc \in Step
    /\ built \in {{}, {"window"}, {"window", "physics"}, Scoped}
    /\ pc \in Setup \cup {"Deinit", "Exited"} => built = {}
    /\ pc \in Open => built = {"window", "physics"}
    /\ pc \in Run => built = Scoped
    /\ pc \in {"LoadGameConfig", "OpenWindow"} => ~ context
    /\ pc \notin {"LoadFile", "LoggingInit"} \cup Ended => logger = "console"
    /\ pc \notin {"LoadFile", "LoggingInit", "SetupPhysFS"} \cup Ended => physfs = TRUE
    /\ pc = "Exited" => logger = "dropped" /\ physfs = FALSE

LiveInv ==
    /\ pc \in Run \ {"RendererTerm"} => Live("imageIdBuffer")
    /\ pc \in Run \ {"RendererTerm", "LoadTextures"} => Live("texture")
    /\ pc \in {"LoadModelShader", "PollEvents", "Frame"} =>
          \A f \in RenderUses(debug) : Live(f)

EngineInv == ControlInv /\ DestructorsFindTheirServices /\ LiveInv

(* A request to quit is honoured, whatever is queued behind it.  (WF_vars    *)
(* (Main): the one thread runs; finitely many events: poll finds the queue   *)
(* empty again.)                                                             *)
QuitEndsTheGame ==
    (pc = "PollEvents" /\ \E i \in DOMAIN events : events[i] \in {"quit", "escape"})
        ~> (pc = "Exited")

(* An exception that main handles ends in an orderly exit too. *)
ExceptionsEndTheGame == thrown ~> (pc = "Exited")
=============================================================================
