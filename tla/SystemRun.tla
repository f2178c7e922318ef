------------------------------ MODULE SystemRun ------------------------------
(***************************************************************************)
(* ecs::system<This, Components...>::run (ecs/systems/System.h) with the   *)
(* update and post of sprite_render_system and the renderer they submit    *)
(* to.  Entities gain and lose their components, and the system turns its  *)
(* notifications on and off, between runs.                                 *)
(***************************************************************************)
EXTENDS SpriteSubmission, SequencesExt

CONSTANTS
    Entity,        \* entity identifiers, which are numbers
    Systems,       \* what This declares: see Declaration
    MaxRuns        \* bounds the number of runs

(* A method of This is absent or declared with a result of some type.  The   *)
(* tests has_method__post and has_method__notify compare the result with 1,  *)
(* which a void method does not allow.                                       *)
Method       == {"absent", "void", "value"}
HasMethod(m) == m = "value"

(* call_if_declared__notify tests for post, not for notify: without post the *)
(* call of notify does not compile.  No system has a pre.                    *)
Declaration ==
    {d \in [post : Method, notify : Method] : HasMethod(d.notify) => HasMethod(d.post)}

ASSUME EntityAssumption  == Entity \subseteq Nat /\ IsFiniteSet(Entity)
ASSUME SystemsAssumption == Systems \subseteq Declaration
ASSUME MaxRunsAssumption == MaxRuns \in Nat

(* sprite_render_system: void post(), no notify. *)
SpriteRenderSystem == [post |-> "void", notify |-> "absent"]

VARIABLES
    this,          \* the declaration of This
    members,       \* the entities with all of Components
    notificationsEnabled,
    liveEntities,  \* the entities of earlier runs
    spheres,       \* gathered by update, with instances
    instances,
    runs,          \* how many runs there were
    last,          \* what the last run saw, reported and submitted
    followed,      \* what an observer holds that does as notify says
    crashed

vars == <<this, members, notificationsEnabled, liveEntities, spheres, instances,
          runs, last, followed, crashed>>

NoFrame == [positions |-> <<>>, instances |-> <<>>]
NoRun   == [view |-> <<>>, before |-> <<>>, notified |-> FALSE, removed |-> <<>>,
            added |-> <<>>, submitted |-> FALSE, frame |-> NoFrame]

Init ==
    /\ this \in Systems
    /\ members = {}
    /\ notificationsEnabled = FALSE
    /\ liveEntities = <<>>
    /\ spheres = <<>> /\ instances = <<>>
    /\ runs = 0 /\ last = NoRun
    /\ followed = {}
    /\ crashed = FALSE

-----------------------------------------------------------------------------
(* One turn of set_difference's loop, which walks both sequences as if they  *)
(* were sorted.                                                              *)
Advance(a, b, s) ==
    IF s.i > Len(a) \/ s.j > Len(b) THEN s
    ELSE [i   |-> IF a[s.i] <= b[s.j] THEN s.i + 1 ELSE s.i,
          j   |-> IF b[s.j] <= a[s.i] THEN s.j + 1 ELSE s.j,
          out |-> IF a[s.i] < b[s.j] THEN Append(s.out, a[s.i]) ELSE s.out]

(* The loop, then a copy of what is left of a. *)
SetDifference(a, b) ==
    LET walk[n \in 0 .. Len(a) + Len(b)] ==
            IF n = 0 THEN [i |-> 1, j |-> 1, out |-> <<>>]
                     ELSE Advance(a, b, walk[n - 1])
        end == walk[Len(a) + Len(b)]
    IN  end.out \o SubSeq(a, end.i, Len(a))

(* Variant: the current entities are added to the live ones first. *)
FindDifferencesLate(current) ==
    [added   |-> SetDifference(current, liveEntities \o current),
     removed |-> SetDifference(liveEntities \o current, current),
     live    |-> liveEntities \o current]

(* Variant: they are added between the two differences. *)
FindDifferencesBetween(current) ==
    [added   |-> SetDifference(current, liveEntities),
     removed |-> SetDifference(liveEntities \o current, current),
     live    |-> liveEntities \o current]

FindAddedAndRemovedEntities(current) ==
    [added   |-> SetDifference(current, liveEntities),
     removed |-> SetDifference(liveEntities, current),
     live    |-> liveEntities \o current]

(* notify(REMOVED, removed), then notify(ADDED, added). *)
Notify(found) == followed' = (followed \ ToSet(found.removed)) \cup ToSet(found.added)

(* Variant: what submitSprites leaves in the vectors stays there. *)
PostKeeping(gathered) ==
    /\ spheres' = SubmitSprites(gathered.spheres, gathered.instances).positions
    /\ instances' = SubmitSprites(gathered.spheres, gathered.instances).instances
    /\ crashed' \in {FALSE, gathered.spheres # <<>>}

(* post submits and resets.  The misplaced store of a group's mask may also  *)
(* crash the process.                                                        *)
Post(gathered) ==
    /\ spheres' = <<>> /\ instances' = <<>>
    /\ crashed' \in {FALSE, gathered.spheres # <<>>}

(* One run over the entities in the order of the view. *)
Run(view) ==
    LET notifies == HasMethod(this.notify) /\ notificationsEnabled
        found    == FindAddedAndRemovedEntities(view)
        gathered == [spheres |-> spheres \o view, instances |-> instances \o view]
        posts    == HasMethod(this.post)
    IN  /\ ~ crashed /\ runs < MaxRuns
        /\ runs' = runs + 1
        /\ IF notifies
           THEN /\ liveEntities' = found.live
                /\ Notify(found)
           ELSE UNCHANGED <<liveEntities, followed>>
        /\ IF posts
           THEN Post(gathered)
           ELSE /\ spheres' = gathered.spheres /\ instances' = gathered.instances
                /\ UNCHANGED crashed
        /\ last' = [view |-> view, before |-> liveEntities, notified |-> notifies,
                    removed |-> IF notifies THEN found.removed ELSE <<>>,
                    added |-> IF notifies THEN found.added ELSE <<>>,
                    submitted |-> posts,
                    frame |-> IF posts THEN SubmitSprites(gathered.spheres, gathered.instances)
                                       ELSE NoFrame]
        /\ UNCHANGED <<this, members, notificationsEnabled>>

(* The registry assigns or removes a component. *)
Assign(e) ==
    /\ e \notin members
    /\ members' = members \cup {e}

Unassign(e) ==
    /\ e \in members
    /\ members' = members \ {e}

(* Between runs: the registry changes, or the system turns notifications on  *)
(* or off.                                                                   *)
ChangeMembers ==
    /\ ~ crashed /\ runs < MaxRuns
    /\ \E e \in Entity : Assign(e) \/ Unassign(e)
    /\ UNCHANGED <<this, notificationsEnabled, liveEntities, spheres, instances, runs,
                   last, followed, crashed>>

EnableNotifications ==
    /\ ~ crashed /\ runs < MaxRuns
    /\ notificationsEnabled' = ~ notificationsEnabled
    /\ UNCHANGED <<this, members, liveEntities, spheres, instances, runs, last,
                   followed, crashed>>

Next ==
    \/ \E view \in SetToSeqs(members) : Run(view)
    \/ ChangeMembers
    \/ EnableNotifications

Spec == Init /\ [][Next]_vars

-----------------------------------------------------------------------------
(* The vectors that update fills stay in step and hold entities only: no     *)
(* padding of a submission stays behind.                                     *)
TypeOK ==
    /\ this \in Systems
    /\ members \subseteq Entity /\ followed \subseteq Entity
    /\ notificationsEnabled \in BOOLEAN /\ crashed \in BOOLEAN
    /\ liveEntities \in Seq(Entity)
    /\ spheres \in Seq(Entity) /\ instances = spheres
    /\ runs \in 0 .. MaxRuns

(* What is left of the reports although the vectors are not sorted and       *)
(* liveEntities is never cleared: an entity that no earlier run with         *)
(* notifications saw is ADDED, and an observer who applies REMOVED and then  *)
(* ADDED holds no entity that is gone.  It does not say that the observer    *)
(* holds all of the view: an entity that stays may be REMOVED and not ADDED, *)
(* and one that comes back may not be ADDED.                                 *)
NewAddedGoneDropped ==
    last.notified =>
        /\ ToSet(last.view) \ ToSet(last.before) \subseteq ToSet(last.added)
        /\ followed \subseteq ToSet(last.view)

Count(s, e) == Cardinality({k \in DOMAIN s : s[k] = e})

(* The two reports agree: an occurrence of an entity is left out of ADDED    *)
(* exactly when one is left out of REMOVED, although both walks are over     *)
(* vectors that are not sorted and hold entities many times.                 *)
ReportsBalance ==
    last.notified =>
        \A e \in Entity : Count(last.view, e) - Count(last.added, e)
                            = Count(last.before, e) - Count(last.removed, e)

(* A submission is its own run: exactly the sprites of the view, in its      *)
(* order, sphere i next to instance i, and behind them as many null objects  *)
(* as the last group of the culling lacks, none of them left over from an    *)
(* earlier run.  No sprite is missing, since no mask reaches the results of  *)
(* the culling.                                                              *)
FrameShowsTheRun ==
    LET positions == last.frame.positions
        sprites   == last.frame.instances
    IN  last.submitted =>
            /\ sprites = last.view
            /\ Len(positions) \in Len(sprites) .. Len(sprites) + GroupSize - 1
            /\ \E groups \in 0 .. Len(positions) : Len(positions) = groups * GroupSize
            /\ \A i \in DOMAIN positions :
                  positions[i] = IF i <= Len(sprites) THEN sprites[i] ELSE NullObject
==============================================================================
