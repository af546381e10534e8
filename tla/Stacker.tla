------------------------------ MODULE Stacker -------------------------------
(***************************************************************************)
(* An agent that builds a tower through the middleware                      *)
(* (examples/robosuite_demo/stack_blocks.py): pick a block, carry it, set   *)
(* it down, look, go on - and on any surprise open the gripper, stop the    *)
(* arm and build again from what is remembered and what is seen.            *)
(*                                                                          *)
(* What the agent believes (scene, plan, progress) and what is there        *)
(* (stack, held) are separate.  A place is where a block lies at the start; *)
(* a height is counted in blocks, and the camera's and the arm's            *)
(* millimetres come down to whether a move or a reading is good enough.     *)
(***************************************************************************)
EXTENDS Integers, Sequences

CONSTANTS
    None,
    Order,      \* the blocks, bottom first
    Retries,    \* --retries
    Grips       \* GRIP_ATTEMPTS

Members(s) == {s[i] : i \in DOMAIN s}

(* A block, and the place it first lies at.                                 *)
Blocks == Members(Order)

ASSUME StackerAssumption ==
    /\ Order \in Seq(Blocks) /\ Len(Order) >= 2
    /\ \A i, j \in DOMAIN Order : Order[i] = Order[j] => i = j
    /\ None \notin Blocks /\ None \notin [placed : Seq(Blocks), at : Blocks]
    /\ Retries \in Nat /\ Grips \in Nat \ {0}

VARIABLES
    stack,      \* place -> the blocks there, bottom first
    gone,       \* blocks out of the arm's envelope
    held,       \* the block between the jaws, or None
    at,         \* the place the tool is at, or None when it is clear of all
    pc,         \* what the agent does next
    retries,    \* retries left
    progress,   \* Stacker._progress: [placed, at], or None
    plan,       \* the build under way: [placed, at, surface]
    block,      \* the block being moved
    grip,       \* grasps made of it
    known,      \* for the properties: the attempt began with no stack but the
                \* one remembered, and nothing has fallen onto a block since
    foreign,    \* ... the blocks stacked at the start were no beginning of Order
    piled       \* ... a block has fallen onto another

world == <<stack, gone, held, at>>
ghosts == <<known, foreign, piled>>
vars == <<stack, gone, held, at, pc, retries, progress, plan, block, grip,
          known, foreign, piled>>

First(n) == SubSeq(Order, 1, n)

(* The first n blocks are stacked, the others lie at their own places.      *)
Table(n) ==
    [p \in Blocks |-> IF p = Order[1] THEN First(n)
                      ELSE IF p \in Members(First(n)) THEN << >> ELSE <<p>>]

(* Where each block may lie, and how high: in stacks without a gap, each at *)
(* the place of its lowest block.                                           *)
Highs(lies, p) == {lies[b].high : b \in {c \in Blocks : lies[c].place = p}}

Layouts ==
    {lies \in [Blocks -> [place : Blocks, high : DOMAIN Order]] :
        /\ \A b, c \in Blocks : lies[b] = lies[c] => b = c
        /\ \A b \in Blocks : lies[b].high = 1 => lies[b].place = b
        /\ \A p \in Blocks : \E n \in 0 .. Len(Order) : Highs(lies, p) = 1 .. n}

Stacked(lies) ==
    [p \in Blocks |-> [h \in Highs(lies, p) |->
        CHOOSE b \in Blocks : lies[b] = [place |-> p, high |-> h]]]

(* --standing: the operator says how many of Order are stacked, from the    *)
(* bottom; that many need not be, nor those.                                *)
Init ==
    /\ \E lies \in Layouts, said \in DOMAIN Order :
          /\ stack = Stacked(lies)
          /\ progress = IF said = 1 THEN None
                        ELSE [placed |-> First(said), at |-> lies[Order[said]].place]
          /\ foreign = (stack \notin {Table(n) : n \in DOMAIN Order})
    /\ gone = {} /\ held = None /\ at = None
    /\ pc = "build" /\ retries = Retries
    /\ plan = [placed |-> << >>, at |-> None, surface |-> 0]
    /\ block = None /\ grip = 0
    /\ known = TRUE /\ piled = FALSE

-----------------------------------------------------------------------------
(* The world: blocks fall, and the camera sees what is not covered.         *)

Lone(s) == {p \in Blocks : Len(s[p]) = 1}

(* Blocks fall, `s` being what is left of the stacks: each out of reach, to *)
(* its own place if that is free, or onto a block that lies alone.          *)
Falls(s, fallen) ==
    \E kept \in SUBSET fallen :
        \E to \in [kept -> Lone(s) \cup {b \in fallen : s[b] = << >>}] :
            /\ \A b \in kept : to[b] = b \/ to[b] \in Lone(s)
            /\ \A b, c \in kept : to[b] = to[c] => b = c
            /\ stack' = [p \in Blocks |->
                            IF \E b \in kept : to[b] = p
                            THEN Append(s[p], CHOOSE b \in kept : to[b] = p)
                            ELSE s[p]]
            /\ gone' = gone \cup (fallen \ kept)
            /\ piled' = (piled \/ \E b \in kept : to[b] \in Lone(s))
            /\ known' = (known /\ \A b \in kept : to[b] \notin Lone(s))

(* All but the lowest few of a stack come down, and `with` them.            *)
Topples(p, with) ==
    \E n \in 1 .. Len(stack[p]) :
        Falls([stack EXCEPT ![p] = SubSeq(@, 1, n)],
              with \cup Members(SubSeq(stack[p], n + 1, Len(stack[p]))))

Lands(b, p) ==
    /\ stack' = [stack EXCEPT ![p] = Append(@, b)]
    /\ UNCHANGED <<gone, known, piled>>

(* A block let go of at a place lands there or falls.                       *)
Drops(b, p) ==
    Falls(stack, {b}) \/ (p # None /\ Lands(b, p))

(* What is in the jaws when they open is let go of; `at` is still where.    *)
Opens == IF held = None THEN UNCHANGED <<stack, gone, known, piled>> ELSE Drops(held, at)

IsTop(b) == \E p \in Blocks : stack[p] # << >> /\ stack[p][Len(stack[p])] = b

(* Of a covered block the camera sees a few pixels, or none and reports     *)
(* where the simulator says it is (Workcell._locate_blocks).                *)
Covered(b) == b \notin gone /\ b # held /\ ~IsTop(b)

(* A block carried over a place is seen there.                              *)
PlaceOf(b) ==
    IF b = held THEN (IF at = None THEN b ELSE at)
    ELSE CHOOSE p \in Blocks : b \in Members(stack[p])

(* tier_of: the height of a covered block reads anything up to the truth.   *)
Heights(b) ==
    IF b = held THEN 1 .. Len(Order)
    ELSE LET h == CHOOSE i \in DOMAIN stack[PlaceOf(b)] : stack[PlaceOf(b)][i] = b
         IN  IF IsTop(b) THEN {h} ELSE 1 .. h

-----------------------------------------------------------------------------
(* build.                                                                   *)

GoTo(next) == pc' = next

Ended == {"done", "gave_up", "refused"}

Moving == {"tier", "descend", "lift", "setdown", "carry", "lower", "verify", "park"}

(* Setting a block down fires its moves and does not ask them to arrive.    *)
Fired == {"setdown", "lower"}

(* The tool is over a place, or clear of every place.                       *)
Over(p) == at' = p

Clear == at' = None

(* What `grasping` reads: the block that touches both jaws.                 *)
Holding(b) == held = b

(* Unstable: a pose that does not converge, a block that is not held, a     *)
(* reading that is not what was planned for.                                *)
Surprise ==
    /\ GoTo("unstable")
    /\ UNCHANGED <<world, retries, progress, plan, block, grip, ghosts>>

(* Any other move may fail to converge.                                     *)
DoesNotConverge == pc \in Moving \ Fired /\ Surprise

(* The middleware answers a call with an error other than "still            *)
(* travelling", or cannot be reached.                                       *)
Refuses == pc \in Moving \cup {"build"}

(* That ends the program where it is.                                       *)
Refused ==
    /\ Refuses
    /\ GoTo("refused")
    /\ UNCHANGED <<world, retries, progress, plan, block, grip, ghosts>>

Reachable == gone = {}

BlockOutOfReach == pc = "build" /\ ~Reachable /\ Surprise

(* Mutant of Resumes: what is remembered is not looked at again.            *)
ResumesUnseen(h) == progress # None

(* Mutant of Resumes: what is remembered is not used.                       *)
ResumesNever(h) == FALSE

(* _resume: the top block of the tower remembered is seen at its height.    *)
Resumes(h) == progress # None /\ h = Len(progress.placed)

Believed == IF progress = None THEN Order[1] ELSE progress.placed[Len(progress.placed)]

(* Every block lies at its own place, but for the tower remembered.         *)
AsRemembered ==
    \A p \in Blocks :
        \/ stack[p] \in {<< >>, <<p>>}
        \/ progress # None /\ p = progress.at /\ stack[p] = progress.placed

Resume ==
    /\ pc = "build" /\ Reachable
    /\ known' = (AsRemembered /\ held = None)
    /\ \E h \in Heights(Believed) :
          /\ Resumes(h)
          /\ plan' = [placed |-> progress.placed, at |-> progress.at, surface |-> h]
    /\ GoTo("tier")
    /\ UNCHANGED <<world, retries, progress, block, grip, foreign, piled>>

(* From scratch: the base is wherever it is, as high as it looks.           *)
StartOver ==
    /\ pc = "build" /\ Reachable
    /\ \E h \in Heights(Believed) : ~Resumes(h)
    /\ \E h \in Heights(Order[1]) :
          plan' = [placed |-> First(1), at |-> PlaceOf(Order[1]), surface |-> h]
    /\ progress' = None
    /\ known' = (AsRemembered /\ held = None)
    /\ GoTo("tier")
    /\ UNCHANGED <<world, retries, block, grip, foreign, piled>>

(* The next block is found; the jaws open and go to it.  A block seen too   *)
(* poorly is not grasped, and a covered one may be.                         *)
NextBlock ==
    LET b == Order[Len(plan.placed) + 1]
    IN  /\ pc = "tier" /\ Len(plan.placed) < Len(Order)
        /\ block' = b /\ grip' = 1
        /\ \/ /\ b \notin gone
              /\ Opens /\ held' = None
              /\ Over(PlaceOf(b))
              /\ GoTo("descend")
           \/ /\ b \in gone \/ Covered(b)
              /\ GoTo("unstable")
              /\ UNCHANGED <<world, known, piled>>
        /\ UNCHANGED <<retries, progress, plan, foreign>>

-----------------------------------------------------------------------------
(* pick.                                                                    *)

(* The jaws go down to the table at the block's place and close on it, or   *)
(* beside it.                                                               *)
Descend ==
    /\ pc = "descend"
    /\ \/ /\ Len(stack[at]) = 1
          /\ held' = stack[at][1]
          /\ stack' = [stack EXCEPT ![at] = << >>]
          /\ UNCHANGED <<gone, known, piled>>
       \/ /\ Len(stack[at]) <= 1
          /\ UNCHANGED <<stack, gone, held, known, piled>>
       \/ /\ Len(stack[at]) >= 2
          /\ Topples(at, {})
          /\ UNCHANGED held
    /\ GoTo("lift")
    /\ UNCHANGED <<at, retries, progress, plan, block, grip, foreign>>

(* A marginal grip sheds its block, anywhere on the way.                    *)
Sheds ==
    /\ pc \notin Ended /\ held # None
    /\ Drops(held, at)
    /\ held' = None
    /\ UNCHANGED <<at, pc, retries, progress, plan, block, grip, foreign>>

(* What stands may come down, at any moment.                                *)
Collapses ==
    /\ pc \notin Ended
    /\ \E p \in Blocks : Len(stack[p]) > 1 /\ Topples(p, {})
    /\ UNCHANGED <<held, at, pc, retries, progress, plan, block, grip, foreign>>

LostBlock == pc \in {"lift", "setdown", "carry", "lower"} /\ ~Holding(block) /\ Surprise

(* The carry offset is measured after the lift: believable, or gripped      *)
(* again, a few times.                                                      *)
Measure ==
    /\ pc = "lift" /\ Holding(block)
    /\ \/ GoTo("carry")
       \/ grip < Grips /\ GoTo("setdown")
       \/ grip = Grips /\ GoTo("unstable")
    /\ UNCHANGED <<world, retries, progress, plan, block, grip, ghosts>>

(* Mutant of SetDown: the attempts are not counted.                         *)
SetDownUncounted ==
    /\ pc = "setdown" /\ Holding(block)
    /\ Lands(block, at)
    /\ held' = None
    /\ GoTo("descend")
    /\ UNCHANGED <<at, retries, progress, plan, block, grip, foreign>>

(* Put back where it was taken from, and grasped again there.               *)
SetDown ==
    /\ pc = "setdown" /\ Holding(block)
    /\ Lands(block, at)
    /\ held' = None
    /\ grip' = grip + 1
    /\ GoTo("descend")
    /\ UNCHANGED <<at, retries, progress, plan, block, foreign>>

-----------------------------------------------------------------------------
(* place and verify_tier.                                                   *)

(* Up, square to the tower, and over it; held at every step of the way.     *)
Carry ==
    /\ pc = "carry" /\ Holding(block)
    /\ Over(plan.at)
    /\ GoTo("lower")
    /\ UNCHANGED <<stack, gone, held, retries, progress, plan, block, grip, ghosts>>

(* Lowered to where the surface should be and let go: it lands, or falls    *)
(* and takes some of the tower with it.                                     *)
Release ==
    /\ pc = "lower" /\ Holding(block)
    /\ \/ Lands(block, at)
       \/ Topples(at, {block})
    /\ held' = None
    /\ GoTo("verify")
    /\ UNCHANGED <<at, retries, progress, plan, block, grip, foreign>>

(* Mutant of InPlace: nothing is looked at.                                 *)
InPlaceAnyhow(h) == TRUE

(* The block is as high as it should be, and every block placed before it   *)
(* shows less of itself than it does.                                       *)
InPlace(h) == h = Len(plan.placed) + 1 /\ \A b \in Members(plan.placed) : Covered(b)

TierVerified ==
    LET placed == Append(plan.placed, block)
    IN  /\ pc = "verify" /\ block \notin gone
        /\ \E h \in Heights(block) :
              InPlace(h) /\ plan' = [plan EXCEPT !.placed = placed, !.surface = h]
        /\ progress' = [placed |-> placed, at |-> plan.at]
        /\ Clear
        /\ GoTo("tier")
        /\ UNCHANGED <<stack, gone, held, retries, block, grip, ghosts>>

NotInPlace ==
    IF block \in gone THEN TRUE ELSE \E h \in Heights(block) : ~InPlace(h)

TierNotVerified ==
    /\ pc = "verify" /\ NotInPlace
    /\ Clear
    /\ GoTo("unstable")
    /\ UNCHANGED <<stack, gone, held, retries, progress, plan, block, grip, ghosts>>

AllPlaced ==
    /\ pc = "tier" /\ Len(plan.placed) = Len(Order)
    /\ GoTo("park")
    /\ UNCHANGED <<world, retries, progress, plan, block, grip, ghosts>>

(* The tower is claimed to stand.                                           *)
Park ==
    /\ pc = "park"
    /\ Clear
    /\ GoTo("done")
    /\ UNCHANGED <<stack, gone, held, retries, progress, plan, block, grip, ghosts>>

-----------------------------------------------------------------------------
(* main: a surprise.                                                        *)

(* Mutant of Again: the last attempt is followed by one more.               *)
AgainOnceMore == GoTo("build") /\ retries' = retries - 1

Again ==
    IF retries = 0 THEN GoTo("gave_up") /\ UNCHANGED retries
    ELSE GoTo("build") /\ retries' = retries - 1

(* The gripper is opened and the arm stops clear of everything, unless the  *)
(* stop is refused.                                                         *)
StopAndRetry ==
    /\ pc = "unstable"
    /\ Opens /\ held' = None
    /\ at' \in {None, at}
    /\ Again
    /\ UNCHANGED <<progress, plan, block, grip, foreign>>

(* The gripper refuses to open: the stop that follows it is not reached.    *)
RetryUnstopped ==
    /\ pc = "unstable"
    /\ Again
    /\ UNCHANGED <<world, progress, plan, block, grip, ghosts>>

(* A step of the agent, whether or not the arm and the blocks do as they    *)
(* should.                                                                  *)
Step ==
    \/ BlockOutOfReach \/ Resume \/ StartOver \/ NextBlock
    \/ Descend \/ LostBlock \/ Measure \/ SetDown
    \/ Carry \/ Release \/ TierVerified \/ TierNotVerified \/ AllPlaced \/ Park
    \/ DoesNotConverge \/ Refused
    \/ StopAndRetry \/ RetryUnstopped

Next == Step \/ Sheds \/ Collapses

Spec == Init /\ [][Next]_vars

(* The program runs on, whatever happens to the blocks.                     *)
FairSpec == Spec /\ WF_vars(Step)

-----------------------------------------------------------------------------
(* Properties.                                                              *)

TypeOK ==
    /\ stack \in [Blocks -> Seq(Blocks)] /\ gone \subseteq Blocks
    /\ held \in Blocks \cup {None} /\ at \in Blocks \cup {None}
    /\ pc \in Moving \cup Ended \cup {"build", "unstable"}
    /\ retries \in 0 .. Retries /\ grip \in 0 .. Grips
    /\ known \in BOOLEAN /\ foreign \in BOOLEAN /\ piled \in BOOLEAN

(* When the agent looks its last before it claims a tower, the tower is     *)
(* there: whatever was shed, came down or was resumed on the way, the       *)
(* blocks are on one another in the order asked for, unless blocks in some  *)
(* other order were stacked at the start (stack_blocks.py:546-569, 618-647). *)
LastLook ==
    pc # "tier" /\ pc' = "tier" /\ Len(plan'.placed) = Len(Order)
        => \E p \in Blocks : stack[p] = Order

ClaimStands == [][~foreign => LastLook]_vars

(* An attempt that starts with no tower but the one remembered never sends  *)
(* the gripper to the table through a stack, nor a block into one, as long  *)
(* as nothing falls onto a block: not the first attempt, nor a retry        *)
(* (stack_blocks.py:573-580, 626-647).                                      *)
ContactIsPlanned ==
    known => /\ pc = "descend" => Len(stack[at]) <= 1
             /\ pc = "lower" /\ held = block => Len(stack[at]) <= plan.surface

(* The lowest blocks of some stack are these.                              *)
StandsUnder(placed) ==
    \E p \in Blocks : /\ Len(stack[p]) >= Len(placed)
                      /\ SubSeq(stack[p], 1, Len(placed)) = placed

ExtendsTower ==
    pc = "build" /\ pc' = "tier" /\ Len(plan'.placed) >= 2 => StandsUnder(plan'.placed)

(* An attempt extends a tower that is there, also when --standing counts    *)
(* too many: the blocks are under whatever it resumes on, unless others     *)
(* were stacked at the start or a block has fallen onto another             *)
(* (stack_blocks.py:626-647, 682-694).                                      *)
ResumesOnTower == [][~foreign /\ ~piled => ExtendsTower]_vars

(* A wrong --standing is caught rather than acted on                        *)
(* (stack_blocks.py:683-685).                                               *)
StandingIsCaught == [][~piled => ExtendsTower]_vars

(* Every run of the program ends, with a tower or without one: the grasps   *)
(* and the retries are counted (stack_blocks.py:447-497, 696-718).          *)
EveryRunEnds == <>(pc \in Ended)
=============================================================================
