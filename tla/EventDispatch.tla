----------------------------- MODULE EventDispatch -----------------------------
(***************************************************************************)
(* Listeners and event dispatch of one generation: EventTargetHost,        *)
(* ElementHost, DocumentHost and WindowEventTarget in                      *)
(* src/src/core/page_state.cpp.  Dispatch is synchronous: a listener may   *)
(* dispatch again, any event at any target, the one being dispatched       *)
(* included; it may edit listener lists and, through DomTree, the tree the *)
(* event is bubbling along.                                                *)
(*                                                                         *)
(* One event type.  A frame of stack is one call of dispatchEvent, or of   *)
(* dispatch_native for a lifecycle event; its fields after calling are     *)
(* history.                                                                *)
(***************************************************************************)
EXTENDS Integers, Sequences, SequencesExt

CONSTANTS MaxNodes,     \* elements: a chain below a root, and a last one, detached
          Document, Window,
          Callbacks, NoCallback,
          Events,       \* event objects
          Bubbling,     \* those with bubbles === true
          Registered,   \* the listener lists a behaviour may start with
          MaxDepth,     \* bound on nested dispatches
          MaxActs       \* bound on what JavaScript does

Nodes == 1..MaxNodes
Targets == Nodes \cup {Document, Window}

ASSUME NodesAssumption == MaxNodes \in Nat \ {0, 1}
ASSUME TargetsAssumption == Document # Window /\ {Document, Window} \cap Nodes = {}
ASSUME CallbacksAssumption == NoCallback \notin Callbacks
ASSUME EventsAssumption == Bubbling \subseteq Events
ASSUME RegisteredAssumption ==
    \A l \in Registered : l \in [Targets -> Seq(Callbacks)] /\ \A x \in Targets : IsInjective(l[x])
ASSUME BoundsAssumption == MaxDepth \in Nat /\ MaxActs \in Nat

VARIABLES stack,        \* the dispatches under way, the innermost last
          listeners,    \* target -> its listeners of the type, in order
          stopped,      \* event -> its private "propagation stopped" flag
          target, currentTarget,  \* event -> its properties of these names
          parsing, open, count, parent, children, roots,  \* the tree (DomTree)
          acts          \* how often JavaScript has acted

None == 0
Tree == INSTANCE DomTree

eventVars == <<stopped, target, currentTarget>>
tree == <<parsing, open, count, parent, children, roots>>
vars == <<stack, listeners, eventVars, tree, acts>>

\* Mutant: an event's two properties do not exist before its first dispatch.
InitUndefined ==
    /\ stack = <<>>
    /\ listeners \in Registered
    /\ stopped = [e \in Events |-> FALSE]
    /\ target = [e \in Events |-> NoCallback] /\ currentTarget = target
    /\ parsing = FALSE /\ open = <<>> /\ count = MaxNodes /\ roots = <<1>>
    /\ parent = [n \in Nodes |-> IF n = MaxNodes THEN None ELSE n - 1]
    /\ children = [n \in Nodes |-> IF n + 1 < MaxNodes THEN <<n + 1>> ELSE <<>>]
    /\ acts = 0

\* Scripts have built the tree and registered listeners; every event is new.
Init ==
    /\ stack = <<>>
    /\ listeners \in Registered
    /\ stopped = [e \in Events |-> FALSE]
    /\ target = [e \in Events |-> None] /\ currentTarget = target
    /\ parsing = FALSE /\ open = <<>> /\ count = MaxNodes /\ roots = <<1>>
    /\ parent = [n \in Nodes |-> IF n = MaxNodes THEN None ELSE n - 1]
    /\ children = [n \in Nodes |-> IF n + 1 < MaxNodes THEN <<n + 1>> ELSE <<>>]
    /\ acts = 0

Top == stack[Len(stack)]
WithTop(f) == [stack EXCEPT ![Len(stack)] = f]
Between == stack # <<>> /\ Top.calling = NoCallback   \* the loop of fire_at runs
InJs == stack # <<>> => Top.calling # NoCallback      \* a script or a listener does
Acts == InJs /\ acts < MaxActs /\ acts' = acts + 1

-------------------------------------------------------------------------------
(* What a script or a listener may do *)

add_listener(x, c) ==
    /\ Acts
    /\ listeners' = [listeners EXCEPT ![x] = IF Contains(@, c) THEN @ ELSE Append(@, c)]
    /\ UNCHANGED <<stack, eventVars, tree>>

remove_listener(x, c) ==
    /\ Acts
    /\ listeners' = [listeners EXCEPT ![x] = Tree!Without(@, c)]
    /\ UNCHANGED <<stack, eventVars, tree>>

stopPropagation(e) ==
    /\ Acts
    /\ stopped' = [stopped EXCEPT ![e] = TRUE]
    /\ stack' = [i \in DOMAIN stack |->
                    [stack[i] EXCEPT !.stop = @ \/ stack[i].event = e]]
    /\ UNCHANGED <<listeners, target, currentTarget, tree>>

EditTree ==
    /\ Acts
    /\ \E n, c \in Nodes :
          \/ \E ref \in Nodes \cup {None} : Tree!Insert(n, c, ref)
          \/ Tree!removeChild(n, c)
    /\ stack' = [i \in DOMAIN stack |-> [stack[i] EXCEPT !.edited = TRUE]]
    /\ UNCHANGED <<listeners, eventVars>>

-------------------------------------------------------------------------------
(* Dispatch *)

\* fire_at, entered for target x: currentTarget and the snapshot of x's listeners.
Reaches(f, x) ==
    [f EXCEPT !.at = x, !.rest = listeners[x],
              !.began = listeners[x], !.calls = <<>>, !.visited = Append(@, x)]

Entered(e, x, native) ==
    Reaches([event |-> e, native |-> native, origin |-> x, at |-> x, rest |-> <<>>,
             calling |-> NoCallback,
             began |-> <<>>, calls |-> <<>>, visited |-> <<>>,
             edited |-> FALSE, again |-> FALSE, stop |-> FALSE], x)

Enter(e, x, native) ==
    /\ Len(stack) < MaxDepth
    /\ target' = [target EXCEPT ![e] = x]
    /\ currentTarget' = [currentTarget EXCEPT ![e] = x]
    /\ stack' = Append([i \in DOMAIN stack |->
                           [stack[i] EXCEPT !.again = @ \/ stack[i].event = e]],
                       Entered(e, x, native))
    /\ UNCHANGED <<listeners, tree>>

\* x.dispatchEvent(e), from a script or from a listener.
dispatch_event(e, x) ==
    /\ Acts
    /\ stopped' = [stopped EXCEPT ![e] = FALSE]
    /\ Enter(e, x, FALSE)

\* A lifecycle event, dispatched when no JavaScript runs; a new object without `bubbles`.
dispatch_native(e, x) ==
    /\ stack = <<>> /\ acts < MaxActs /\ acts' = acts + 1
    /\ e \notin Bubbling /\ target[e] = None /\ x \in {Document, Window}
    /\ Enter(e, x, TRUE)
    /\ UNCHANGED stopped

\* Mutant: the loop runs over the live list.
CallListenerLive ==
    /\ Between /\ Len(Top.calls) < Len(listeners[Top.at])
    /\ stack' = WithTop([Top EXCEPT !.calling = listeners[Top.at][Len(Top.calls) + 1],
                                    !.calls = Append(@, listeners[Top.at][Len(@) + 1]),
                                    !.rest = SubSeq(listeners[Top.at], Len(Top.calls) + 2,
                                                    Len(listeners[Top.at]))])
    /\ UNCHANGED <<listeners, eventVars, tree, acts>>

CallListener ==
    /\ Between /\ Top.rest # <<>>
    /\ stack' = WithTop([Top EXCEPT !.calling = Head(Top.rest), !.rest = Tail(@),
                                    !.calls = Append(@, Head(Top.rest))])
    /\ UNCHANGED <<listeners, eventVars, tree, acts>>

\* It returned or threw; the exception is swallowed.
ListenerReturns ==
    /\ stack # <<>> /\ Top.calling # NoCallback
    /\ stack' = WithTop([Top EXCEPT !.calling = NoCallback])
    /\ UNCHANGED <<listeners, eventVars, tree, acts>>

\* Mutants: the flag is not checked between hops; a detached subtree escapes.
NextHopUnstopped(f, x) ==
    /\ ~f.native /\ f.origin # Window /\ f.event \in Bubbling
    /\ \/ f.at \in Nodes /\ parent[f.at] # None /\ x = parent[f.at]
       \/ f.at \in Nodes /\ parent[f.at] = None /\ Tree!is_in_tree(f.origin) /\ x = Document
       \/ f.at = Document /\ x = Window

NextHopEscapes(f, x) ==
    /\ ~f.native /\ f.origin # Window /\ f.event \in Bubbling
    /\ ~stopped[f.event]
    /\ \/ f.at \in Nodes /\ parent[f.at] # None /\ x = parent[f.at]
       \/ f.at \in Nodes /\ parent[f.at] = None /\ x = Document
       \/ f.at = Document /\ x = Window

\* run_element_bubbling and DocumentHost::dispatch_event: the tree and the flag are
\* read as they are when the walk gets there.
NextHop(f, x) ==
    /\ ~f.native /\ f.origin # Window /\ f.event \in Bubbling
    /\ ~stopped[f.event]
    /\ \/ f.at \in Nodes /\ parent[f.at] # None /\ x = parent[f.at]
       \/ f.at \in Nodes /\ parent[f.at] = None /\ Tree!is_in_tree(f.origin) /\ x = Document
       \/ f.at = Document /\ x = Window

\* Mutant: fire_at sets target too, as it did before events bubbled.
HopRetargets(x) ==
    /\ Between /\ Top.rest = <<>>
    /\ NextHop(Top, x)
    /\ target' = [target EXCEPT ![Top.event] = x]
    /\ currentTarget' = [currentTarget EXCEPT ![Top.event] = x]
    /\ stack' = WithTop(Reaches(Top, x))
    /\ UNCHANGED <<listeners, stopped, tree, acts>>

Hop(x) ==
    /\ Between /\ Top.rest = <<>>
    /\ NextHop(Top, x)
    /\ currentTarget' = [currentTarget EXCEPT ![Top.event] = x]
    /\ stack' = WithTop(Reaches(Top, x))
    /\ UNCHANGED <<listeners, stopped, target, tree, acts>>

EndDispatch ==
    /\ Between /\ Top.rest = <<>>
    /\ ~\E x \in Targets : NextHop(Top, x)
    /\ stack' = Front(stack)
    /\ UNCHANGED <<listeners, eventVars, tree, acts>>

-------------------------------------------------------------------------------
Next ==
    \/ \E x \in Targets, c \in Callbacks : add_listener(x, c) \/ remove_listener(x, c)
    \/ \E e \in Events : stopPropagation(e)
    \/ EditTree
    \/ \E e \in Events, x \in Targets : dispatch_event(e, x) \/ dispatch_native(e, x)
    \/ CallListener \/ ListenerReturns \/ EndDispatch
    \/ \E x \in Targets : Hop(x)

Spec == Init /\ [][Next]_vars

-------------------------------------------------------------------------------
(* Properties *)

Frames ==
    [event : Events, native : BOOLEAN, origin : Targets, at : Targets,
     rest : Seq(Callbacks), calling : Callbacks \cup {NoCallback},
     began : Seq(Callbacks), calls : Seq(Callbacks), visited : Seq(Targets),
     edited : BOOLEAN, again : BOOLEAN, stop : BOOLEAN]

TypeOK ==
    /\ stack \in Seq(Frames) /\ Len(stack) \in 0..MaxDepth
    /\ listeners \in [Targets -> Seq(Callbacks)]
    /\ stopped \in [Events -> BOOLEAN]
    /\ target \in [Events -> Targets \cup {None}]
    /\ currentTarget \in [Events -> Targets \cup {None}]
    /\ Tree!TypeOK
    /\ acts \in 0..MaxActs

\* A hop calls the listeners its target had when the hop began, each once and in order,
\* however many the listeners (or dispatches nested in them) add and remove.
HopServesSnapshot ==
    \A i \in DOMAIN stack :
        /\ stack[i].calls \o stack[i].rest = stack[i].began
        /\ IsInjective(stack[i].began)

\* Unless its event is dispatched again from within, a dispatch keeps event.target at
\* its origin and event.currentTarget at the hop whose listeners run, also after other
\* events were dispatched in between.
TargetsStay ==
    \A i \in DOMAIN stack :
        ~stack[i].again => /\ target[stack[i].event] = stack[i].origin
                           /\ currentTarget[stack[i].event] = stack[i].at

StaysPut(i) == i \in DOMAIN stack' => stack'[i].visited = stack[i].visited

\* Once a listener has called stopPropagation() no later target is reached, unless the
\* event was dispatched again from within.
StopHolds ==
    [][\A i \in DOMAIN stack : stack[i].stop /\ ~stack[i].again => StaysPut(i)]_vars

\* The targets of a dispatch, as docs/m4_a_7_event_bubbling.md lists them.
Route(f) ==
    IF f.native \/ f.origin = Window \/ f.event \notin Bubbling THEN {f.origin}
    ELSE IF f.origin = Document THEN {Document, Window}
    ELSE {m \in Nodes : Tree!is_self_or_ancestor(m, f.origin)}
            \cup IF Tree!is_in_tree(f.origin) THEN {Document, Window} ELSE {}

Beyond(y, x) ==
    \/ y = Window /\ x # Window
    \/ y = Document /\ x \in Nodes
    \/ x \in Nodes /\ y \in Nodes \ {x} /\ Tree!is_self_or_ancestor(y, x)

\* A dispatch during which the tree is left alone visits its route from the inside out,
\* no target twice, and all of it unless a listener stops it.
BubblesAlongPath ==
    [][Len(stack') < Len(stack) /\ ~Top.edited =>
          /\ \A i, j \in DOMAIN Top.visited :
                i < j => Beyond(Top.visited[j], Top.visited[i])
          /\ ToSet(Top.visited) \subseteq Route(Top)
          /\ Top.stop \/ ToSet(Top.visited) = Route(Top)]_vars
===============================================================================
