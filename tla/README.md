# Verification of iv8-runtime

TLA+ models, model-checking runs and machine-checked proofs for iv8-runtime, a
Python extension that embeds V8 and gives scripts a small page: a document, events,
timers and a load lifecycle, without a browser. Paths in this directory are relative
to the directory that holds `tla/` and the repository (`src/`), so the native
code is `src/src/core/...`, the headers `src/include/iv8/...`, the Python package
`src/python/iv8/...` and the documentation `src/docs/...` (module comments name the
last one `docs/...`, as the repository does).

`PROJECT.json` lists the components, the runs, the lines each definition
translates, the hazards, the findings and the theorems.

## 1. The system

| Part | State | Operations | Talks to |
| --- | --- | --- | --- |
| `ContextState`, `ContextHost`, `OperationScope`, `JsValue` (`context_host.cpp`, `js_value.cpp`) | `op_mutex_`, `disposed_`, isolate, context, handle table `values_`/`next_id_`, wrappers in Python | `eval`, `run_timers`, `run_jobs`, `to_py`, `type_name`, `dispose`, destructors | GIL, `v8::Locker`; hooks of `PageState` in teardown |
| Timers and jobs (`context_host.cpp`, `page_state.cpp`) | `timers_`, `next_timer_id_`, `next_timer_seq_` | `setTimeout`, `setInterval`, `clear*`, `run_timers`, `run_jobs` | JavaScript callbacks re-enter the registry |
| Element tree (`DomNode`, `DocumentHost`, `ElementHost`) | node pools, parent and children pointers, `roots_` | parsing, `createElement`, `appendChild`, `insertBefore`, `removeChild`, `textContent`, queries, `isConnected` | walked by events, forms, scripts list |
| Events (`EventTargetHost`, `WindowEventTarget`, `Event`) | listener lists, an event's stop flag, `target`, `currentTarget` | `addEventListener`, `removeEventListener`, `dispatchEvent`, `stopPropagation`, `dispatch_native` | the tree; listeners re-enter everything |
| Page loading (`page.py`, `PageState`) | `Page._ready_state`, the generation, `ready_state_`, `current_script_` | `load`, `html_scripts`, `run_html_script`, `dispatch_lifecycle_events`, `dispose` | several native calls per load, other threads in between |
| HTML parsing (`parse_html`) | none beyond the tree and the script records | one pass over the source | the tree |
| DevTools (`page_state.cpp`, `_devtools.py`) | inspector per generation, session, outbox, server thread | `devtools_url`, `devtools_dispatch`, pause requests, shutdown | load, dispose, server threads |
| `WatchRegistry` (`watch_registry.h`) | watched paths, hits, current resource | `watch_apis`, `read_watch_api_hits`, `maybe_record` | every host method; `eval`; DevTools pauses |
| Form controls (`page_state.cpp`) | value, checked, selected slots and their defaults | setters, `reset`, `requestSubmit`, `form.elements` | the tree |
| Value conversion (`value_converter.cpp`, `js_exception.cpp`) | none | `to_python_deep`, error extraction | runs Python code under the guard |
| Encoding, `URL`, `URLSearchParams`, Base64 | per-object parameter lists | pure functions | none |
| Host objects, console, navigator, location, probe | none | accessor trampolines, logging | console calls Python `logging` |
| `EngineRuntime`, `IsolateHost` | once flag, platform; one isolate | initialise, dispose | every context |
| Bindings and facade | none of their own | forwarding, exception translation | all of the above |

### What makes each part hard, and what makes it correct

* **Context lifecycle.** Python threads call one context concurrently. The operation
  mutex is only try-locked, the `v8::Locker` is taken while the GIL is held, JavaScript
  runs with the GIL released, and `console.log` takes the GIL from inside the Locker.
  Destructors run whenever Python drops an object. *Correct:* one thread inside at a
  time, no deadlock, nothing torn down under a call, a handle table that equals
  the set of live wrappers, and the promises of `docs/api_contract.md`.
* **Timers.** Callbacks change the registry the pump iterates over. *Correct:* each pump
  fires its snapshot in order, forgets nothing, fires nothing cancelled or new, returns.
* **Tree.** Raw pointers in two directions, long sequences of moves. *Correct:* the two
  directions agree, no cycles, moves disturb nothing else, and all the walks agree on
  what is in the document.
* **Events.** Synchronous re-entrance: nested dispatch of the same event, edits of the
  list being served and of the path being walked. *Correct:* each hop serves the
  snapshot it took, stop flags and targets belong to their dispatch, an undisturbed
  dispatch visits exactly its route.
* **Page loading.** A load is a dozen native calls without a guard around them;
  scripts fail, resources are missing, other threads evaluate, load or dispose. *Correct:*
  a generation runs the scripts of its own load in order, the lifecycle follows the last
  of them, readyState only moves forward, a failed load is visible as such.
* **DevTools and watch.** Server threads race load, dispose and each other; messages
  wait in an outbox that a load discards. *Correct:* one server per page, a stable
  endpoint, a reply or an error for each message, hits attributed to their script.
* **Forms.** Dirty slots against defaults, controls moved between forms. *Correct:*
  reset restores the seeds of exactly the live subtree.
* **Conversion, parsing, codecs.** Pure but recursive, with limits. *Correct:* agree with
  a reference definition up to the limits.

## 2. Modules

| Module | Models | Builds on |
| --- | --- | --- |
| `ContextPromise` | what a context promises its callers (abstract) | |
| `ContextLifecycle` | `ContextState` with GIL, mutex, Locker, handle table, teardown | `ContextPromise` (refinement) |
| `TimerPump` | the timer registry and `run_timers()` | |
| `DomTree` | nodes, links, `roots_`, tree methods, the parser's stack of open elements | |
| `HtmlParse` | `parse_html` and `parse_attributes` over a source, script records, text ranges | `DomTree` |
| `FormControls` | control slots, their seeding, `reset()`, what `form`, `elements` and `value` read off the tree; a page as it is read and then edited | `HtmlParse`; implements `DomTree` |
| `EventDispatch` | listeners and dispatch over the live tree | `DomTree` (instance) |
| `PageLoad` | `Page.load` over `PageState`, threads in between | |
| `DevTools` | the DevTools endpoint, its connections, the Inspector of each generation, `WatchRegistry` | |
| `ValueConversion` | `to_python_deep`, its limits, cycles and getters | |
| `Base64` | `btoa`, and `atob` turn by turn | |
| `Url` | `decompose_url`, `resolve_url`, the `URL` constructor | |
| `ParamList` | what a `URLSearchParams` object promises: a list of pairs (abstract) | |
| `UrlParams` | `URLSearchParams` over one percent-encoded string | `ParamList` (refinement) |
| `Encoding` | the encoding globals as a script uses them | `Base64`, `Url`, `UrlParams` |
| `Conversions` | all that turns one form of data into another, one kind in a behaviour | `ValueConversion`, `Encoding` |
| `ContextLifecycle_proofs`, `TimerPump_proofs`, `DomTree_proofs`, `FormControls_proofs`, `EventDispatch_proofs`, `PageLoad_proofs`, `DevTools_proofs` | theorems | the modules they are named after; `FormControls_proofs` and `EventDispatch_proofs` also on `DomTree_proofs` |
| `Conversions_proofs` | theorems | `Conversions` |
| `MCContext`, `MCTimers`, `MCDom`, `MCEvents`, `MCLoad`, `MCDevTools`, `MCConversion`, `MCConversions` | constants for TLC | one model each; `MCDom` is over `FormControls`, `MCConversion` over `ValueConversion` |

Definitions keep the names of the code where there is one function for them
(`is_in_tree`, `setTextContent`, `add_listener`, `ready_state_`). Definitions called
"Mutant" in their comment are plausible bugs: each replaces one
definition of the model and makes one property fail, which shows that the property
depends on what the code does. They are used by nothing else.

### ContextLifecycle

Each thread has a program counter `pc` for its current native call: `locking`
(OperationScope passed, waiting for the Locker), `running` (JavaScript, GIL released),
`hosting` (a Python logging handler called by `console.log`), `rejoin` (waiting for
the GIL), `pumping`, `lookup`, `convert` (Python code runs while a result is converted),
`unlock`, `leave`, and `disposing`. Where Python code runs the interpreter may switch
threads, and a handler or getter may call the same context again: `Refused` is the
answer it gets. Holding the GIL across the Locker, and the stages of teardown, are as
in the code; `table_mutex_` needs no variable since its sections run under the GIL
without a switch. `std::mutex::try_lock` by the thread that owns the mutex is undefined
in the C++ standard; the supported builds answer "not locked", and so does the model.

`OwnerDropsMidCall` says whether Python may drop the last reference to the
`JSContext` or `Page` while a call on one of its `JSValue`s is inside the isolate. The
code does not prevent it (finding `context_owner`); the safety theorems that need it
state `OwnerDropsMidCall = FALSE` as their assumption, and the run `context` does the same.

`ContextPromise` has no threads' program counters, locks or stages: only which
operation is active, which values can be read, and how calls were answered. The
refinement mapping (`Promise`, at the end of `ContextLifecycle`) reads an operation as
active while its thread owns `op_mutex_` and the closing of a context as the moment
`disposed_` is set.

### TimerPump

`mode` is what runs: nothing, a script, the pump's loop, or a callback of the pump. A
callback and a script have the same operations. The registry is `timers` with `delay` and
`repeating`; `due` is the rest of the pump's snapshot. `base`, `fired` and `cancelled`
are history. Delays wrap as `Int32Value` does, with `Half` for 2^31.

### DomTree

A node is its allocation number; `parent`, `children` and `roots` are the code's
pointers. The parser's stack is `open`. Walks along parents or children are written
as least closed sets (`ClosedUp`, `ClosedDown`) and not by recursion, so that the module
can be proved about.

### HtmlParse

A source is a sequence of symbols: the characters the parser looks for (`<`, `>`, `/`,
`=`, quotes, white space) and words for runs of anything else. `pos` is the parser's index;
each turn of `parse_html`'s loop is an action, and a start tag whose attributes are being
read (`tag`) takes one more for every turn of `parse_attributes`' loop. `content_start` and
`content_end` delimit the text an element was read from: `RangeIsSubtree` says that
the ranges nest as the elements do, so that a script's or an option's text is its own.
An end tag that matches no open element, raw text without an end, comments and
upper-case names are all in the enumerated sources.

### FormControls

The page is read first (`ReadPage`, one native call and therefore without interleaving);
its last step is what the `DocumentHost` constructor makes of it: `slots` and `initial` are
seeded from the attributes and a select's options are reduced to one selected. Then
`RunScript` is any method or writable property of an element, tree edits included, in any
order. `form`, `elements` and `value` are read off the tree on every call and have
no variable. `collect_matching` is the code's recursive walk, as a recursive function
over the nodes: `form.elements`, `reset()` and the options of a select are what it lists, and `OwnersAgree`
and `ResetRestores` compare that with the pointers up the tree. Nested selects are normalised in
document order, the outer one first.
`loaded` is history: what each control read when the page was built, which is what
`reset()` has to restore.

### ValueConversion

`ancestors` and `stack` are the activations of `deep_impl`; keys and lengths are read on
entry and each element when its turn comes, so that a getter which edits an object being
converted acts between the two. Numbers are counted in halves and `Border` stands for
2^63, which keeps the border of `std::int64_t` and fractions apart. `docs/api_contract.md` 4.1 gives an
"exact integral Number" as an `int` and only a non-integral one as a `float`; `convert_number`
returns a float for whole Numbers beyond the border as well. The code contradicts the contract there,
`IntegralsAreInts` states the contract and fails (finding `integers`), and `ConvertsFaithfully`, which is
about the rest, accepts an exact int or a float for such a Number. It compares, place by place, what a path of indexes leads to in the heap (`InHeap`) and in the result (`InResult`), which needs no
definition that follows the whole value at once; the depth limit is checked before the
cycle, so a cycle at the limit is reported as depth. Getters that never return are
a property of the script and not modelled.

### Base64, Url, UrlParams

`btoa` is one step. `atob` is a step for each character it reads or shifts into its buffer, which
is what the proof is about. URLs are sequences of delimiters and words. A
`URLSearchParams` object keeps one encoded string in a private slot, which every method
parses and writes back; `ParamsKeepList` shows that this is a list of pairs, by
the refinement to `ParamList` under the mapping `Shown` and `Answer`: the list is what the string
parses to, and a string that `toString` returns is read the same way. A method whose argument throws on conversion to a string
still edits the list, with the empty string in its place: the model does the same, in
both modules. The facilities share no state, so a behaviour of `Encoding` is about
one of them; `Conversions` adds the conversion of results in the same way, for a run over all of them.

### EventDispatch

`stack` has a frame for each dispatch under way. `CallListener`, `ListenerReturns`, `Hop`
and `EndDispatch` are the loops of `fire_at` and `run_element_bubbling`; JavaScript acts
between them, when a listener is being called or when no dispatch is under way.
The tree is an instance of `DomTree` with the same variables, and `EditTree` is
`DomTree`'s `Insert` or `removeChild`. Fields of a frame after `calling` are history.
Dispatching an event again clears its stop flag, also for an outer dispatch of the same event that
was stopped and now goes on (`page_state.cpp` 1657; `docs/m4_a_7_event_bubbling.md` 61
says the current hop is the last), and overwrites its target and currentTarget: `StopHolds` and `TargetsStay`
exempt exactly that, while `BubblesAlongPath` holds of such a dispatch too.

### PageLoad

A step is a stretch of code under the GIL, or of JavaScript with the GIL released and
the operation mutex held. `Loaders` are the threads that call `load()`; the others
evaluate and dispose. `entering` is the stretch of `run_html_script` between setting
`current_script_` and the guard of `eval`: no Python code runs there, but the JavaScript
of another thread does. A script may overwrite the global `document`; `dispatch_lifecycle_events`
then finds no document, skips it, and `readyState` stays `"loading"` although the load
succeeds (`page_state.cpp` 3603, `docs/m3_6_ready_state.md` 54). The model includes it, and
`ReadyStateForward` does not object.

### DevTools

`Callers` are Python threads that use the page, `Clients` the handler threads of
WebSocket connections. `pc` and `mine` place a caller in `Page.devtools_url`
(`starting`, `started`), `Page.dispose` (`stopping`, `stopped`) or a native
call (`eval`, `pump`); `conn` is what a handler thread does: it is `closed`, it waits for a
frame (`open`), it holds a message it has read, or it is `inside` JavaScript that the
message runs. `Respond` is the response of the session and the drain of `outbox_`,
which is shared by all connections. A dispatch runs JavaScript with the GIL held, unlike
`eval`; because `console.log` calls Python, other threads run in the middle of it all
the same. `maybe_record` is an act of whatever JavaScript runs: it appends a
hit and, if the watched path pauses and a debugger is attached, a notification.
`running`, `recorded`, `read` and `asked` are history, and so is `got`.

The model also shows behaviour that no property of it objects to. Two threads that
call `devtools_url()` at once both find no server and start two, one of which nobody
stops. A `dispose()` that is refused as busy has stopped the server already; the next
`devtools_url()` starts another one, with another URL. A connection outlives the server
that accepted it, and `dispose()`: `devtools_dispatch` on a disposed page returns no frames
and raises nothing (`page_state.cpp` 3338), where `page_state.h` 91 promises
`JSContextDisposedError`, and its messages get no answer at all. What the model leaves out is a second
`dispose()` between the first one's test of `self._devtools` and its call of `shutdown()`
(`page.py` 363), which makes that call raise `AttributeError`.

## 3. Runs

| Run | Bounds | Shows |
| --- | --- | --- |
| `context` | 2 threads, 2 wrappers | type correctness, one thread inside, no use after teardown, handle table, refinement of `ContextPromise`, every call returns |
| `timers` | 3 registrations; delays that are kept, clamped, and wrapped; 2^31 shrunk to 4 | order, completeness, no stale firing, pumps end |
| `dom` | 4 nodes; every source of up to 3 of 12 pieces, read and left alone; 3 pages with form controls, of up to 3 elements, whose scripts may create another one | links, no cycles, connected against queried, moves keep order, text ranges, `form` against `elements`, `reset()`, single selection |
| `events` | 3 elements, `document`, `window`; one bubbling event and one not; 2 nested dispatches, 4 acts of JavaScript | snapshots, targets, stop flag, route |
| `load` | 1 loader and 1 other thread, 3 documents, 1 host script, 2 loads | script order, lifecycle order, currentScript, readyState, loads end |
| `devtools` | 2 callers, one of which also uses the page, 2 connections; 2 servers, 2 generations, 2 hits, 2 messages | an Inspector of the current generation, replies to their sender, hits attributed and read once, the URL is served |
| `conversions` | 3 objects, depth limit 2, 2 getter runs, 2^63 shrunk to 4; 3 calls of encoding globals; strings of up to 5 bytes; URLs resolved up to 3 deep; 2 `URLSearchParams` objects | recursion bounded, the result is the value's unfolding, failures name their cause; `atob` undoes `btoa`, references stay within their origin, an object is its list of pairs |
| `context_owner` | 2 threads, 1 wrapper | finding |
| `dom_roots` | 4 nodes | finding |
| `parse_slash` | one page | finding |
| `load_overlap` | 2 loaders | finding |
| `integers` | the heaps of `conversions` | finding |

Why the bounds are enough: two threads are what every race of the context needs, one
inside and one that calls, drops or disposes; the proofs cover any number. Two wrappers
tell "this handle" from "another one". Three timers give a callback that changes the
fate of one that is due and one that is new. Four nodes make two
trees of two, or a move inside a list of three; three pieces of source make an element inside another
with an end tag that closes either or none, and the form pages have two controls of one form, a
select of two options that both claim to be selected, and a control outside the form, to be moved into it. Three
objects below a depth limit of two give a shared object, a cycle of each length and one
level too many; two getter runs let one undo what the other did. Byte strings up to five have
a last group of one, two and three; the theorem covers the rest. Four acts are a dispatch, a nested one,
and two edits. A document with a script to skip between two that run, one with
a missing resource and one without scripts are the shapes the loop distinguishes; two
loads have a repeated one. For DevTools two messages let one connection's answer be
mistaken for another's, or one connection get both; two generations and two servers tell
old from current; two hits have an order. The two connections are interchangeable, and
the run uses that as a symmetry.

Runs without `CHECK_DEADLOCK FALSE` check that the system never gets stuck; the
configurations that switch it off (`timers`, `dom`, `dom_roots`, `parse_slash`, `events`, `load`,
`load_overlap`, `devtools`, `conversions`, `integers`) say why: a disposed page, a page that runs no
script and is read to its end, a conversion that is over, or a script that has used up its
bounded loads, acts or calls really stops.

### Fairness

* `context`: native code that waits for nothing but the Locker proceeds (WF); the
  interpreter preempts running Python code (`YieldGil`, WF) and gives the GIL to each
  thread that keeps asking for it (SF on `TakeGil` and `Rejoin`: others may take it in
  between, but the switch interval rotates it); scripts, handlers, conversions and the
  pump's finite snapshot come to an end (SF, because they need the GIL to). The program
  has no way to end a script that loops for ever, and promises none.
* `timers`: the pump's loop proceeds (WF) and callbacks return (SF: a callback may go on
  registering timers, between which it stays enabled).
* `load`: threads are scheduled and scripts end (SF on a load's steps and on the end of
  an evaluation).
* `dom`, `parse_slash`: parsing is one uninterrupted native call, so its steps follow each other
  (WF on `ReadPage`); scripts are under no obligation to do anything.
* `devtools`, `events` and `conversions` state no liveness and assume no fairness.

### Findings

1. `context_owner` — `~ContextHost` and `~PageState` tear down without the operation
   guard; `docs/architecture.md` 6.2 requires that no evaluation is active. Dropping the
   context while a `JSValue` conversion runs disposes the isolate under it.
2. `dom_roots` — a top-level element never leaves `roots_`: moved below a detached
   element it is found by queries and reports `isConnected === false`.
3. `load_overlap` — two overlapping loads are not refused; scripts of one run in the
   generation of the other.
4. `parse_slash` — `parse_attributes` never steps over a `/` at which a turn of its loop begins: an
   unquoted value that contains one, as in `<p href=/x>`, makes the parser, and with it `Page.load`,
   loop for ever.
5. `integers` — `convert_number` returns a float for whole Numbers at 2^63 and beyond, or below
   -2^63, where `docs/api_contract.md` 4.1 gives an int for every exact integral Number.
   `docs/test_plan.md` 129 speaks of a "defined numeric policy", which no document defines.

## 4. Proofs

All theorems hold for every value of the constants that satisfies the named
assumptions of the module.

* **`ContextLifecycle_proofs`.** `LocksHeld` says who owns GIL, mutex and Locker at each
  program counter; it implies `OneThreadInside` for any number of threads
  (`MutualExclusion`). `Lifetimes` adds what is alive at each stage of a teardown and
  gives `NoUseAfterTeardown` (with `OwnerDropsMidCall = FALSE`) and `HandleTable`.
  `OneThreadInside` is not inductive alone: a thread at `unlock` or
  `locking` must be known to own the mutex too. `Answered` relates answers to program
  counters for the refinement: `PromiseStep` maps every step to a step of
  `ContextPromise` or a stutter, and `PromiseKept` concludes `Spec => Promise!Spec`.
* **`TimerPump_proofs`.** The invariant is `TypeOK`, order, completeness and `PumpInv`
  (what is due lies after all that was fired; a callback's timer is the last fired). From
  it and `Separate` (a cancelled timer is not registered) follow `InOrder`,
  `AllServed` and the action property `NothingStale`.
* **`DomTree_proofs`.** `TypeOK /\ TreeLinks` is inductive: the link of the two pointers
  is what makes `Without` and `InsertedAt` land where they should. `NoCycles` argues with
  closed sets: a set closed under the new parent pointers without a top either misses
  the moved child, and was closed before, or contains its new parent and with it, by the
  insertion check, a walk that never meets the child. `ConnectedAreFound` needs no more than the
  links: `WalksAgree` turns a walk down from `roots_` around into one up. The action
  property `OrderIsKept` rests on `WithoutInserted`: taking out what was put in gives the
  list back.
* **`FormControls_proofs`.** `PagesImplementTree`: every step of a page is a step of `DomTree` or
  leaves its variables alone (`ReadPageEditsTree` for the parser's, `RunScriptEditsTree` for the
  scripts'), so `FormSpec => Spec` of `DomTree`, and `PageLinks`, `PageAcyclic`, `PageConnected`
  and `PageOrder` follow from the theorems of `DomTree_proofs` for any source and any scripts.
  `RangesAreSubtrees` is about every source: `RangeIsSubtree` alone is not inductive,
  since it says nothing of elements that are still open. `ParserInv` adds that the stack of open
  elements is a branch of the tree (`Branch`), that all that was read since an element opened
  is below it (`RangesNest`), and that no range reaches past the place in the source
  (`RangesRead`). `StartTagWalks` shows that linking a node changes no other node's walk;
  `FindBounds`, `CloseBounds` and `PastBounds` show that scanning never goes back.
  `OwnersAlwaysAgree`, `ResetsRestore` and `SelectsShowAssigned` are about what the page reads off its
  tree. They rest on one fact of the walk of `collect_matching`: on a tree with agreeing links and no
  cycle it ends, and lists exactly the matching elements below where it starts. `SlotsKept` and
  `LoadedKept` add that defaults are only set when the page is built, and that what was read then is what
  they hold; the type and the attributes of an option may change afterwards, so a select is compared by
  its options and their values.
* **`EventDispatch_proofs`.** `SnapshotServed`, `TargetsAreKept` and the action properties
  `StopIsKept` and `RoutesAreServed`, for any listeners, elements and depth of nesting. The
  invariant has the properties themselves and how frames hang together: `Listed` (no callback
  is registered twice), `Nested` (a dispatch with an inner one of the same event is marked as
  such), `Flagged` (the event's stop flag agrees with what its dispatches remember),
  `Underway` (what a frame has visited begins at its origin and ends where its listeners run)
  and `Bubbles` (what a frame has not visited lies beyond where it is). The tree is `DomTree`'s, and so are its lemmas, used by
  instance: `RoutesAreServed` needs that the tree has no cycle.
* **`PageLoad_proofs`.** `TypeCorrect` holds for any threads. `ScriptsInOrder`, `LifecycleLast`,
  `ScriptsSeeLoad` and `ReadyStateMonotone` assume `OneLoader`, that one thread calls `load()`,
  and nothing of the others; the finding `load_overlap` shows that the code does break them
  with two. `LoadInv` says for each program counter of the load which scripts have run, what
  `ready_state_` is and that `current_script_` is set only around its own script;
  `OthersEvaluate` that no other thread is anywhere but in an evaluation.
* **`DevTools_proofs`.** `InspectorOfGeneration`, `HitsOnceInOrder`, `UrlIsServed` and
  `RepliesToSender`, for any threads, connections, generations and servers. The invariant adds
  `MutexHeld` (who is inside owns the guard), `Stamped` (hits carry the stamp of what runs),
  `ServersApart` (no two threads hold the same fresh server) and `RepliesMatch`:
  between dispatches only notifications are in the outbox, which is why a drain by one
  connection never takes the answer of another.
* **`Conversions_proofs`.** `RecursionIsBounded`: the activations and the objects they convert
  are as many, each object is on the way once, and entering another one is refused at the limit and
  on a repetition. Nothing is assumed of the heap, so getters may do anything to it.
  `ConversionIsFaithful` is for heaps of any size (`HeapsAssumption` says what a heap is), for conversions
  that ran no getter. `FaithfulInv` has `StackSound`: of each activation, what it has converted stands, place
  by place, for what the heap holds there, and the activations lie on a path from the
  root; so a finished value stands for the whole, and a failure has the path that it names.
  `AtobUndoesBtoa` is for byte strings of any length and with white space anywhere.
  The invariant speaks of the calls whose text, white space dropped, is what `btoa` returned: after
  4j + r characters 3j and at most two more bytes have been put out, they are a prefix of
  the source, and the bits pending in the buffer are the upper ones of the byte to
  follow. `SextetsOfGroup` is the arithmetic of one character of the code, `Shifting` that of the
  buffer, `DecodeStep` the turn of the loop. `ReferencesStayWithinOrigin` is for references and bases
  of any length over any symbols among which the delimiters are (`UrlAssumption`):
  the origin of an absolute URL ends at the first `/`, `?` or `#` after `://`
  (`BoundaryUnique`), so what is appended behind it starts with one of these, or is empty, and leaves the
  origin as it is (`OriginKept`); `DirectoryRooted` shows that a directory does, and
  `MergedKeepsOrigin` goes through the cases of `resolve_url`. `ParamsAreLists` is the refinement of
  `ParamList` by `UrlParams`, for byte strings of any length as queries, names and values
  (`ParamsAssumption`). Of the state it needs only that slots hold byte strings (`ParamsInv`); the rest is about
  the functions: `EncodedDecodes` (what `usp_encode` writes, whatever follows it, `usp_decode` reads back), `TokenFacts`
  (it writes neither `&` nor `=`, so a token is cut where it was joined) and `SerializeParses` (for any list
  of pairs), then a lemma for each method (`SetReplaces`, `GetFindsFirst`, `SetRefines` ...). `PageAtobUndoesBtoa` and
  `PageReferencesStayWithinOrigin` state the other two for `Encoding`, and `PagesConvert` says that
  every behaviour of `Conversions`, the specification of the run, is one of `ValueConversion` and of `Encoding`.

What recursive functions yield for arguments of any size is proved without the library's induction
theorems, which take an operator as a parameter: a set of naturals that is not empty has a least member
(`LeastOf`, from the well-foundedness of `<`), so a counterexample would have a least one. `CountsUp`
is that argument once and for all, for a set of naturals; `PeeledExists`, `PeeledUnique` and `PeeledType` make of it that a
recursion which takes a part off the front of a sequence defines a function, and `SumsExist` and
`SumIsFlat` that flattening is what its partial sums lead to.

Left to TLC: liveness (`CallsReturn`, `PumpEnds`, `LoadsEnd`), which needs fairness and `ENABLED` and is
beyond TLAPS. All other properties of the passing runs, invariants, action properties and
refinements, are theorems.

## 5. Not modelled

V8 itself is external: a script is whatever it may call, a microtask checkpoint is a
script, a Global handle is a membership in a set. Strings that the properties do not tell apart are
single symbols. Selectors and the element collections read the tree with other filters and change
nothing; `split_class_tokens` and `extract_title` only cut strings; `TextEncoder` and
`TextDecoder` hand their bytes to V8. `js_exception.cpp` copies the fields of an exception into
a record. Conversion of strings and BigInts is V8's and CPython's. The attributes that
scripts set are reduced to the one that control state follows, the `value` of an option.
Multi-type events, `bubbles` or `target` overwritten by scripts
(they are ordinary properties) and a global `document` overwritten during a
dispatch are left out of `EventDispatch`. The walk of a dispatch during which
listeners keep moving nodes has no bound in the code, so no property says it ends.
The race of `html_scripts()` with a running script is listed as a hazard only; so is
`current_script_`, which is set before the guard and which the script that another thread
is evaluating can therefore see. The discovery endpoints of the DevTools server, its
frame codec and pings move bytes and change no state of the page; the Inspector's
protocol is external and reduced to one message that enables the debugger and one that
runs JavaScript.
The build, the packaging and the wheel's help texts have no behaviour to model.

## 6. Plan

What could be added, in this order:

1. A composition of `PageLoad` over `ContextPromise`, whose operations it restates as `Free`, so that
   a load is shown to use nothing but what a context promises. It needs the answers of refused
   calls as a history variable of `PageLoad`, and a promise for a page whose context is replaced.
2. The selector matcher and the collections over `DomTree`.
3. `html_scripts()` as the several reads that it is, for the race with another thread's script.
