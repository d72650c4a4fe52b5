---------------------------- MODULE TimerPump_proofs ----------------------------
(***************************************************************************)
(* Theorems about TimerPump, for every set of delays and any number of     *)
(* timers: one pump fires in order, forgets nothing, and fires nothing     *)
(* that was cleared, consumed or registered meanwhile.                     *)
(***************************************************************************)
EXTENDS TimerPump, TLAPS

\* What the pump still has to do comes after what it did, is registered unless a script
\* cleared it, and is nothing outside a pump.
PumpInv ==
    /\ \A k \in DOMAIN fired : \A j \in due : Before(fired[k], j)
    /\ \A j \in due : j \in timers \cup cancelled
    /\ mode \in {"idle", "script"} => due = {}

Inv == TypeOK /\ FiresInOrder /\ NoneForgotten /\ PumpInv

\* ToInt32 gives a 32-bit value; clamping leaves the nonnegative half.
LEMMA ClampedRange == \A d \in Delays : Clamped(d) \in 0..(Half - 1)
<1> SUFFICES ASSUME NEW d \in Delays PROVE Clamped(d) \in 0..(Half - 1)
  OBVIOUS
<1>1. d \in Int /\ Half \in Nat /\ Half > 0
  BY DelaysAssumption, HalfAssumption
<1>2. (d + Half) % (2 * Half) \in 0..(2 * Half - 1)
  BY <1>1
<1>3. ToInt32(d) \in Int /\ ToInt32(d) <= Half - 1
  BY <1>1, <1>2 DEF ToInt32
<1> QED
  BY <1>1, <1>3 DEF Clamped

\* Registration numbers make the order strict and total.
LEMMA BeforeOrder ==
    ASSUME TypeOK, NEW i \in Ids, NEW j \in Ids, NEW k \in Ids
    PROVE  /\ ~Before(i, i)
           /\ i # j => Before(i, j) \/ Before(j, i)
           /\ Before(i, j) /\ Before(j, k) => Before(i, k)
<1>1. /\ delay[i] \in Int /\ delay[j] \in Int /\ delay[k] \in Int
      /\ i \in Int /\ j \in Int /\ k \in Int
  BY DEF TypeOK, Ids
<1> QED
  BY <1>1 DEF Before

LEMMA InitInv == Init => Inv
<1> SUFFICES ASSUME Init PROVE Inv
  OBVIOUS
<1>1. TypeOK
  <2>1. 0 \in 0..(Half - 1) /\ 1 \in 1..(MaxId + 1)
    BY MaxIdAssumption, HalfAssumption
  <2>2. base = {} /\ fired = <<>> /\ fired \in Seq(base)
    BY DEF Init
  <2> QED BY <2>1, <2>2 DEF Init, TypeOK
<1>2. FiresInOrder /\ NoneForgotten /\ PumpInv
  BY DEF Init, FiresInOrder, NoneForgotten, PumpInv, FiredSet
<1> QED
  BY <1>1, <1>2 DEF Inv

\* Timers of a snapshot are older than any that a script registers during the pump.
LEMMA RegisterInv ==
    ASSUME Inv, NEW d \in Delays, NEW interval \in BOOLEAN, Register(d, interval)
    PROVE  Inv'
<1>1. TypeOK /\ nextId \in Ids /\ nextId' = nextId + 1 /\ nextId \in Nat
  BY MaxIdAssumption DEF Inv, Register, TypeOK, Ids
<1>2. delay' = [delay EXCEPT ![nextId] = Clamped(d)] /\ Clamped(d) \in 0..(Half - 1)
  BY ClampedRange DEF Register
<1>3. TypeOK'
  <2>1. nextId' \in 1..(MaxId + 1)
    BY <1>1, MaxIdAssumption DEF Ids
  <2>2. 1..(nextId - 1) \subseteq 1..(nextId' - 1) /\ nextId \in 1..(nextId' - 1)
    BY <1>1, MaxIdAssumption DEF Ids
  <2>3. delay' \in [Ids -> 0..(Half - 1)]
    BY <1>1, <1>2 DEF TypeOK
  <2>4. timers' \subseteq 1..(nextId' - 1) /\ repeating' \subseteq 1..(nextId' - 1)
    BY <1>1, <2>2 DEF TypeOK, Register
  <2>5. UNCHANGED <<mode, disposed, due, base, fired, cancelled>>
    BY DEF Register, history
  <2> QED BY <1>1, <2>1, <2>2, <2>3, <2>4, <2>5 DEF TypeOK
<1>4. \A i, j \in base : Before(i, j)' <=> Before(i, j)
  <2>1. \A i \in base : i # nextId /\ i \in Ids
    BY <1>1, MaxIdAssumption DEF TypeOK, Ids
  <2> QED BY <1>1, <1>2, <2>1 DEF Before, TypeOK
<1>5. /\ UNCHANGED <<mode, due, base, fired, cancelled>> /\ timers \subseteq timers'
      /\ due \subseteq base /\ \A k \in DOMAIN fired : fired[k] \in base
  BY <1>1 DEF Register, history, TypeOK
<1>6. FiresInOrder' /\ NoneForgotten' /\ PumpInv'
  BY <1>4, <1>5 DEF Inv, FiresInOrder, NoneForgotten, PumpInv, FiredSet
<1> QED
  BY <1>3, <1>6 DEF Inv

LEMMA FireInv ==
    ASSUME Inv, NEW i \in Ids, Fire(i)
    PROVE  Inv'
<1>1. /\ TypeOK /\ mode = "pump" /\ i \in due /\ i \in timers /\ i \in base
      /\ \A j \in due \ {i} : Before(i, j)
      /\ due' = due \ {i} /\ fired' = Append(fired, i) /\ mode' = "callback"
      /\ timers' = IF i \in repeating THEN timers ELSE timers \ {i}
      /\ UNCHANGED <<disposed, nextId, delay, repeating, base, cancelled>>
  BY DEF Inv, Fire, IsNext, TypeOK
<1>2. /\ DOMAIN fired = 1..Len(fired) /\ Len(fired) \in Nat /\ fired' \in Seq(base)
      /\ DOMAIN fired' = 1..(Len(fired) + 1) /\ fired'[Len(fired) + 1] = i
      /\ \A k \in 1..Len(fired) : fired'[k] = fired[k] /\ fired[k] \in base
  BY <1>1 DEF TypeOK
<1>3. TypeOK'
  BY <1>1, <1>2 DEF TypeOK
<1>4. FiresInOrder'
  BY <1>1, <1>2 DEF Inv, FiresInOrder, PumpInv, Before
<1>5. FiredSet' = FiredSet \cup {i}
  BY <1>1, <1>2 DEF FiredSet
<1>6. NoneForgotten'
  BY <1>1, <1>5 DEF Inv, NoneForgotten
<1>7. PumpInv'
  BY <1>1, <1>2 DEF Inv, PumpInv, Before
<1> QED
  BY <1>3, <1>4, <1>6, <1>7 DEF Inv

LEMMA StepInv ==
    ASSUME Inv, [Next]_vars
    PROVE  Inv'
<1> USE DEF Inv, TypeOK, FiresInOrder, NoneForgotten, PumpInv, FiredSet, Before
<1>1. CASE UNCHANGED vars
  BY <1>1 DEF vars
<1>2. CASE StartScript \/ EndScript \/ CallbackReturns \/ EndPump
  <2>1. UNCHANGED <<disposed, nextId, timers, delay, repeating, due, base, fired, cancelled>>
    BY <1>2 DEF StartScript, EndScript, CallbackReturns, EndPump, registry, history
  <2>2. mode' \in {"idle", "script", "pump", "callback"}
    BY <1>2 DEF StartScript, EndScript, CallbackReturns, EndPump
  <2>3. mode' \in {"idle", "script"} => due = {}
    BY <1>2 DEF StartScript, EndScript, CallbackReturns, EndPump
  <2>4. TypeOK' /\ FiresInOrder'
    BY <2>1, <2>2
  <2> QED BY <2>1, <2>3, <2>4
<1>3. CASE StartPump
  <2>1. fired' = <<>> /\ DOMAIN fired' = {} /\ fired' \in Seq(base')
    BY <1>3 DEF StartPump
  <2> QED BY <1>3, <2>1 DEF StartPump, registry
<1>4. CASE Teardown
  BY <1>4 DEF Teardown, history
<1>5. ASSUME NEW d \in Delays, NEW interval \in BOOLEAN, Register(d, interval) PROVE Inv'
  BY <1>5, RegisterInv
<1>6. ASSUME NEW i \in Ids, Clear(i) PROVE Inv'
  <2>1. /\ timers' = timers \ {i}
        /\ cancelled' = IF i < nextId THEN cancelled \cup {i} ELSE cancelled
        /\ UNCHANGED <<mode, disposed, nextId, delay, repeating, due, base, fired>>
    BY <1>6 DEF Clear, history
  <2>2. i < nextId => i \in 1..(nextId - 1)
    BY MaxIdAssumption DEF Ids
  <2>3. \A j \in due : j \in 1..(nextId - 1) /\ j < nextId
    BY MaxIdAssumption
  <2>4. TypeOK'
    BY <2>1, <2>2
  <2>5. FiresInOrder'
    BY <2>1
  <2>6. NoneForgotten'
    BY <2>1
  <2>7. PumpInv'
    BY <2>1, <2>3
  <2> QED BY <2>4, <2>5, <2>6, <2>7
<1>7. ASSUME NEW i \in Ids, Skip(i) PROVE Inv'
  BY <1>7 DEF Skip, registry, history, IsNext
<1>8. ASSUME NEW i \in Ids, Fire(i) PROVE Inv'
  BY <1>8, FireInv
<1> QED
  BY <1>1, <1>2, <1>3, <1>4, <1>5, <1>6, <1>7, <1>8 DEF Next

\* Every reachable registry is well typed: all delays are clamped to 0..Half - 1.
THEOREM TypeCorrect == Spec => []TypeOK
<1>1. Inv => TypeOK
  BY DEF Inv
<1> QED
  BY <1>1, InitInv, StepInv, PTL DEF Spec

\* A pump fires in (delay, registration) order, whatever its callbacks do.
THEOREM InOrder == Spec => []FiresInOrder
<1>1. Inv => FiresInOrder
  BY DEF Inv
<1> QED
  BY <1>1, InitInv, StepInv, PTL DEF Spec

\* A pump forgets no timer that was registered when it began.
THEOREM AllServed == Spec => []NoneForgotten
<1>1. Inv => NoneForgotten
  BY DEF Inv
<1> QED
  BY <1>1, InitInv, StepInv, PTL DEF Spec

-------------------------------------------------------------------------------
(* What never fires *)

\* A cleared id is out of the registry for good: ids are not reused.
Separate == timers \cap cancelled = {}

LEMMA StaysSeparate ==
    ASSUME TypeOK, Separate, [Next]_vars
    PROVE  Separate'
<1>1. nextId \notin cancelled
  BY MaxIdAssumption DEF TypeOK
<1>2. ASSUME NEW d \in Delays, NEW interval \in BOOLEAN, Register(d, interval) PROVE Separate'
  BY <1>1, <1>2 DEF Register, Separate
<1>3. ASSUME NEW i \in Ids, Clear(i) PROVE Separate'
  BY <1>3 DEF Clear, Separate
<1>4. ASSUME NEW i \in Ids, Skip(i) \/ Fire(i) PROVE Separate'
  BY <1>4 DEF Skip, Fire, registry, Separate
<1>5. CASE UNCHANGED vars \/ StartScript \/ EndScript \/ StartPump \/ CallbackReturns
           \/ EndPump \/ Teardown
  BY <1>5 DEF vars, StartScript, EndScript, StartPump, CallbackReturns, EndPump, Teardown,
              registry, Separate
<1> QED
  BY <1>2, <1>3, <1>4, <1>5 DEF Next

\* Only Fire lengthens the record of what fired.
LEMMA OnlyFireFires ==
    ASSUME TypeOK, [Next]_vars, NEW i \in Ids, fired' = Append(fired, i)
    PROVE  Fire(i)
<1>1. fired \in Seq(base) /\ fired' # fired /\ fired' # <<>> /\ Len(fired) \in Nat
      /\ fired'[Len(fired) + 1] = i
  BY DEF TypeOK
<1>2. ASSUME NEW d \in Delays, NEW interval \in BOOLEAN, Register(d, interval) PROVE FALSE
  BY <1>1, <1>2 DEF Register, history
<1>3. ASSUME NEW j \in Ids, Clear(j) \/ Skip(j) PROVE FALSE
  BY <1>1, <1>3 DEF Clear, Skip, history
<1>4. ASSUME NEW j \in Ids, Fire(j) PROVE i = j
  BY <1>1, <1>4 DEF Fire
<1>5. CASE UNCHANGED vars \/ StartScript \/ EndScript \/ StartPump \/ CallbackReturns
           \/ EndPump \/ Teardown
  BY <1>1, <1>5 DEF vars, StartScript, EndScript, StartPump, CallbackReturns, EndPump,
                    Teardown, history
<1> QED
  BY <1>2, <1>3, <1>4, <1>5 DEF Next

\* No timer fires that was cleared, that was registered during the pump, or, if it is
\* a one-shot, that will still be registered afterwards.
THEOREM NothingStale == Spec => NoStaleFire
<1> DEFINE Body == \A i \in Ids : fired' = Append(fired, i) =>
                      /\ i \in base
                      /\ i \notin cancelled
                      /\ i \in timers
                      /\ i \in repeating \/ i \notin timers'
<1>1. Init => Separate
  BY DEF Init, Separate
<1>2. ASSUME Inv, Separate, [Next]_vars PROVE Body
  <2>1. ASSUME NEW i \in Ids, Fire(i)
        PROVE  /\ i \in base /\ i \notin cancelled /\ i \in timers
               /\ i \in repeating \/ i \notin timers'
    BY <1>2, <2>1 DEF Fire, IsNext, Inv, TypeOK, Separate
  <2> QED BY <1>2, <2>1, OnlyFireFires DEF Inv
<1>3. ASSUME Inv, Separate, [Next]_vars PROVE Inv' /\ Separate' /\ [Body]_vars
  BY <1>2, <1>3, StepInv, StaysSeparate DEF Inv
<1>4. Spec => [][Body]_vars
  BY <1>1, <1>3, InitInv, PTL DEF Spec
<1> QED
  BY <1>4 DEF NoStaleFire
===============================================================================
