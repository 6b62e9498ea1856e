----------------------- MODULE ConcurrentQueueProofs -----------------------
(***************************************************************************)
(* What holds of ConcurrentQueue for any number of threads, any capacity   *)
(* and any number of pushes.                                               *)
(***************************************************************************)
EXTENDS ConcurrentQueue, SequenceTheorems, TLAPS

(* Two positions less than a whole ring apart have different slots. *)
LEMMA SlotInjective ==
  ASSUME NEW a \in Nat, NEW b \in Nat, a < b, b < a + Capacity
  PROVE  Slot(a) # Slot(b)
<1>1. Capacity \in Nat \ {0}
  BY CapacityAssumption
<1>2. a = Capacity * (a \div Capacity) + (a % Capacity)
  BY <1>1
<1>3. b = Capacity * (b \div Capacity) + (b % Capacity)
  BY <1>1
<1>4. SUFFICES ASSUME a % Capacity = b % Capacity PROVE FALSE
  BY DEF Slot
<1> DEFINE d == (b \div Capacity) - (a \div Capacity)
<1>5. d \in Int /\ b - a = Capacity * d
  BY <1>1, <1>2, <1>3, <1>4
<1>6. d > 0
  BY <1>1, <1>5
<1>7. Capacity * d >= Capacity
  BY <1>1, <1>5, <1>6
<1>8. QED
  BY <1>1, <1>5, <1>7

LEMMA SlotType ==
  ASSUME NEW a \in Nat
  PROVE  Slot(a) \in 0 .. Capacity - 1
BY CapacityAssumption DEF Slot

(* A step of Push keeps the inductive invariant. *)
LEMMA PushStepInv ==
  ASSUME IndInv, NEW t \in Threads, PushStep(t)
  PROVE  IndInv'
<1> USE DEF IndInv
<1>1. CASE PushLoad(t)
  <2>1. TypeOK'
    BY <1>1 DEF TypeOK, Locations, PushLocations, PopLocations, Goto, PushLoad
  <2>2. SingleCommitter'
    BY <1>1 DEF TypeOK, SingleCommitter, Cursors, PushWindow, PopWindow, Goto, PushLoad
  <2>3. Cursors'
    BY <1>1 DEF TypeOK, SingleCommitter, Cursors, PushLocations,
       PushWindow, PopWindow, Goto, PushLoad
  <2>4. QED
    BY <2>1, <2>2, <2>3
<1>2. CASE PushSpace(t)
  <2>1. TypeOK'
    BY <1>2 DEF TypeOK, Locations, PushLocations, PopLocations, Goto, PushSpace, PushDiff, OutOfRange
  <2>2. SingleCommitter'
    BY <1>2 DEF TypeOK, SingleCommitter, Cursors, PushWindow, PopWindow, Goto, PushSpace, PushDiff, OutOfRange
  <2>3. (tail <= uTail /\ uTail <= head /\ head <= uHead /\ head - tail <= Capacity)'
    BY <1>2 DEF TypeOK, SingleCommitter, Cursors, PushWindow, PopWindow, Goto, PushSpace, PushDiff, OutOfRange
  <2>4. ASSUME NEW s \in Threads
        PROVE  (/\ element[s] # NoValue <=> pc[s] \in PushLocations
                /\ pc[s] \in {"pushCheck", "pushClaim"} => old[s] <= head
                /\ pc[s] = "pushClaim" => (old[s] + 1) - tail <= Capacity)'
    BY <1>2, CapacityAssumption DEF TypeOK, SingleCommitter, Cursors, PushLocations,
       PushWindow, PopWindow, Goto, PushSpace, PushDiff, OutOfRange
  <2>5. ASSUME NEW s \in Threads
        PROVE  (/\ pc[s] \in {"pushStore", "pushCommit"} =>
                     (head + 1) - tail <= Capacity
                /\ pc[s] \in {"popCheck", "popClaim"} => old[s] <= tail
                /\ pc[s] = "popClaim" => old[s] + 1 <= head)'
    BY <1>2, CapacityAssumption DEF TypeOK, SingleCommitter, Cursors, PushWindow, PopWindow, Goto, PushSpace, PushDiff, OutOfRange
  <2>6. ASSUME NEW s \in Threads
        PROVE  (pc[s] = "pushCommit" => data[Slot(old[s])] = element[s])'
    BY <1>2, SlotType DEF TypeOK, SingleCommitter, Cursors, PushWindow, Goto, PushSpace, PushDiff, OutOfRange
  <2>7. QED
    BY <2>1, <2>2, <2>3, <2>4, <2>5, <2>6 DEF Cursors
<1>3. CASE PushSpin(t)
  <2>1. TypeOK'
    BY <1>3 DEF TypeOK, Locations, PushLocations, PopLocations, Goto, PushSpin
  <2>2. SingleCommitter'
    BY <1>3 DEF TypeOK, SingleCommitter, Cursors, PushWindow, PopWindow, Goto, PushSpin
  <2>3. Cursors'
    BY <1>3 DEF TypeOK, SingleCommitter, Cursors, PushLocations,
       PushWindow, PopWindow, Goto, PushSpin
  <2>4. QED
    BY <2>1, <2>2, <2>3
<1>4. CASE PushFail(t)
  <2>1. TypeOK'
    BY <1>4 DEF TypeOK, Locations, PushLocations, PopLocations, Goto, PushFail, Return
  <2>2. SingleCommitter'
    BY <1>4 DEF TypeOK, SingleCommitter, Cursors, PushWindow, PopWindow, Goto, PushFail, Return
  <2>3. Cursors'
    BY <1>4 DEF TypeOK, SingleCommitter, Cursors, PushLocations,
       PushWindow, PopWindow, Goto, PushFail, Return
  <2>4. QED
    BY <2>1, <2>2, <2>3
<1>5. CASE PushClaim(t)
  <2>1. TypeOK'
    BY <1>5 DEF TypeOK, Locations, PushLocations, PopLocations, Goto, PushClaim
  <2>2. SingleCommitter'
    <3>1. PushWindow = {} /\ uHead = head /\ old[t] = head
      BY <1>5 DEF TypeOK, SingleCommitter, Cursors, PushWindow, PushClaim, Goto
    <3>2. PushWindow' = {t} /\ PopWindow' = PopWindow
      BY <1>5, <3>1 DEF TypeOK, PushWindow, PopWindow, PushClaim, Goto
    <3>3. QED
      BY <1>5, <3>1, <3>2 DEF TypeOK, SingleCommitter, PushClaim
  <2>3. Cursors'
    BY <1>5 DEF TypeOK, SingleCommitter, Cursors, PushLocations,
       PushWindow, PopWindow, Goto, PushClaim
  <2>4. QED
    BY <2>1, <2>2, <2>3
<1>6. CASE PushRetry(t)
  <2>1. TypeOK'
    BY <1>6 DEF TypeOK, Locations, PushLocations, PopLocations, Goto, PushRetry
  <2>2. SingleCommitter'
    BY <1>6 DEF TypeOK, SingleCommitter, Cursors, PushWindow, PopWindow, Goto, PushRetry
  <2>3. Cursors'
    BY <1>6 DEF TypeOK, SingleCommitter, Cursors, PushLocations,
       PushWindow, PopWindow, Goto, PushRetry
  <2>4. QED
    BY <2>1, <2>2, <2>3
<1>7. CASE PushStore(t)
  <2>1. TypeOK'
    BY <1>7 DEF TypeOK, Locations, PushLocations, PopLocations, Goto, PushStore
  <2>2. SingleCommitter'
    BY <1>7 DEF TypeOK, SingleCommitter, Cursors, PushWindow, PopWindow, Goto, PushStore
  <2>3. (tail <= uTail /\ uTail <= head /\ head <= uHead /\ head - tail <= Capacity)'
    BY <1>7 DEF TypeOK, SingleCommitter, Cursors, PushWindow, PopWindow, Goto, PushStore
  <2>4. ASSUME NEW s \in Threads
        PROVE  (/\ element[s] # NoValue <=> pc[s] \in PushLocations
                /\ pc[s] \in {"pushCheck", "pushClaim"} => old[s] <= head
                /\ pc[s] = "pushClaim" => (old[s] + 1) - tail <= Capacity)'
    BY <1>7, CapacityAssumption DEF TypeOK, SingleCommitter, Cursors, PushLocations,
       PushWindow, PopWindow, Goto, PushStore
  <2>5. ASSUME NEW s \in Threads
        PROVE  (/\ pc[s] \in {"pushStore", "pushCommit"} =>
                     (head + 1) - tail <= Capacity
                /\ pc[s] \in {"popCheck", "popClaim"} => old[s] <= tail
                /\ pc[s] = "popClaim" => old[s] + 1 <= head)'
    BY <1>7, CapacityAssumption DEF TypeOK, SingleCommitter, Cursors, PushWindow, PopWindow, Goto, PushStore
  <2>6. ASSUME NEW s \in Threads
        PROVE  (pc[s] = "pushCommit" => data[Slot(old[s])] = element[s])'
    <3>1. CASE s = t
      BY <1>7, <3>1, SlotType DEF TypeOK, PushStore
    <3>2. CASE s # t
      BY <1>7, <3>2 DEF TypeOK, SingleCommitter, PushWindow, Goto, PushStore
    <3>3. QED
      BY <3>1, <3>2
  <2>7. QED
    BY <2>1, <2>2, <2>3, <2>4, <2>5, <2>6 DEF Cursors
<1>8. CASE PushCommit(t)
  <2>1. TypeOK'
    BY <1>8 DEF TypeOK, Locations, PushLocations, PopLocations, Goto, PushCommit, Return
  <2>2. SingleCommitter'
    BY <1>8 DEF TypeOK, SingleCommitter, Cursors, PushWindow, PopWindow, Goto, PushCommit, Return
  <2>3. Cursors'
    BY <1>8 DEF TypeOK, SingleCommitter, Cursors, PushLocations,
       PushWindow, PopWindow, Goto, PushCommit, Return
  <2>4. QED
    BY <2>1, <2>2, <2>3
<1>9. QED
  BY <1>1, <1>2, <1>3, <1>4, <1>5, <1>6, <1>7, <1>8 DEF PushStep

(* A step of Pop keeps the inductive invariant. *)
LEMMA PopStepInv ==
  ASSUME IndInv, NEW t \in Threads, PopStep(t)
  PROVE  IndInv'
<1> USE DEF IndInv
<1>1. CASE PopLoad(t)
  <2>1. TypeOK'
    BY <1>1 DEF TypeOK, Locations, PushLocations, PopLocations, Goto, PopLoad
  <2>2. SingleCommitter'
    BY <1>1 DEF TypeOK, SingleCommitter, Cursors, PushWindow, PopWindow, Goto, PopLoad
  <2>3. Cursors'
    BY <1>1 DEF TypeOK, SingleCommitter, Cursors, PushLocations,
       PushWindow, PopWindow, Goto, PopLoad
  <2>4. QED
    BY <2>1, <2>2, <2>3
<1>2. CASE PopItem(t)
  <2>1. TypeOK'
    BY <1>2 DEF TypeOK, Locations, PushLocations, PopLocations, Goto, PopItem, PopDiff, OutOfRange
  <2>2. SingleCommitter'
    BY <1>2 DEF TypeOK, SingleCommitter, Cursors, PushWindow, PopWindow, Goto, PopItem, PopDiff, OutOfRange
  <2>3. Cursors'
    BY <1>2 DEF TypeOK, SingleCommitter, Cursors, PushLocations,
       PushWindow, PopWindow, Goto, PopItem, PopDiff, OutOfRange
  <2>4. QED
    BY <2>1, <2>2, <2>3
<1>3. CASE PopSpin(t)
  <2>1. TypeOK'
    BY <1>3 DEF TypeOK, Locations, PushLocations, PopLocations, Goto, PopSpin
  <2>2. SingleCommitter'
    BY <1>3 DEF TypeOK, SingleCommitter, Cursors, PushWindow, PopWindow, Goto, PopSpin
  <2>3. Cursors'
    BY <1>3 DEF TypeOK, SingleCommitter, Cursors, PushLocations,
       PushWindow, PopWindow, Goto, PopSpin
  <2>4. QED
    BY <2>1, <2>2, <2>3
<1>4. CASE PopFail(t)
  <2>1. TypeOK'
    BY <1>4 DEF TypeOK, Locations, PushLocations, PopLocations, Goto, PopFail, Return
  <2>2. SingleCommitter'
    BY <1>4 DEF TypeOK, SingleCommitter, Cursors, PushWindow, PopWindow, Goto, PopFail, Return
  <2>3. Cursors'
    BY <1>4 DEF TypeOK, SingleCommitter, Cursors, PushLocations,
       PushWindow, PopWindow, Goto, PopFail, Return
  <2>4. QED
    BY <2>1, <2>2, <2>3
<1>5. CASE PopClaim(t)
  <2>1. TypeOK'
    BY <1>5 DEF TypeOK, Locations, PushLocations, PopLocations, Goto, PopClaim
  <2>2. SingleCommitter'
    <3>1. PopWindow = {} /\ uTail = tail /\ old[t] = tail
      BY <1>5 DEF TypeOK, SingleCommitter, Cursors, PopWindow, PopClaim, Goto
    <3>2. PopWindow' = {t} /\ PushWindow' = PushWindow
      BY <1>5, <3>1 DEF TypeOK, PushWindow, PopWindow, PopClaim, Goto
    <3>3. QED
      BY <1>5, <3>1, <3>2 DEF TypeOK, SingleCommitter, PopClaim
  <2>3. Cursors'
    BY <1>5 DEF TypeOK, SingleCommitter, Cursors, PushLocations,
       PushWindow, PopWindow, Goto, PopClaim
  <2>4. QED
    BY <2>1, <2>2, <2>3
<1>6. CASE PopRetry(t)
  <2>1. TypeOK'
    BY <1>6 DEF TypeOK, Locations, PushLocations, PopLocations, Goto, PopRetry
  <2>2. SingleCommitter'
    BY <1>6 DEF TypeOK, SingleCommitter, Cursors, PushWindow, PopWindow, Goto, PopRetry
  <2>3. Cursors'
    BY <1>6 DEF TypeOK, SingleCommitter, Cursors, PushLocations,
       PushWindow, PopWindow, Goto, PopRetry
  <2>4. QED
    BY <2>1, <2>2, <2>3
<1>7. CASE PopRead(t)
  <2>1. TypeOK'
    BY <1>7, SlotType DEF TypeOK, Locations, PushLocations, PopLocations, Goto, PopRead
  <2>2. SingleCommitter'
    BY <1>7 DEF TypeOK, SingleCommitter, Cursors, PushWindow, PopWindow, Goto, PopRead
  <2>3. (tail <= uTail /\ uTail <= head /\ head <= uHead /\ head - tail <= Capacity)'
    BY <1>7 DEF TypeOK, SingleCommitter, Cursors, PushWindow, PopWindow, Goto, PopRead
  <2>4. ASSUME NEW s \in Threads
        PROVE  (/\ element[s] # NoValue <=> pc[s] \in PushLocations
                /\ pc[s] \in {"pushCheck", "pushClaim"} => old[s] <= head
                /\ pc[s] = "pushClaim" => (old[s] + 1) - tail <= Capacity)'
    BY <1>7, CapacityAssumption DEF TypeOK, SingleCommitter, Cursors, PushLocations,
       PushWindow, PopWindow, Goto, PopRead
  <2>5. ASSUME NEW s \in Threads
        PROVE  (/\ pc[s] \in {"pushStore", "pushCommit"} =>
                     (head + 1) - tail <= Capacity
                /\ pc[s] \in {"popCheck", "popClaim"} => old[s] <= tail
                /\ pc[s] = "popClaim" => old[s] + 1 <= head)'
    BY <1>7, CapacityAssumption DEF TypeOK, SingleCommitter, Cursors, PushWindow, PopWindow, Goto, PopRead
  <2>6. ASSUME NEW s \in Threads
        PROVE  (pc[s] = "pushCommit" => data[Slot(old[s])] = element[s])'
    BY <1>7, SlotType DEF TypeOK, SingleCommitter, Cursors, PushWindow, Goto, PopRead
  <2>7. QED
    BY <2>1, <2>2, <2>3, <2>4, <2>5, <2>6 DEF Cursors
<1>8. CASE PopCommit(t)
  <2>1. TypeOK'
    BY <1>8 DEF TypeOK, Locations, PushLocations, PopLocations, Goto, PopCommit, Return
  <2>2. SingleCommitter'
    BY <1>8 DEF TypeOK, SingleCommitter, Cursors, PushWindow, PopWindow, Goto, PopCommit, Return
  <2>3. (tail <= uTail /\ uTail <= head /\ head <= uHead /\ head - tail <= Capacity)'
    BY <1>8, CapacityAssumption
       DEF TypeOK, SingleCommitter, Cursors, PushWindow, PopWindow, Goto, PopCommit, Return
  <2>4. ASSUME NEW s \in Threads
        PROVE  (/\ element[s] # NoValue <=> pc[s] \in PushLocations
                /\ pc[s] \in {"pushCheck", "pushClaim"} => old[s] <= head
                /\ pc[s] = "pushClaim" => (old[s] + 1) - tail <= Capacity)'
    BY <1>8, CapacityAssumption DEF TypeOK, SingleCommitter, Cursors, PushLocations,
       PushWindow, PopWindow, Goto, PopCommit, Return
  <2>5. ASSUME NEW s \in Threads
        PROVE  (/\ pc[s] \in {"pushStore", "pushCommit"} =>
                     (head + 1) - tail <= Capacity
                /\ pc[s] \in {"popCheck", "popClaim"} => old[s] <= tail
                /\ pc[s] = "popClaim" => old[s] + 1 <= head)'
    BY <1>8, CapacityAssumption DEF TypeOK, SingleCommitter, Cursors, PushWindow, PopWindow, Goto, PopCommit, Return
  <2>6. ASSUME NEW s \in Threads
        PROVE  (pc[s] = "pushCommit" => data[Slot(old[s])] = element[s])'
    BY <1>8, SlotType DEF TypeOK, SingleCommitter, Cursors, PushWindow, Goto, PopCommit, Return
  <2>7. QED
    BY <2>1, <2>2, <2>3, <2>4, <2>5, <2>6 DEF Cursors
<1>9. QED
  BY <1>1, <1>2, <1>3, <1>4, <1>5, <1>6, <1>7, <1>8 DEF PopStep

(* A call that starts keeps the inductive invariant. *)
LEMMA BeginInv ==
  ASSUME IndInv, Begin
  PROVE  IndInv'
<1> USE DEF IndInv
<1>1. ASSUME NEW t \in Producers, NEW v \in Values, NEW b \in BlockModes,
             BeginPush(t, v, b)
      PROVE  IndInv'
  <2>1. TypeOK'
    BY <1>1, ValuesAssumption, ModesAssumption DEF TypeOK, Locations, PushLocations, PopLocations, Goto, BeginPush
  <2>2. SingleCommitter'
    BY <1>1 DEF TypeOK, SingleCommitter, Cursors, PushWindow, PopWindow, Goto, BeginPush
  <2>3. Cursors'
    BY <1>1, ValuesAssumption, ModesAssumption DEF TypeOK, SingleCommitter, Cursors, PushLocations,
       PushWindow, PopWindow, Goto, BeginPush
  <2>4. QED
    BY <2>1, <2>2, <2>3
<1>2. ASSUME NEW t \in Consumers, NEW b \in BlockModes, BeginPop(t, b)
      PROVE  IndInv'
  <2>1. TypeOK'
    BY <1>2, ModesAssumption DEF TypeOK, Locations, PushLocations, PopLocations, Goto, BeginPop
  <2>2. SingleCommitter'
    BY <1>2 DEF TypeOK, SingleCommitter, Cursors, PushWindow, PopWindow, Goto, BeginPop
  <2>3. Cursors'
    BY <1>2, ModesAssumption DEF TypeOK, SingleCommitter, Cursors, PushLocations,
       PushWindow, PopWindow, Goto, BeginPop
  <2>4. QED
    BY <2>1, <2>2, <2>3
<1>3. QED
  BY <1>1, <1>2 DEF Begin

THEOREM IndInvHolds == Spec => []IndInv
<1>1. Init => IndInv
  BY CapacityAssumption
     DEF Init, IndInv, TypeOK, Locations, PopLocations, SingleCommitter, Cursors, PushLocations,
         PushWindow, PopWindow
<1>2. IndInv /\ [Next]_vars => IndInv'
  <2>1. SUFFICES ASSUME IndInv, [Next]_vars PROVE IndInv'
    OBVIOUS
  <2>2. CASE Begin
    BY <2>1, <2>2, BeginInv
  <2>3. CASE \E t \in Producers : PushStep(t)
    BY <2>1, <2>3, PushStepInv DEF Threads
  <2>4. CASE \E t \in Consumers : PopStep(t)
    BY <2>1, <2>4, PopStepInv DEF Threads
  <2>5. CASE UNCHANGED vars
    BY <2>1, <2>5 DEF vars, IndInv, TypeOK, SingleCommitter, Cursors, PushLocations,
                      PushWindow, PopWindow, Slot
  <2>6. QED
    BY <2>1, <2>2, <2>3, <2>4, <2>5 DEF Next
<1>3. QED
  BY <1>1, <1>2, PTL DEF Spec

(* Every variable of the ring buffer keeps its type. *)
THEOREM TypeCorrect == Spec => []TypeOK
BY IndInvHolds, PTL DEF IndInv

(* At most one thread is between its compare-exchange and its publishing   *)
(* store on each side, and only then is the claimed cursor ahead.          *)
THEOREM CommitIsExclusive == Spec => []SingleCommitter
BY IndInvHolds, PTL DEF IndInv

(* A slot is never written while it holds an element not yet copied out.   *)
THEOREM SlotsAreNotOverwritten == Spec => []NoOverwrite
<1>1. IndInv => NoOverwrite
  <2>1. SUFFICES ASSUME IndInv, NEW t \in PushWindow, NEW i \in tail .. head - 1
                 PROVE  Slot(i) # Slot(old[t])
    BY DEF NoOverwrite
  <2>2. old[t] = head /\ (head + 1) - tail <= Capacity
    BY <2>1 DEF IndInv, SingleCommitter, Cursors, PushWindow
  <2>3. i \in Nat /\ head \in Nat /\ i < head /\ head < i + Capacity
    BY <2>1, <2>2, CapacityAssumption DEF IndInv, TypeOK
  <2>4. QED
    BY <2>2, <2>3, SlotInjective
<1>2. QED
  BY <1>1, IndInvHolds, PTL
----------------------------------------------------------------------------
Elements == Values \cup {NoValue}

(* The abstract queue, slot by slot. *)
ItemsOK ==
  /\ AbstractItems \in Seq(Elements)
  /\ Len(AbstractItems) = head - uTail
  /\ Len(AbstractItems) <= Capacity
  /\ \A i \in 1 .. head - uTail :
       AbstractItems[i] = data[Slot(uTail + i - 1)]

(* The published, unclaimed slots form a sequence of at most Capacity.     *)
LEMMA ItemsAreASequence == IndInv => ItemsOK
<1>1. SUFFICES ASSUME IndInv PROVE ItemsOK
  OBVIOUS
<1>2. /\ head - uTail \in Nat /\ uTail \in Nat
      /\ tail \in Nat /\ head \in Nat
      /\ tail <= uTail /\ head - tail <= Capacity
  BY <1>1 DEF IndInv, TypeOK, Cursors
<1>3. head - uTail <= Capacity
  BY <1>2, CapacityAssumption
<1>4. \A i \in 1 .. head - uTail : data[Slot(uTail + i - 1)] \in Elements
  BY <1>1, <1>2, SlotType DEF IndInv, TypeOK, Elements
<1>5. AbstractItems \in [1 .. head - uTail -> Elements]
  BY <1>4 DEF AbstractItems
<1>6. AbstractItems \in Seq(Elements) /\ Len(AbstractItems) = head - uTail
  BY <1>2, <1>5
<1>7. QED
  BY <1>3, <1>6 DEF AbstractItems, ItemsOK

(* m_Head = m_UncomittedHead appends the element that the thread offered.  *)
LEMMA CommitInserts ==
  ASSUME IndInv, IndInv', NEW t \in Producers, PushCommit(t)
  PROVE  Fifo!Insert(t)
<1>1. /\ t \in Threads /\ t \in PushWindow /\ pc[t] = "pushCommit"
      /\ old[t] = head /\ head' = head + 1 /\ uTail' = uTail /\ data' = data
      /\ head \in Nat /\ uTail \in Nat /\ uTail <= head
      /\ head + 1 - tail <= Capacity /\ tail <= uTail /\ tail \in Nat
      /\ data[Slot(head)] = element[t] /\ element[t] # NoValue
      /\ element[t] \in Elements /\ element' = [element EXCEPT ![t] = NoValue]
  BY DEF IndInv, TypeOK, SingleCommitter, Cursors, PushLocations, PushWindow, PushCommit,
         Return, Goto, Threads, Elements
<1>2. /\ AbstractItems \in Seq(Elements) /\ Len(AbstractItems) = head - uTail
      /\ \A i \in 1 .. head - uTail : AbstractItems[i] = data[Slot(uTail + i - 1)]
  BY ItemsAreASequence DEF ItemsOK
<1>3. ItemsOK'
  BY ItemsAreASequence, PTL
<1>4. /\ AbstractItems' \in Seq(Elements) /\ Len(AbstractItems') = head + 1 - uTail
      /\ \A i \in 1 .. head + 1 - uTail : AbstractItems'[i] = data[Slot(uTail + i - 1)]
  BY <1>1, <1>3 DEF ItemsOK
<1>5. Len(AbstractItems) < Capacity
  BY <1>1, <1>2, CapacityAssumption
<1>6. AbstractItems' = Append(AbstractItems, element[t])
  <2>1. /\ Append(AbstractItems, element[t]) \in Seq(Elements)
        /\ Len(Append(AbstractItems, element[t])) = head - uTail + 1
        /\ \A i \in 1 .. head - uTail :
             Append(AbstractItems, element[t])[i] = AbstractItems[i]
        /\ Append(AbstractItems, element[t])[head - uTail + 1] = element[t]
    BY <1>1, <1>2, AppendProperties
  <2>2. ASSUME NEW i \in 1 .. head + 1 - uTail
        PROVE  AbstractItems'[i] = Append(AbstractItems, element[t])[i]
    <3>1. CASE i \in 1 .. head - uTail
      BY <1>2, <1>4, <2>1, <3>1
    <3>2. CASE i = head - uTail + 1
      <4>1. uTail + i - 1 = head /\ i = head - uTail + 1
        BY <1>1, <3>2
      <4>2. AbstractItems'[i] = data[Slot(uTail + i - 1)]
        BY <1>4
      <4>3. AbstractItems'[i] = element[t]
        BY <1>1, <4>1, <4>2
      <4>4. QED
        BY <2>1, <4>1, <4>3
    <3>3. head \in Nat /\ uTail \in Nat /\ uTail <= head
      BY <1>1
    <3>4. i \in 1 .. head - uTail \/ i = head - uTail + 1
      BY <3>3
    <3>5. QED
      BY <3>1, <3>2, <3>4
  <2>3. Len(AbstractItems') = Len(Append(AbstractItems, element[t]))
    BY <1>1, <1>4, <2>1
  <2>4. QED
    BY <1>1, <1>4, <2>1, <2>2, <2>3, SeqEqual
<1>7. AbstractOffer' = [AbstractOffer EXCEPT ![t] = NoValue]
  BY <1>1 DEF AbstractOffer, IndInv, TypeOK, Threads
<1>8. AbstractGot' = AbstractGot
  BY <1>1 DEF AbstractGot, PushCommit, Return, Goto, IndInv, TypeOK, Threads
<1>9. QED
  BY <1>1, <1>5, <1>6, <1>7, <1>8 DEF Fifo!Insert, AbstractOffer

(* The compare-exchange on m_UncomittedTail takes the oldest element.      *)
LEMMA ClaimTakes ==
  ASSUME IndInv, IndInv', NEW t \in Consumers, PopClaim(t)
  PROVE  Fifo!Take(t)
<1>1. /\ t \in Threads /\ uTail = old[t] /\ uTail' = uTail + 1
      /\ head' = head /\ data' = data /\ uTail \in Nat /\ head \in Nat
      /\ uTail + 1 <= head /\ element' = element /\ old' = old /\ output' = output
      /\ pc' = [pc EXCEPT ![t] = "popRead"] /\ pc[t] = "popClaim"
  BY DEF IndInv, TypeOK, Cursors, PopClaim, Goto, Threads
<1>2. /\ AbstractItems \in Seq(Elements) /\ Len(AbstractItems) = head - uTail
      /\ \A i \in 1 .. head - uTail : AbstractItems[i] = data[Slot(uTail + i - 1)]
  BY ItemsAreASequence DEF ItemsOK
<1>3. ItemsOK'
  BY ItemsAreASequence, PTL
<1>4. /\ AbstractItems' \in Seq(Elements) /\ Len(AbstractItems') = head - (uTail + 1)
      /\ \A i \in 1 .. head - (uTail + 1) :
           AbstractItems'[i] = data[Slot((uTail + 1) + i - 1)]
  BY <1>1, <1>3 DEF ItemsOK
<1>5. AbstractItems # << >>
  BY <1>1, <1>2, EmptySeq
<1>6. /\ Head(AbstractItems) = AbstractItems[1]
      /\ Tail(AbstractItems) \in Seq(Elements)
      /\ Len(Tail(AbstractItems)) = Len(AbstractItems) - 1
      /\ \A i \in 1 .. Len(Tail(AbstractItems)) :
           Tail(AbstractItems)[i] = AbstractItems[i + 1]
  BY <1>1, <1>2, <1>5
<1>7. AbstractItems' = Tail(AbstractItems)
  <2>1. Len(AbstractItems') = Len(Tail(AbstractItems))
    <3>1. head - (uTail + 1) = head - uTail - 1
      BY <1>1
    <3>2. QED
      BY <1>2, <1>4, <1>6, <3>1
  <2>2. ASSUME NEW i \in 1 .. Len(AbstractItems')
        PROVE  AbstractItems'[i] = Tail(AbstractItems)[i]
    <3>1. i \in 1 .. head - (uTail + 1) /\ i + 1 \in 1 .. head - uTail
      BY <1>1, <1>4
    <3>2. (uTail + 1) + i - 1 = uTail + (i + 1) - 1
      BY <1>1, <3>1
    <3>3. AbstractItems'[i] = data[Slot(uTail + (i + 1) - 1)]
      BY <1>4, <3>1, <3>2
    <3>4. AbstractItems[i + 1] = data[Slot(uTail + (i + 1) - 1)]
      BY <1>2, <3>1
    <3>5. i \in 1 .. Len(Tail(AbstractItems))
      BY <2>1
    <3>6. Tail(AbstractItems)[i] = AbstractItems[i + 1]
      BY <1>6, <3>5
    <3>7. QED
      BY <3>3, <3>4, <3>6
  <2>3. QED
    BY <1>4, <1>6, <2>1, <2>2, SeqEqual
<1>8. Head(AbstractItems) = data[Slot(old[t])]
  <2>1. AbstractItems[1] = data[Slot(uTail + 1 - 1)] /\ uTail + 1 - 1 = uTail
    BY <1>1, <1>2
  <2>2. QED
    BY <1>1, <1>6, <2>1
<1>9. AbstractGot' = [AbstractGot EXCEPT ![t] = Head(AbstractItems)]
  BY <1>1, <1>8 DEF AbstractGot, IndInv, TypeOK, Threads
<1>10. AbstractOffer' = AbstractOffer
  BY <1>1 DEF AbstractOffer
<1>11. QED
  BY <1>5, <1>7, <1>9, <1>10 DEF Fifo!Take

(* The ring buffer implements the bounded FIFO queue: whatever the number  *)
(* of threads and whatever their interleaving, an accepted element comes   *)
(* out once, in order, and never more than Capacity are inside.            *)
THEOREM ImplementsFifo == Spec => IsFifo
<1>1. Init => Fifo!FifoInit
  <2>1. SUFFICES ASSUME Init PROVE Fifo!FifoInit
    OBVIOUS
  <2>2. AbstractItems = << >>
    <3>1. 1 .. head - uTail = {}
      BY <2>1 DEF Init
    <3>2. QED
      BY <3>1 DEF AbstractItems
  <2>3. AbstractOffer = [t \in Producers |-> NoValue]
    BY <2>1 DEF Init, AbstractOffer, Threads
  <2>4. AbstractGot = [t \in Consumers |-> NoValue]
    BY <2>1 DEF Init, AbstractGot, Threads
  <2>5. QED
    BY <2>2, <2>3, <2>4 DEF Fifo!FifoInit
<1>2. IndInv /\ IndInv' /\ [Next]_vars => [Fifo!FifoNext]_Fifo!fifoVars
  <2>1. SUFFICES ASSUME IndInv, IndInv', [Next]_vars
                 PROVE  [Fifo!FifoNext]_Fifo!fifoVars
    OBVIOUS
  <2>2. ASSUME head' = head, uTail' = uTail, data' = data
        PROVE  AbstractItems' = AbstractItems
    BY <2>2 DEF AbstractItems
  <2>3. ASSUME NEW t \in Producers, NEW v \in Values, NEW b \in BlockModes,
               BeginPush(t, v, b)
        PROVE  Fifo!Offer(t, v)
    <3>1. AbstractOffer' = [AbstractOffer EXCEPT ![t] = v] /\ AbstractOffer[t] = NoValue
      BY <2>1, <2>3 DEF AbstractOffer, BeginPush, Goto, IndInv, TypeOK, Cursors, Threads,
                        PushLocations
    <3>2. AbstractGot' = AbstractGot
      BY <2>1, <2>3 DEF AbstractGot, BeginPush, Goto, IndInv, TypeOK, Threads
    <3>3. QED
      BY <2>2, <2>3, <3>1, <3>2 DEF Fifo!Offer, BeginPush
  <2>4. ASSUME NEW t \in Producers, PushFail(t)
        PROVE  Fifo!Refuse(t)
    <3>1. AbstractOffer' = [AbstractOffer EXCEPT ![t] = NoValue] /\ AbstractOffer[t] # NoValue
      BY <2>1, <2>4 DEF AbstractOffer, PushFail, Return, Goto, IndInv, TypeOK, Cursors, Threads,
                        PushLocations
    <3>2. AbstractGot' = AbstractGot
      BY <2>1, <2>4 DEF AbstractGot, PushFail, Return, Goto, IndInv, TypeOK, Threads
    <3>3. QED
      BY <2>2, <2>4, <3>1, <3>2 DEF Fifo!Refuse, PushFail
  <2>5. ASSUME NEW t \in Producers, PushStore(t)
        PROVE  UNCHANGED Fifo!fifoVars
    <3>1. /\ t \in Threads /\ t \in PushWindow /\ old[t] = head
          /\ head \in Nat /\ tail \in Nat /\ uTail \in Nat /\ tail <= uTail
          /\ head + 1 - tail <= Capacity
          /\ data \in [0 .. Capacity - 1 -> Elements]
      BY <2>1, <2>5 DEF IndInv, TypeOK, SingleCommitter, Cursors, PushWindow, PushStore, Goto,
                        Threads, Elements
    <3>2. /\ head' = head /\ uTail' = uTail /\ old' = old
          /\ data' = [data EXCEPT ![Slot(head)] = element[t]]
      BY <2>5, <3>1 DEF PushStore
    <3>3. ASSUME NEW j \in tail .. head - 1
          PROVE  data'[Slot(j)] = data[Slot(j)]
      <4>1. j \in Nat /\ j < head /\ head < j + Capacity
        BY <3>1, CapacityAssumption
      <4>2. Slot(j) # Slot(head) /\ Slot(j) \in 0 .. Capacity - 1
        BY <3>1, <4>1, SlotInjective, SlotType
      <4>3. QED
        BY <3>1, <3>2, <4>2
    <3>4. AbstractItems' = AbstractItems
      <4>1. ASSUME NEW i \in 1 .. head - uTail
            PROVE  data'[Slot(uTail + i - 1)] = data[Slot(uTail + i - 1)]
        <5>1. uTail + i - 1 \in tail .. head - 1
          BY <3>1
        <5>2. QED
          BY <3>3, <5>1
      <4>2. QED
        BY <3>2, <4>1 DEF AbstractItems
    <3>5. AbstractGot' = AbstractGot
      <4>1. ASSUME NEW s \in Consumers, pc[s] = "popRead"
            PROVE  data'[Slot(old[s])] = data[Slot(old[s])]
        <5>1. old[s] \in tail .. head - 1
          BY <2>1, <4>1 DEF IndInv, TypeOK, SingleCommitter, Cursors, PopWindow, Threads
        <5>2. QED
          BY <3>3, <5>1
      <4>2. pc' = [pc EXCEPT ![t] = "pushCommit"] /\ pc[t] = "pushStore" /\ output' = output
        BY <2>5 DEF PushStore, Goto
      <4>3. \A s \in Consumers : pc'[s] = "popRead" <=> pc[s] = "popRead"
        BY <2>1, <4>2 DEF IndInv, TypeOK, Threads
      <4>4. QED
        BY <3>2, <4>1, <4>2, <4>3 DEF AbstractGot
    <3>6. AbstractOffer' = AbstractOffer
      BY <2>5 DEF AbstractOffer, PushStore
    <3>7. QED
      BY <3>4, <3>5, <3>6 DEF Fifo!fifoVars
  <2>6. ASSUME NEW t \in Producers,
               PushLoad(t) \/ PushSpace(t) \/ PushSpin(t) \/ PushClaim(t) \/ PushRetry(t)
        PROVE  UNCHANGED Fifo!fifoVars
    <3>1. head' = head /\ uTail' = uTail /\ data' = data /\ element' = element
      BY <2>6 DEF PushLoad, PushSpace, PushSpin, PushClaim, PushRetry
    <3>2. AbstractGot' = AbstractGot
      BY <2>1, <2>6 DEF AbstractGot, PushLoad, PushSpace, PushSpin, PushClaim, PushRetry, Goto,
                        IndInv, TypeOK, Threads
    <3>3. QED
      BY <2>2, <3>1, <3>2 DEF Fifo!fifoVars, AbstractOffer
  <2>7. ASSUME NEW t \in Consumers,
               \/ PopLoad(t) \/ PopItem(t) \/ PopSpin(t) \/ PopFail(t) \/ PopRetry(t)
               \/ PopRead(t) \/ PopCommit(t) \/ \E b \in BlockModes : BeginPop(t, b)
        PROVE  UNCHANGED Fifo!fifoVars
    <3>1. head' = head /\ uTail' = uTail /\ data' = data /\ element' = element
      BY <2>7 DEF PopLoad, PopItem, PopSpin, PopFail, PopRetry, PopRead, PopCommit, BeginPop
    <3>2. AbstractGot' = AbstractGot
      BY <2>1, <2>7 DEF AbstractGot, PopLoad, PopItem, PopSpin, PopFail, PopRetry, PopRead,
           PopCommit, BeginPop, Goto, Return, IndInv, TypeOK, Threads
    <3>3. QED
      BY <2>2, <3>1, <3>2 DEF Fifo!fifoVars, AbstractOffer
  <2>8. CASE UNCHANGED vars
    BY <2>8 DEF vars, Fifo!fifoVars, AbstractItems, AbstractOffer, AbstractGot
  <2>9. QED
    BY <2>1, <2>3, <2>4, <2>5, <2>6, <2>7, <2>8, CommitInserts, ClaimTakes
       DEF Next, Begin, PushStep, PopStep, Fifo!FifoNext
<1>3. QED
  BY <1>1, <1>2, IndInvHolds, PTL DEF Spec, IsFifo, Fifo!FifoSpec
----------------------------------------------------------------------------
(* Refusals.                                                               *)

(* Only PushFail ends a Push at its check. *)
LEMMA RefusedPush ==
  ASSUME IndInv, [Next]_vars, NEW t \in Producers, pc[t] = "pushCheck", pc'[t] = "idle"
  PROVE  OutOfRange(PushDiff(t))
<1>1. t \in Threads /\ pc \in [Threads -> Locations] /\ Producers \subseteq Threads
      /\ Consumers \subseteq Threads
  BY DEF IndInv, TypeOK, Threads
<1>2. ~ Begin /\ ~ UNCHANGED vars
  BY <1>1 DEF Begin, BeginPush, BeginPop, Goto, vars
<1>3. ASSUME NEW s \in Consumers, PopStep(s) PROVE FALSE
  BY <1>1, <1>3 DEF PopStep, PopLoad, PopItem, PopSpin, PopFail, PopClaim, PopRetry, PopRead,
                    PopCommit, Return, Goto
<1>4. PICK s \in Producers : PushStep(s)
  BY <1>2, <1>3 DEF Next
<1>5. QED
  BY <1>1, <1>4 DEF PushStep, PushLoad, PushSpace, PushSpin, PushFail, PushClaim, PushRetry,
                    PushStore, PushCommit, Return, Goto

(* A Push that does not block is refused when the ring is full, or when it *)
(* was overtaken by two elements since it read m_Head, and not otherwise.  *)
THEOREM RefusalMeansFullOrOvertaken == Spec => PushFailsOnlyWhenFullOrOvertaken
<1>1. IndInv /\ [Next]_vars =>
        [\A t \in Producers :
           pc[t] = "pushCheck" /\ pc'[t] = "idle" =>
             \/ head - tail = Capacity
             \/ head >= old[t] + 2 /\ tail >= old[t] + 2]_vars
  <2> SUFFICES ASSUME IndInv, [Next]_vars, NEW t \in Producers,
                      pc[t] = "pushCheck", pc'[t] = "idle"
               PROVE  \/ head - tail = Capacity
                      \/ head >= old[t] + 2 /\ tail >= old[t] + 2
    OBVIOUS
  <2>1. OutOfRange((old[t] + 1) - tail)
    BY RefusedPush DEF PushDiff
  <2>2. /\ old[t] \in Nat /\ head \in Nat /\ tail \in Nat
        /\ old[t] <= head /\ tail <= head /\ head - tail <= Capacity
    BY DEF IndInv, TypeOK, Cursors, Threads
  <2>3. QED
    BY <2>1, <2>2, CapacityAssumption DEF OutOfRange
<1>2. QED
  BY <1>1, IndInvHolds, PTL DEF Spec, PushFailsOnlyWhenFullOrOvertaken

(* What a lone thread read of m_Tail stays true. *)
LoneInv ==
  \A t \in Consumers : pc[t] \in {"popCheck", "popClaim"} => old[t] = tail

LEMMA LonePop ==
  ASSUME \A s, t \in Consumers : s = t, Producers \cap Consumers = {},
         IndInv, LoneInv, [Next]_vars
  PROVE  LoneInv'
<1>1. /\ pc \in [Threads -> Locations] /\ old \in [Threads -> Nat]
      /\ Producers \subseteq Threads /\ Consumers \subseteq Threads
  BY DEF IndInv, TypeOK, Threads
<1>2. CASE UNCHANGED vars
  BY <1>2 DEF vars, LoneInv
<1>3. CASE Begin
  BY <1>1, <1>3 DEF Begin, BeginPush, BeginPop, Goto, LoneInv
<1>4. ASSUME NEW s \in Producers, PushStep(s) PROVE LoneInv'
  <2>1. tail' = tail /\ \A t \in Consumers : pc'[t] = pc[t] /\ old'[t] = old[t]
    BY <1>1, <1>4 DEF PushStep, PushLoad, PushSpace, PushSpin, PushFail, PushClaim, PushRetry,
                      PushStore, PushCommit, Return, Goto
  <2>2. QED
    BY <2>1 DEF LoneInv
<1>5. ASSUME NEW s \in Consumers, PopStep(s) PROVE LoneInv'
  BY <1>1, <1>5 DEF PopStep, PopLoad, PopItem, PopSpin, PopFail, PopClaim, PopRetry, PopRead,
                    PopCommit, Return, Goto, LoneInv
<1>6. QED
  BY <1>2, <1>3, <1>4, <1>5 DEF Next

(* Only PopFail ends a Pop at its check. *)
LEMMA RefusedPop ==
  ASSUME Producers \cap Consumers = {}, IndInv, [Next]_vars,
         NEW t \in Consumers, pc[t] = "popCheck", pc'[t] = "idle"
  PROVE  OutOfRange(PopDiff(t))
<1>1. /\ t \in Threads /\ pc \in [Threads -> Locations]
      /\ Producers \subseteq Threads /\ Consumers \subseteq Threads
  BY DEF IndInv, TypeOK, Threads
<1>2. ~ Begin /\ ~ UNCHANGED vars
  BY <1>1 DEF Begin, BeginPush, BeginPop, Goto, vars
<1>3. ASSUME NEW s \in Producers, PushStep(s) PROVE FALSE
  BY <1>1, <1>3 DEF PushStep, PushLoad, PushSpace, PushSpin, PushFail, PushClaim, PushRetry,
                    PushStore, PushCommit, Return, Goto
<1>4. PICK s \in Consumers : PopStep(s)
  BY <1>2, <1>3 DEF Next
<1>5. QED
  BY <1>1, <1>4 DEF PopStep, PopLoad, PopItem, PopSpin, PopFail, PopClaim, PopRetry, PopRead,
                    PopCommit, Return, Goto

(* When one thread pops, it is told that the queue is empty only when it   *)
(* is, whoever pushes meanwhile (ConcurrentQueue.h, Pop).                  *)
THEOREM EmptyMeansEmpty ==
  ASSUME \A s, t \in Consumers : s = t, Producers \cap Consumers = {}
  PROVE  Spec => PopFailsOnlyWhenEmpty
<1>1. Init => LoneInv
  BY DEF Init, LoneInv, Threads
<1>2. IndInv /\ LoneInv /\ [Next]_vars => LoneInv'
  BY LonePop
<1>3. IndInv /\ LoneInv /\ [Next]_vars =>
        [\A t \in Consumers :
           pc[t] = "popCheck" /\ pc'[t] = "idle" => head = tail]_vars
  <2> SUFFICES ASSUME IndInv, LoneInv, [Next]_vars, NEW t \in Consumers,
                      pc[t] = "popCheck", pc'[t] = "idle"
               PROVE  head = tail
    OBVIOUS
  <2>1. head - (old[t] + 1) < 0 \/ head - (old[t] + 1) > Capacity
    BY RefusedPop DEF OutOfRange, PopDiff
  <2>2. /\ head \in Nat /\ tail \in Nat /\ old[t] = tail
        /\ tail <= head /\ head - tail <= Capacity
    BY DEF IndInv, TypeOK, Cursors, LoneInv
  <2>3. QED
    BY <2>1, <2>2, CapacityAssumption
<1>4. QED
  BY <1>1, <1>2, <1>3, IndInvHolds, PTL DEF Spec, PopFailsOnlyWhenEmpty

(* When several threads pop, one may be told that the queue is empty while *)
(* it is not, but only after two elements were taken since it read m_Tail  *)
(* (ConcurrentQueue.h, Pop).                                               *)
PopFailsOnlyWhenEmptyOrOvertaken ==
  [][\A t \in Consumers :
       pc[t] = "popCheck" /\ pc'[t] = "idle" =>
         head = tail \/ (tail >= old[t] + 2 /\ head > old[t] + Capacity + 1)]_vars

THEOREM EmptyMeansEmptyOrOvertaken ==
  ASSUME Producers \cap Consumers = {}
  PROVE  Spec => PopFailsOnlyWhenEmptyOrOvertaken
<1>1. IndInv /\ [Next]_vars =>
        [\A t \in Consumers :
           pc[t] = "popCheck" /\ pc'[t] = "idle" =>
             head = tail \/ (tail >= old[t] + 2 /\ head > old[t] + Capacity + 1)]_vars
  <2> SUFFICES ASSUME IndInv, [Next]_vars, NEW t \in Consumers,
                      pc[t] = "popCheck", pc'[t] = "idle"
               PROVE  head = tail \/ (tail >= old[t] + 2 /\ head > old[t] + Capacity + 1)
    OBVIOUS
  <2>1. head - (old[t] + 1) < 0 \/ head - (old[t] + 1) > Capacity
    BY RefusedPop DEF OutOfRange, PopDiff
  <2>2. /\ head \in Nat /\ tail \in Nat /\ old[t] \in Nat
        /\ old[t] <= tail /\ tail <= head /\ head - tail <= Capacity
    BY DEF IndInv, TypeOK, Cursors, Threads
  <2>3. QED
    BY <2>1, <2>2, CapacityAssumption
<1>2. QED
  BY <1>1, IndInvHolds, PTL DEF Spec, PopFailsOnlyWhenEmptyOrOvertaken
============================================================================
