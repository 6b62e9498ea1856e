-------------------------- MODULE ConcurrentQueue --------------------------
(***************************************************************************)
(* The ring buffer of Core/Parallel/Types/ConcurrentQueue.h, one step per  *)
(* access to shared memory.  Any number of threads run Push and Pop; the   *)
(* plain integers m_Head and m_Tail are the published cursors, the atomics *)
(* m_UncomittedHead and m_UncomittedTail the claimed ones.                 *)
(*                                                                         *)
(* Loads and stores happen in program order (the compare-exchange between  *)
(* them is sequentially consistent).  m_Head = m_UncomittedHead is one     *)
(* step: no other thread can change m_UncomittedHead while this one is     *)
(* between its compare-exchange and that store (invariant SingleCommitter) *)
(*                                                                         *)
(* Definitions marked Bug are mutated forms that no action uses.           *)
(***************************************************************************)
EXTENDS Integers, Sequences, FiniteSets

CONSTANTS
  Producers,   (* threads that call Push                                   *)
  Consumers,   (* threads that call Pop                                    *)
  Values,      (* elements                                                 *)
  NoValue,     (* the content of a slot or variable never written          *)
  Capacity,    (* MaxCapacity                                              *)
  BlockModes,  (* the values callers pass for bBlockUntilAvailable         *)
  MaxPushes    (* bound: no Push starts once this many were claimed        *)

ASSUME CapacityAssumption == Capacity \in Nat \ {0}
ASSUME ModesAssumption == BlockModes \subseteq BOOLEAN
ASSUME ValuesAssumption == NoValue \notin Values

Threads == Producers \cup Consumers

VARIABLES
  data,        (* m_Data                                                   *)
  head,        (* m_Head                                                   *)
  tail,        (* m_Tail                                                   *)
  uHead,       (* m_UncomittedHead                                         *)
  uTail,       (* m_UncomittedTail                                         *)
  pc,          (* where each thread is in Push or Pop                      *)
  old,         (* its OldHead or OldTail                                   *)
  element,     (* the Element it pushes                                    *)
  output,      (* what its Pops wrote to *Output last                      *)
  block        (* its bBlockUntilAvailable                                 *)

vars == <<data, head, tail, uHead, uTail, pc, old, element, output, block>>

Slot(i) == i % Capacity

Init ==
  /\ data = [i \in 0 .. Capacity - 1 |-> NoValue]
  /\ head = 0
  /\ tail = 0
  /\ uHead = 0
  /\ uTail = 0
  /\ pc = [t \in Threads |-> "idle"]
  /\ old = [t \in Threads |-> 0]
  /\ element = [t \in Threads |-> NoValue]
  /\ output = [t \in Threads |-> NoValue]
  /\ block = [t \in Threads |-> FALSE]

Goto(t, from, to) ==
  /\ pc[t] = from
  /\ pc' = [pc EXCEPT ![t] = to]

(* The call returns and its locals are gone. *)
Return(t, from) ==
  /\ Goto(t, from, "idle")
  /\ old' = [old EXCEPT ![t] = 0]
  /\ block' = [block EXCEPT ![t] = FALSE]

(* Bug: one element more than there are slots. *)
OutOfRangeOneSlotTooMany(diff) == diff < 0 \/ diff > Capacity + 1

(* Bug: the last slot is never used. *)
OutOfRangeOneSlotTooFew(diff) == diff < 0 \/ diff >= Capacity

(* Bug: a difference of zero is refused too. *)
OutOfRangeUnlessPositive(diff) == diff <= 0 \/ diff > Capacity

(* Diff < 0 || Diff > MaxCapacity *)
OutOfRange(diff) == diff < 0 \/ diff > Capacity

----------------------------------------------------------------------------
(* bool Push(const ElementType& Element, bool bBlockUntilAvailable)        *)

BeginPush(t, v, b) ==
  /\ uHead < MaxPushes
  /\ Goto(t, "idle", "pushLoad")
  /\ element' = [element EXCEPT ![t] = v]
  /\ block' = [block EXCEPT ![t] = b]
  /\ UNCHANGED <<data, head, tail, uHead, uTail, old, output>>

(* Bug: starts from the claimed cursor. *)
PushLoadClaimed(t) ==
  /\ Goto(t, "pushLoad", "pushCheck")
  /\ old' = [old EXCEPT ![t] = uHead]
  /\ UNCHANGED <<data, head, tail, uHead, uTail, element, output, block>>

(* Bug: starts one slot behind. *)
PushLoadOneBehind(t) ==
  /\ Goto(t, "pushLoad", "pushCheck")
  /\ old' = [old EXCEPT ![t] = head - 1]
  /\ UNCHANGED <<data, head, tail, uHead, uTail, element, output, block>>

(* int OldHead = m_Head *)
PushLoad(t) ==
  /\ Goto(t, "pushLoad", "pushCheck")
  /\ old' = [old EXCEPT ![t] = head]
  /\ UNCHANGED <<data, head, tail, uHead, uTail, element, output, block>>

PushDiff(t) == (old[t] + 1) - tail

PushSpace(t) ==
  /\ ~OutOfRange(PushDiff(t))
  /\ Goto(t, "pushCheck", "pushClaim")
  /\ UNCHANGED <<data, head, tail, uHead, uTail, old, element, output, block>>

PushSpin(t) ==
  /\ OutOfRange(PushDiff(t))
  /\ block[t]
  /\ Goto(t, "pushCheck", "pushLoad")
  /\ UNCHANGED <<data, head, tail, uHead, uTail, old, element, output, block>>

PushFail(t) ==
  /\ OutOfRange(PushDiff(t))
  /\ ~block[t]
  /\ Return(t, "pushCheck")
  /\ element' = [element EXCEPT ![t] = NoValue]
  /\ UNCHANGED <<data, head, tail, uHead, uTail, output>>

(* Bug: a store in place of the compare-exchange. *)
PushClaimUnconditionally(t) ==
  /\ Goto(t, "pushClaim", "pushStore")
  /\ uHead' = old[t] + 1
  /\ UNCHANGED <<data, head, tail, uTail, old, element, output, block>>

(* m_UncomittedHead.compare_exchange_strong(OldHead, NewHead) *)
PushClaim(t) ==
  /\ uHead = old[t]
  /\ Goto(t, "pushClaim", "pushStore")
  /\ uHead' = old[t] + 1
  /\ UNCHANGED <<data, head, tail, uTail, old, element, output, block>>

PushRetry(t) ==
  /\ uHead # old[t]
  /\ Goto(t, "pushClaim", "pushLoad")
  /\ UNCHANGED <<data, head, tail, uHead, uTail, old, element, output, block>>

(* m_Data[OldHead % MaxCapacity] = Element *)
PushStore(t) ==
  /\ Goto(t, "pushStore", "pushCommit")
  /\ data' = [data EXCEPT ![Slot(old[t])] = element[t]]
  /\ UNCHANGED <<head, tail, uHead, uTail, old, element, output, block>>

(* Bug: m_Head is not stored. *)
PushCommitWithoutPublishing(t) ==
  /\ Return(t, "pushCommit")
  /\ element' = [element EXCEPT ![t] = NoValue]
  /\ UNCHANGED <<data, head, tail, uHead, uTail, output>>

(* m_Head = m_UncomittedHead *)
PushCommit(t) ==
  /\ Return(t, "pushCommit")
  /\ head' = uHead
  /\ element' = [element EXCEPT ![t] = NoValue]
  /\ UNCHANGED <<data, tail, uHead, uTail, output>>

----------------------------------------------------------------------------
(* bool Pop(ElementType* Output, bool bBlockUntilAvailable)                *)

BeginPop(t, b) ==
  /\ Goto(t, "idle", "popLoad")
  /\ block' = [block EXCEPT ![t] = b]
  /\ UNCHANGED <<data, head, tail, uHead, uTail, old, element, output>>

(* int OldTail = m_Tail *)
PopLoad(t) ==
  /\ Goto(t, "popLoad", "popCheck")
  /\ old' = [old EXCEPT ![t] = tail]
  /\ UNCHANGED <<data, head, tail, uHead, uTail, element, output, block>>

PopDiff(t) == head - (old[t] + 1)

PopItem(t) ==
  /\ ~OutOfRange(PopDiff(t))
  /\ Goto(t, "popCheck", "popClaim")
  /\ UNCHANGED <<data, head, tail, uHead, uTail, old, element, output, block>>

PopSpin(t) ==
  /\ OutOfRange(PopDiff(t))
  /\ block[t]
  /\ Goto(t, "popCheck", "popLoad")
  /\ UNCHANGED <<data, head, tail, uHead, uTail, old, element, output, block>>

PopFail(t) ==
  /\ OutOfRange(PopDiff(t))
  /\ ~block[t]
  /\ Return(t, "popCheck")
  /\ UNCHANGED <<data, head, tail, uHead, uTail, element, output>>

(* m_UncomittedTail.compare_exchange_strong(OldTail, NewTail) *)
PopClaim(t) ==
  /\ uTail = old[t]
  /\ Goto(t, "popClaim", "popRead")
  /\ uTail' = old[t] + 1
  /\ UNCHANGED <<data, head, tail, uHead, old, element, output, block>>

PopRetry(t) ==
  /\ uTail # old[t]
  /\ Goto(t, "popClaim", "popLoad")
  /\ UNCHANGED <<data, head, tail, uHead, uTail, old, element, output, block>>

(* *Output = m_Data[OldTail % MaxCapacity] *)
PopRead(t) ==
  /\ Goto(t, "popRead", "popCommit")
  /\ output' = [output EXCEPT ![t] = data[Slot(old[t])]]
  /\ UNCHANGED <<data, head, tail, uHead, uTail, old, element, block>>

(* m_Tail = m_UncomittedTail *)
PopCommit(t) ==
  /\ Return(t, "popCommit")
  /\ tail' = uTail
  /\ UNCHANGED <<data, head, uHead, uTail, element, output>>

----------------------------------------------------------------------------
PushStep(t) ==
  \/ PushLoad(t)
  \/ PushSpace(t)
  \/ PushSpin(t)
  \/ PushFail(t)
  \/ PushClaim(t)
  \/ PushRetry(t)
  \/ PushStore(t)
  \/ PushCommit(t)

PopStep(t) ==
  \/ PopLoad(t)
  \/ PopItem(t)
  \/ PopSpin(t)
  \/ PopFail(t)
  \/ PopClaim(t)
  \/ PopRetry(t)
  \/ PopRead(t)
  \/ PopCommit(t)

Begin ==
  \/ \E t \in Producers, v \in Values, b \in BlockModes : BeginPush(t, v, b)
  \/ \E t \in Consumers, b \in BlockModes : BeginPop(t, b)

Next ==
  \/ Begin
  \/ \E t \in Producers : PushStep(t)
  \/ \E t \in Consumers : PopStep(t)

Spec == Init /\ [][Next]_vars

(* Every thread inside a call keeps running; none has to start one. *)
Fairness == \A t \in Threads : WF_vars(PushStep(t) \/ PopStep(t))

FairSpec == Spec /\ Fairness
----------------------------------------------------------------------------
(***************************************************************************)
(* Properties                                                              *)
(***************************************************************************)
PushWindow == {t \in Threads : pc[t] \in {"pushStore", "pushCommit"}}
PopWindow == {t \in Threads : pc[t] \in {"popRead", "popCommit"}}

PushLocations ==
  {"pushLoad", "pushCheck", "pushClaim", "pushStore", "pushCommit"}
PopLocations == {"popLoad", "popCheck", "popClaim", "popRead", "popCommit"}
Locations == {"idle"} \cup PushLocations \cup PopLocations

(* Every variable has its type. *)
TypeOK ==
  /\ data \in [0 .. Capacity - 1 -> Values \cup {NoValue}]
  /\ head \in Nat
  /\ tail \in Nat
  /\ uHead \in Nat
  /\ uTail \in Nat
  /\ pc \in [Threads -> Locations]
  /\ old \in [Threads -> Nat]
  /\ element \in [Threads -> Values \cup {NoValue}]
  /\ output \in [Threads -> Values \cup {NoValue}]
  /\ block \in [Threads -> BOOLEAN]

(* The two claimed cursors act as spin locks: between its compare-exchange *)
(* and its publishing store a thread is alone on its side of the ring, and *)
(* the claimed cursor is ahead of the published one exactly then.  It is   *)
(* what makes the plain store m_Head = m_UncomittedHead publish the one    *)
(* element just written, and never another thread's claim.                 *)
SingleCommitter ==
  /\ \A t \in PushWindow : old[t] = head /\ uHead = head + 1
  /\ \A t \in PopWindow : old[t] = tail /\ uTail = tail + 1
  /\ \A s, t \in PushWindow : s = t
  /\ \A s, t \in PopWindow : s = t
  /\ PushWindow = {} => uHead = head
  /\ PopWindow = {} => uTail = tail

(* A slot being written holds no published element, not even the one a     *)
(* concurrent Pop has claimed and is still copying out, although Push      *)
(* compared its OldHead with an m_Tail that has moved since.               *)
NoOverwrite ==
  \A t \in PushWindow : \A i \in tail .. head - 1 : Slot(i) # Slot(old[t])

(* The order of the four cursors and what each thread knows of them at     *)
(* each point of its call; the strengthening that makes SingleCommitter    *)
(* inductive.                                                              *)
Cursors ==
  /\ tail <= uTail /\ uTail <= head /\ head <= uHead
  /\ head - tail <= Capacity
  /\ \A t \in Threads :
       /\ element[t] # NoValue <=> pc[t] \in PushLocations
       /\ pc[t] \in {"pushCheck", "pushClaim"} => old[t] <= head
       /\ pc[t] = "pushClaim" => (old[t] + 1) - tail <= Capacity
       /\ pc[t] \in {"pushStore", "pushCommit"} =>
            (head + 1) - tail <= Capacity
       /\ pc[t] = "pushCommit" => data[Slot(old[t])] = element[t]
       /\ pc[t] \in {"popCheck", "popClaim"} => old[t] <= tail
       /\ pc[t] = "popClaim" => old[t] + 1 <= head

IndInv == TypeOK /\ SingleCommitter /\ Cursors

(* A thread that pops alone is told that the queue is empty only when it   *)
(* is.  JobScheduler::WaitForJob goes to sleep on that answer, and the     *)
(* Pops it makes are serialised by m_WorkMutex.                            *)
PopFailsOnlyWhenEmpty ==
  [][\A t \in Consumers :
       pc[t] = "popCheck" /\ pc'[t] = "idle" => head = tail]_vars

(* A non-blocking Push is refused only when the ring is full, or when at   *)
(* least two elements were pushed and popped since it read m_Head.         *)
PushFailsOnlyWhenFullOrOvertaken ==
  [][\A t \in Producers :
       pc[t] = "pushCheck" /\ pc'[t] = "idle" =>
         \/ head - tail = Capacity
         \/ head >= old[t] + 2 /\ tail >= old[t] + 2]_vars

(* A call returns, as long as every thread inside a call keeps running: a  *)
(* thread that finds the claimed cursor ahead spins, and whoever it waits  *)
(* for publishes.  For non-blocking calls, and finitely many pushes.           *)
EveryCallReturns ==
  \A t \in Threads : pc[t] # "idle" /\ ~block[t] ~> pc[t] = "idle"

(* The elements published and not yet claimed by a Pop. *)
AbstractItems ==
  [i \in 1 .. head - uTail |-> data[Slot(uTail + i - 1)]]

(* A Pop takes its element when it claims the slot, and copies it later. *)
AbstractGot ==
  [t \in Consumers |-> IF pc[t] = "popRead" THEN data[Slot(old[t])]
                                            ELSE output[t]]

AbstractOffer == [t \in Producers |-> element[t]]

Fifo == INSTANCE BoundedFifo WITH
          items <- AbstractItems, offer <- AbstractOffer, got <- AbstractGot

(* The ring is a bounded FIFO queue that loses, duplicates and reorders    *)
(* nothing: a Push takes effect when it stores m_Head, a Pop when its      *)
(* compare-exchange succeeds.                                              *)
IsFifo == Fifo!FifoSpec
============================================================================
