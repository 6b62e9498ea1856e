------------------------ MODULE ProjectGraphProofs ------------------------
(***************************************************************************)
(* What holds of ProjectGraph for any finite set of projects and any graph *)
(* of dependencies, cyclic or not.                                         *)
(***************************************************************************)
EXTENDS ProjectGraph, SequenceTheorems, TLAPS

Frames == [project : Projects, todo : SUBSET Projects]
Depth == 1 .. Len(stack)
OnStack(p) == \E i \in Depth : stack[i].project = p
Places == 1 .. Len(dependencyList)
Listed(p) == \E i \in Places : dependencyList[i] = p

Closed(S, graph) == \A q \in S : graph[q] \subseteq S

(* The calls on the stack, innermost first, are a path of dependencies; a  *)
(* project whose call has returned has had all its dependencies walked;    *)
(* and the walk comes to nothing that the target does not need.            *)
WalkInv ==
  /\ Target \in processedList
  /\ \A i \in Depth :
       /\ stack[i].project \in processedList
       /\ stack[i].todo \subseteq dependencies[stack[i].project]
       /\ dependencies[stack[i].project] \ stack[i].todo \subseteq processedList
  /\ \A i, k \in Depth : stack[i].project = stack[k].project => i = k
  /\ \A i \in Depth : i + 1 \in Depth =>
       stack[i].project \in dependencies[stack[i + 1].project]
  /\ \A p \in processedList : OnStack(p) \/ dependencies[p] \subseteq processedList
  /\ \A S \in SUBSET Projects :
       Target \in S /\ Closed(S, dependencies) => processedList \subseteq S

(* The list has the projects whose call has returned, each once and, if    *)
(* the graph is acyclic, behind its dependencies.                          *)
ListInv ==
  /\ parallel => dependencyList = << >>
  /\ ~parallel => \A p \in processedList : OnStack(p) \/ Listed(p)
  /\ \A i \in Places : dependencyList[i] \in processedList /\ ~OnStack(dependencyList[i])
  /\ \A i, k \in Places : dependencyList[i] = dependencyList[k] => i = k
  /\ Acyclic => \A i \in Places : \A d \in dependencies[dependencyList[i]] :
       \E k \in Places : k < i /\ dependencyList[k] = d

(* The loop has built what is before next, and nothing after it.           *)
LoopInv ==
  ~parallel =>
    /\ Walking => next = 1 /\ result = "none"
    /\ \A i \in Places :
         /\ i < next => state[dependencyList[i]] = "built"
         /\ i = next => state[dependencyList[i]] \in {"unbuilt", "building", "failed"}
         /\ i > next => state[dependencyList[i]] = "unbuilt"
    /\ \A p \in Projects : state[p] # "unbuilt" => Listed(p) /\ ~Walking
    /\ \A j \in Jobs : phase[j] = "idle"
    /\ result = "succeeded" => ~Walking /\ next > Len(dependencyList)

(* The jobs form the tree of the walk, below the host.                     *)
TreeInv ==
  parallel =>
    /\ dependsOn[Host] = {Target}
    /\ \A p \in Projects : dependsOn[p] \subseteq dependencies[p] \cap Projects
    /\ \A d \in processedList \ {Target} : \E p \in Projects : d \in dependsOn[p]
    /\ \A S \in SUBSET Projects :
         Target \in S /\ Closed(S, dependsOn) => processedList \subseteq S

(* A job that has started comes after the jobs below it, and a project is  *)
(* built only if all of those below it were.                               *)
JobInv ==
  parallel =>
    /\ Walking => \A j \in Jobs : phase[j] = "idle"
    /\ \A j \in Jobs : phase[j] # "idle" => \A d \in dependsOn[j] : phase[d] = "done"
    /\ \A p \in Projects :
         /\ phase[p] = "idle" <=> state[p] = "unbuilt"
         /\ phase[p] # "idle" => p \in processedList
         /\ phase[p] = "done" => state[p] \in {"built", "failed", "skipped"}
         /\ state[p] \in {"failed", "skipped"} => bFailed
         /\ Started(p) => \A d \in dependsOn[p] : state[d] = "built"
    /\ returned => phase[Host] = "done"
    /\ result = "succeeded" => returned /\ ~bFailed

IndInv == TypeOK /\ WalkInv /\ ListInv /\ LoopInv /\ TreeInv /\ JobInv
----------------------------------------------------------------------------
(* The stack.                                                              *)

LEMMA FrameType == ASSUME TypeOK, NEW p \in Projects PROVE Frame(p) \in Frames
BY DEF TypeOK, Frame, Frames

LEMMA StackType ==
  ASSUME TypeOK
  PROVE  /\ stack \in Seq(Frames) /\ Len(stack) \in Nat
         /\ Walking <=> Len(stack) # 0
         /\ \A i \in Depth : /\ stack[i] \in Frames
                            /\ stack[i].project \in Projects
                            /\ stack[i].todo \subseteq Projects
<1>1. stack \in Seq(Frames)
  BY DEF TypeOK, Frames
<1>2. Len(stack) \in Nat /\ (stack # << >> <=> Len(stack) # 0)
  BY <1>1, EmptySeq
<1>3. \A i \in Depth : stack[i] \in Frames
  BY <1>1, ElementOfSeq DEF Depth
<1>4. QED
  BY <1>1, <1>2, <1>3 DEF Frames, Walking

(* The top of the stack without one of its dependencies.                   *)
LEMMA DropFacts ==
  ASSUME TypeOK, Walking, NEW d
  PROVE  /\ Drop(d) \in Seq(Frames) /\ Len(Drop(d)) = Len(stack)
         /\ \A i \in Depth :
              /\ Drop(d)[i].project = stack[i].project
              /\ Drop(d)[i].todo = IF i = 1 THEN stack[1].todo \ {d} ELSE stack[i].todo
<1>1. stack \in Seq(Frames) /\ Len(stack) \in Nat \ {0} /\ stack[1] \in Frames
  BY StackType DEF Depth
<1>2. PICK top : top = [stack[1] EXCEPT !.todo = stack[1].todo \ {d}]
  OBVIOUS
<1>3. top \in Frames /\ top.project = stack[1].project /\ top.todo = stack[1].todo \ {d}
  BY <1>1, <1>2 DEF Frames
<1>4. Drop(d) = [stack EXCEPT ![1] = top]
  BY <1>2 DEF Drop
<1>5. 1 \in 1 .. Len(stack)
  BY <1>1
<1>6. /\ Drop(d) \in Seq(Frames) /\ Len(Drop(d)) = Len(stack)
      /\ \A i \in 1 .. Len(stack) : Drop(d)[i] = IF i = 1 THEN top ELSE stack[i]
  BY <1>1, <1>3, <1>4, <1>5, ExceptSeq
<1>7. \A i \in Depth :
        /\ i = 1 => Drop(d)[i] = top
        /\ i # 1 => Drop(d)[i] = stack[i]
  BY <1>6 DEF Depth
<1>8. QED
  BY <1>3, <1>6, <1>7

LEMMA SkipFacts ==
  ASSUME TypeOK, NEW d \in Projects, SkipProcessed(d)
  PROVE  /\ stack' \in Seq(Frames) /\ Len(stack') = Len(stack) /\ 1 \in Depth
         /\ \A i \in Depth :
              /\ stack'[i].project = stack[i].project
              /\ stack'[i].todo = IF i = 1 THEN stack[1].todo \ {d} ELSE stack[i].todo
<1>1. Walking /\ stack' = Drop(d)
  BY DEF SkipProcessed
<1>2. 1 \in Depth
  BY <1>1, StackType DEF Depth
<1>3. QED
  BY <1>1, <1>2, DropFacts

LEMMA VisitFacts ==
  ASSUME TypeOK, NEW d \in Projects, Visit(d)
  PROVE  /\ stack' \in Seq(Frames) /\ Len(stack') = Len(stack) + 1 /\ 1 \in Depth
         /\ stack'[1].project = d /\ stack'[1].todo = dependencies[d]
         /\ \A i \in Depth :
              /\ stack'[i + 1].project = stack[i].project
              /\ stack'[i + 1].todo =
                   IF i = 1 THEN stack[1].todo \ {d} ELSE stack[i].todo
<1>1. Walking /\ stack' = <<Frame(d)>> \o Drop(d)
  BY DEF Visit
<1>2. /\ Drop(d) \in Seq(Frames) /\ Len(Drop(d)) = Len(stack)
      /\ \A i \in Depth :
           /\ Drop(d)[i].project = stack[i].project
           /\ Drop(d)[i].todo = IF i = 1 THEN stack[1].todo \ {d} ELSE stack[i].todo
  BY <1>1, DropFacts
<1>3. Frame(d) \in Frames /\ Len(stack) \in Nat /\ 1 \in Depth
  BY <1>1, FrameType, StackType DEF Depth
<1>4. <<Frame(d)>> \in Seq(Frames) /\ Len(<<Frame(d)>>) = 1 /\ <<Frame(d)>>[1] = Frame(d)
  BY <1>3
<1>5. /\ stack' \in Seq(Frames) /\ Len(stack') = 1 + Len(stack)
      /\ \A i \in 1 .. 1 + Len(stack) :
           stack'[i] = IF i <= 1 THEN <<Frame(d)>>[i] ELSE Drop(d)[i - 1]
  BY <1>1, <1>2, <1>3, <1>4, ConcatProperties
<1>6. stack'[1] = Frame(d) /\ \A i \in Depth : stack'[i + 1] = Drop(d)[i]
  BY <1>3, <1>4, <1>5 DEF Depth
<1>7. QED
  <2>1. Frame(d).project = d /\ Frame(d).todo = dependencies[d]
    BY DEF Frame
  <2>2. \A i \in Depth : stack'[i + 1] = Drop(d)[i]
    BY <1>6
  <2>3. \A i \in Depth :
          /\ stack'[i + 1].project = stack[i].project
          /\ stack'[i + 1].todo = IF i = 1 THEN stack[1].todo \ {d} ELSE stack[i].todo
    BY <1>2, <2>2
  <2>4. stack' \in Seq(Frames) /\ Len(stack') = Len(stack) + 1 /\ 1 \in Depth
    BY <1>3, <1>5
  <2>5. stack'[1].project = d /\ stack'[1].todo = dependencies[d]
    BY <1>6, <2>1
  <2>6. QED
    BY <2>3, <2>4, <2>5

LEMMA LeaveFacts ==
  ASSUME TypeOK, Leave
  PROVE  /\ stack' \in Seq(Frames) /\ Len(stack') = Len(stack) - 1 /\ 1 \in Depth
         /\ \A i \in 1 .. Len(stack) - 1 : stack'[i] = stack[i + 1]
<1>1. Walking /\ stack' = Tail(stack) /\ stack \in Seq(Frames) /\ stack # << >>
  BY StackType DEF Leave, Walking
<1>2. QED
  BY <1>1, StackType, HeadTailProperties DEF Depth

----------------------------------------------------------------------------
(* The walk.                                                               *)

LEMMA WalkSkip ==
  ASSUME TypeOK, TypeOK', WalkInv, NEW d \in Projects, SkipProcessed(d)
  PROVE  WalkInv'
<1>1. UNCHANGED <<dependencies, processedList>> /\ d \in processedList
  BY DEF SkipProcessed, config
<1>2. Depth' = Depth
  BY SkipFacts DEF Depth
<1>3. \A i \in Depth :
        /\ stack'[i].todo \subseteq dependencies[stack[i].project]
        /\ dependencies[stack[i].project] \ stack'[i].todo \subseteq processedList
  <2> SUFFICES ASSUME NEW i \in Depth
               PROVE  /\ stack'[i].todo \subseteq dependencies[stack[i].project]
                      /\ dependencies[stack[i].project] \ stack'[i].todo
                           \subseteq processedList
    OBVIOUS
  <2>1. stack'[i].todo = IF i = 1 THEN stack[1].todo \ {d} ELSE stack[i].todo
    BY SkipFacts
  <2>2. stack'[i].todo \subseteq stack[i].todo /\ stack[i].todo \ stack'[i].todo \subseteq {d}
    BY <2>1
  <2>3. QED
    BY <1>1, <2>2 DEF WalkInv
<1>4. \A p : OnStack(p)' <=> OnStack(p)
  BY <1>2, SkipFacts DEF OnStack
<1>5. \A i \in Depth : stack'[i].project = stack[i].project
  BY SkipFacts
<1>6. \A i, k \in Depth : stack'[i].project = stack'[k].project => i = k
  BY <1>5 DEF WalkInv
<1>7. \A i \in Depth : i + 1 \in Depth =>
        stack'[i].project \in dependencies[stack'[i + 1].project]
  BY <1>5 DEF WalkInv
<1>8. QED
  BY <1>1, <1>2, <1>3, <1>4, <1>5, <1>6, <1>7 DEF WalkInv, Closed

LEMMA WalkVisit ==
  ASSUME TypeOK, TypeOK', WalkInv, NEW d \in Projects, Visit(d)
  PROVE  WalkInv'
<1> DEFINE p == stack[1].project
<1>1. /\ UNCHANGED dependencies /\ processedList' = processedList \cup {d}
      /\ d \notin processedList /\ d \in stack[1].todo
  BY DEF Visit, config
<1>2. Len(stack) \in Nat /\ Depth' = 1 .. Len(stack) + 1 /\ 1 \in Depth
  BY StackType, VisitFacts DEF Depth
<1>3. \A i \in Depth' : i = 1 \/ i - 1 \in Depth
  BY <1>2 DEF Depth
<1>4. p \in processedList /\ p \in Projects /\ d \in dependencies[p]
  <2>1. p \in processedList /\ p \in Projects /\ stack[1].todo \subseteq dependencies[p]
    BY <1>2, StackType DEF WalkInv
  <2>2. QED
    BY <1>1, <2>1
<1>5. /\ stack'[1].project = d
      /\ \A i \in Depth' : i # 1 => stack'[i].project = stack[i - 1].project
  <2>1. ASSUME NEW i \in Depth', i # 1
        PROVE  stack'[i].project = stack[i - 1].project
    <3>1. i - 1 \in Depth /\ (i - 1) + 1 = i
      BY <1>2, <1>3, <2>1
    <3>2. stack'[(i - 1) + 1].project = stack[i - 1].project
      BY <3>1, VisitFacts
    <3>3. QED
      BY <3>1, <3>2
  <2>2. QED
    BY <2>1, VisitFacts
<1>6. \A i \in Depth' :
        /\ stack'[i].todo \subseteq dependencies[stack'[i].project]
        /\ dependencies[stack'[i].project] \ stack'[i].todo \subseteq processedList'
  <2> SUFFICES ASSUME NEW i \in Depth'
               PROVE  /\ stack'[i].todo \subseteq dependencies[stack'[i].project]
                      /\ dependencies[stack'[i].project] \ stack'[i].todo
                           \subseteq processedList'
    OBVIOUS
  <2>1. CASE i = 1
    BY <2>1, VisitFacts
  <2>2. CASE i # 1
    <3>1. i - 1 \in Depth
      BY <1>3, <2>2
    <3>2. (i - 1) + 1 = i
      BY <1>2
    <3>3. stack'[(i - 1) + 1].todo =
            IF i - 1 = 1 THEN stack[1].todo \ {d} ELSE stack[i - 1].todo
      BY <3>1, VisitFacts
    <3>4. /\ stack'[i].project = stack[i - 1].project
          /\ stack[i - 1].todo \ {d} \subseteq stack'[i].todo
          /\ stack'[i].todo \subseteq stack[i - 1].todo
      BY <1>5, <2>2, <3>2, <3>3
    <3>5. QED
      BY <1>1, <3>1, <3>4 DEF WalkInv
  <2>3. QED
    BY <2>1, <2>2
<1>7. \A i \in Depth : stack[i].project # d
  BY <1>1 DEF WalkInv
<1>8. \A i, k \in Depth' : stack'[i].project = stack'[k].project => i = k
  <2> SUFFICES ASSUME NEW i \in Depth', NEW k \in Depth',
                      stack'[i].project = stack'[k].project
               PROVE  i = k
    OBVIOUS
  <2>1. CASE i = 1 \/ k = 1
    BY <1>3, <1>5, <1>7, <2>1
  <2>2. CASE i # 1 /\ k # 1
    <3>1. i - 1 = k - 1
      BY <1>3, <1>5, <2>2 DEF WalkInv
    <3>2. QED
      BY <1>2, <3>1
  <2>3. QED
    BY <2>1, <2>2
<1>9. \A i \in Depth' : i + 1 \in Depth' =>
        stack'[i].project \in dependencies[stack'[i + 1].project]
  <2> SUFFICES ASSUME NEW i \in Depth', i + 1 \in Depth'
               PROVE  stack'[i].project \in dependencies[stack'[i + 1].project]
    OBVIOUS
  <2>1. i \in Nat /\ i \in Depth /\ (i + 1) - 1 = i /\ i + 1 # 1
    BY <1>2 DEF Depth
  <2>0. stack'[i + 1].project = stack[i].project
    BY <2>1, VisitFacts
  <2>2. CASE i = 1
    BY <1>4, <1>5, <2>0, <2>2
  <2>3. CASE i # 1
    <3>1. i - 1 \in Depth /\ (i - 1) + 1 = i
      BY <1>2, <1>3, <2>3
    <3>2. stack[i - 1].project \in dependencies[stack[(i - 1) + 1].project]
      BY <2>1, <3>1 DEF WalkInv
    <3>3. QED
      BY <1>5, <2>0, <2>3, <3>1, <3>2
  <2>4. QED
    BY <2>2, <2>3
<1>10. \A q \in processedList' : OnStack(q)' \/ dependencies[q] \subseteq processedList'
  <2>1. \A q : OnStack(q) => OnStack(q)'
    <3>1. \A i \in Depth : i + 1 \in Depth'
      BY <1>2 DEF Depth
    <3>2. \A i \in Depth : stack'[i + 1].project = stack[i].project
      BY VisitFacts
    <3>3. QED
      BY <3>1, <3>2 DEF OnStack
  <2>2. OnStack(d)'
    BY <1>2, <1>5 DEF OnStack
  <2>3. QED
    BY <1>1, <2>1, <2>2 DEF WalkInv
<1>11. ASSUME NEW S \in SUBSET Projects, Target \in S, Closed(S, dependencies)
       PROVE  processedList' \subseteq S
  <2>1. processedList \subseteq S
    BY <1>11 DEF WalkInv
  <2>2. QED
    BY <1>1, <1>4, <1>11, <2>1 DEF Closed
<1>12. QED
  <2>1. \A i \in Depth' : stack'[i].project \in processedList'
    BY <1>1, <1>3, <1>5 DEF WalkInv
  <2>2. Target \in processedList'
    BY <1>1 DEF WalkInv
  <2>3. QED
    BY <1>1, <1>6, <1>8, <1>9, <1>10, <1>11, <2>1, <2>2 DEF WalkInv, Closed

LEMMA WalkLeave ==
  ASSUME TypeOK, TypeOK', WalkInv, Leave
  PROVE  WalkInv'
<1>1. UNCHANGED <<dependencies, processedList>> /\ stack[1].todo = {}
  BY DEF Leave, config
<1>2. Len(stack) \in Nat \ {0} /\ Depth' = 1 .. Len(stack) - 1
  BY StackType, LeaveFacts DEF Depth
<1>3. \A i \in Depth' : i + 1 \in Depth /\ stack'[i] = stack[i + 1] /\ i \in Nat
  BY <1>2, LeaveFacts DEF Depth
<1>4. \A q : OnStack(q) => OnStack(q)' \/ q = stack[1].project
  <2> SUFFICES ASSUME NEW q, NEW i \in Depth, stack[i].project = q, i # 1
               PROVE  \E k \in Depth' : stack'[k].project = q
    BY DEF OnStack
  <2>1. i - 1 \in Depth' /\ (i - 1) + 1 = i
    BY <1>2 DEF Depth
  <2>2. QED
    BY <1>3, <2>1
<1>5. dependencies[stack[1].project] \subseteq processedList
  BY <1>1, LeaveFacts DEF WalkInv
<1>6. \A i \in Depth' :
        /\ stack'[i].project \in processedList
        /\ stack'[i].todo \subseteq dependencies[stack'[i].project]
        /\ dependencies[stack'[i].project] \ stack'[i].todo \subseteq processedList
  BY <1>3 DEF WalkInv
<1>7. \A i, k \in Depth' : stack'[i].project = stack'[k].project => i = k
  <2> SUFFICES ASSUME NEW i \in Depth', NEW k \in Depth',
                      stack'[i].project = stack'[k].project
               PROVE  i = k
    OBVIOUS
  <2>1. i + 1 = k + 1
    BY <1>3 DEF WalkInv
  <2>2. QED
    BY <1>3, <2>1
<1>8. \A i \in Depth' : i + 1 \in Depth' =>
        stack'[i].project \in dependencies[stack'[i + 1].project]
  <2> SUFFICES ASSUME NEW i \in Depth', i + 1 \in Depth'
               PROVE  stack'[i].project \in dependencies[stack'[i + 1].project]
    OBVIOUS
  <2>1. i + 1 \in Depth /\ (i + 1) + 1 \in Depth
    BY <1>3
  <2>2. QED
    BY <1>3, <2>1 DEF WalkInv
<1>9. \A p \in processedList : OnStack(p)' \/ dependencies[p] \subseteq processedList
  BY <1>4, <1>5 DEF WalkInv
<1>10. QED
  BY <1>1, <1>6, <1>7, <1>8, <1>9 DEF WalkInv, Closed

LEMMA VisitOnStack ==
  ASSUME TypeOK, NEW d \in Projects, Visit(d)
  PROVE  \A p : OnStack(p)' <=> p = d \/ OnStack(p)
<1>1. Len(stack) \in Nat /\ Depth' = 1 .. Len(stack) + 1
  BY StackType, VisitFacts DEF Depth
<1>2. stack'[1].project = d /\ 1 \in Depth'
  <2>1. 1 \in Depth'
    BY <1>1
  <2>2. QED
    BY <2>1, VisitFacts
<1>3. \A i \in Depth : i + 1 \in Depth' /\ stack'[i + 1].project = stack[i].project
  <2>1. \A i \in Depth : i + 1 \in Depth'
    BY <1>1 DEF Depth
  <2>2. \A i \in Depth : stack'[i + 1].project = stack[i].project
    BY VisitFacts
  <2>3. QED
    BY <2>1, <2>2
<1>4. \A i \in Depth' : i = 1 \/ (i - 1 \in Depth /\ (i - 1) + 1 = i)
  BY <1>1 DEF Depth
<1>5. QED
  BY <1>2, <1>3, <1>4 DEF OnStack

LEMMA LeaveOnStack ==
  ASSUME TypeOK, WalkInv, Leave
  PROVE  \A p : OnStack(p)' <=> OnStack(p) /\ p # stack[1].project
<1>1. Len(stack) \in Nat /\ Depth' = 1 .. Len(stack) - 1 /\ 1 \in Depth
  BY StackType, LeaveFacts DEF Depth
<1>2. \A i \in Depth' : i + 1 \in Depth /\ i + 1 # 1 /\ stack'[i] = stack[i + 1]
  BY <1>1, LeaveFacts DEF Depth
<1>3. \A i \in Depth : i = 1 \/ (i - 1 \in Depth' /\ (i - 1) + 1 = i)
  BY <1>1 DEF Depth
<1>4. \A i \in Depth : stack[i].project = stack[1].project => i = 1
  BY <1>1 DEF WalkInv
<1>5. QED
  BY <1>2, <1>3, <1>4 DEF OnStack

(* In an acyclic graph no call that has not returned is of a dependency of *)
(* the innermost: the stack between the two would be a cycle.              *)
LEMMA NoDependencyOnStack ==
  ASSUME TypeOK, WalkInv, Acyclic, Walking, NEW d \in dependencies[stack[1].project]
  PROVE  ~OnStack(d)
<1> SUFFICES ASSUME NEW j \in Depth, stack[j].project = d
             PROVE  FALSE
  BY DEF OnStack
<1>1. Len(stack) \in Nat /\ Depth = 1 .. Len(stack) /\ j \in Nat \ {0}
  BY StackType DEF Depth
<1> DEFINE S == {stack[k].project : k \in 1 .. j}
<1>2. 1 .. j \subseteq Depth
  BY <1>1
<1>3. S \in SUBSET Projects /\ S # {}
  <2>1. \A k \in 1 .. j : stack[k].project \in Projects
    BY <1>2, StackType
  <2>2. j \in 1 .. j
    BY <1>1
  <2>3. QED
    BY <2>1, <2>2
<1>4. PICK q \in S : dependencies[q] \cap S = {}
  <2> HIDE DEF S
  <2>1. QED
    BY <1>3 DEF Acyclic
<1>5. PICK k \in 1 .. j : q = stack[k].project
  BY <1>4
<1>6. CASE k = 1
  <2>1. d \in S
    BY <1>1
  <2>2. QED
    BY <1>4, <1>5, <1>6, <2>1
<1>7. CASE k # 1
  <2>1. k - 1 \in 1 .. j /\ (k - 1) + 1 = k
    BY <1>1, <1>7
  <2>2. stack[k - 1].project \in dependencies[q]
    BY <1>2, <1>5, <2>1 DEF WalkInv
  <2>3. stack[k - 1].project \in S
    BY <2>1
  <2>4. QED
    BY <1>4, <2>2, <2>3
<1>8. QED
  BY <1>6, <1>7

----------------------------------------------------------------------------
(* The list.                                                               *)

LEMMA ListSkip ==
  ASSUME TypeOK, ListInv, NEW d \in Projects, SkipProcessed(d)
  PROVE  ListInv'
<1>1. UNCHANGED <<dependencies, parallel, processedList, dependencyList>>
  BY DEF SkipProcessed, config
<1>2. \A p : OnStack(p)' <=> OnStack(p)
  BY SkipFacts DEF OnStack, Depth
<1>3. Places' = Places /\ (Acyclic' <=> Acyclic) /\ \A p : Listed(p)' <=> Listed(p)
  BY <1>1 DEF Places, Acyclic, Listed
<1>4. QED
  BY <1>1, <1>2, <1>3 DEF ListInv

LEMMA ListVisit ==
  ASSUME TypeOK, ListInv, NEW d \in Projects, Visit(d)
  PROVE  ListInv'
<1>1. /\ UNCHANGED <<dependencies, parallel, dependencyList>>
      /\ d \notin processedList /\ processedList' = processedList \cup {d}
  BY DEF Visit, config
<1>2. \A p : OnStack(p)' <=> p = d \/ OnStack(p)
  BY VisitOnStack
<1>3. Places' = Places /\ (Acyclic' <=> Acyclic) /\ \A p : Listed(p)' <=> Listed(p)
  BY <1>1 DEF Places, Acyclic, Listed
<1>4. \A i \in Places : dependencyList[i] # d
  BY <1>1 DEF ListInv
<1>5. QED
  BY <1>1, <1>2, <1>3, <1>4 DEF ListInv

LEMMA ListLeave ==
  ASSUME TypeOK, WalkInv, ListInv, Leave
  PROVE  ListInv'
<1> DEFINE p == stack[1].project
<1>1. /\ UNCHANGED <<dependencies, parallel, processedList>>
      /\ Walking /\ stack[1].todo = {}
      /\ Acyclic' <=> Acyclic
  BY DEF Leave, config, Acyclic
<1>2. \A q : OnStack(q)' <=> OnStack(q) /\ q # p
  BY LeaveOnStack
<1>3. 1 \in Depth /\ p \in Projects /\ p \in processedList /\ OnStack(p)
      /\ dependencies[p] \subseteq processedList
  BY <1>1, StackType, LeaveFacts DEF WalkInv, OnStack
<1>4. CASE parallel
  <2>1. dependencyList' = << >> /\ Places' = {} /\ Places = {}
    BY <1>4 DEF Leave, ListInv, Places
  <2>2. QED
    BY <1>1, <1>4, <2>1 DEF ListInv
<1>5. CASE ~parallel
  <2>1. /\ dependencyList' = Append(dependencyList, p) /\ dependencyList \in Seq(Projects)
        /\ Len(dependencyList) \in Nat
    BY <1>5 DEF Leave, TypeOK
  <2>2. /\ Places' = Places \cup {Len(dependencyList) + 1}
        /\ dependencyList'[Len(dependencyList) + 1] = p
        /\ \A i \in Places :
             /\ dependencyList'[i] = dependencyList[i]
             /\ i \in Nat /\ i < Len(dependencyList) + 1
    BY <1>3, <2>1, AppendProperties DEF Places
  <2>3. \A q : Listed(q)' <=> Listed(q) \/ q = p
    BY <2>2 DEF Listed
  <2>4. \A q \in processedList : OnStack(q)' \/ Listed(q)'
    BY <1>2, <1>5, <2>3 DEF ListInv
  <2>5. \A i \in Places : dependencyList[i] # p
    BY <1>3 DEF ListInv
  <2>6. \A i \in Places' :
          /\ dependencyList'[i] \in processedList
          /\ ~OnStack(dependencyList[i])'
    <3>1. \A i \in Places' : dependencyList'[i] \in processedList /\
             (OnStack(dependencyList'[i]) => dependencyList'[i] = p)
      BY <1>3, <2>2 DEF ListInv
    <3>2. \A q : OnStack(q)' => OnStack(q) /\ q # p
      BY <1>2
    <3>3. ASSUME NEW i \in Places'
          PROVE  ~OnStack(dependencyList[i])'
      BY <3>1, <3>2
    <3>4. QED
      BY <3>1, <3>3
  <2>7. \A i, k \in Places' : dependencyList'[i] = dependencyList'[k] => i = k
    BY <2>2, <2>5 DEF ListInv
  <2>8. ASSUME Acyclic, NEW i \in Places', NEW d \in dependencies[dependencyList'[i]]
        PROVE  \E k \in Places' : k < i /\ dependencyList'[k] = d
    <3>1. CASE i \in Places
      BY <2>2, <2>8, <3>1 DEF ListInv
    <3>2. CASE i = Len(dependencyList) + 1
      <4>1. d \in dependencies[p] /\ d \in processedList
        BY <1>3, <2>2, <2>8, <3>2
      <4>2. ~OnStack(d)
        BY <1>1, <2>8, <4>1, NoDependencyOnStack
      <4>3. Listed(d)
        BY <1>5, <4>1, <4>2 DEF ListInv
      <4>4. QED
        BY <2>2, <3>2, <4>3 DEF Listed
    <3>3. QED
      BY <2>2, <3>1, <3>2
  <2>9. QED
    <3>1. Acyclic' => \A i \in Places' : \A d \in dependencies'[dependencyList'[i]] :
            \E k \in Places' : k < i /\ dependencyList'[k] = d
      BY <1>1, <2>8
    <3>2. \A i \in Places' : dependencyList'[i] \in processedList' /\ ~OnStack(dependencyList[i])'
      BY <1>1, <2>6
    <3>3. QED
      BY <1>1, <1>5, <2>4, <2>7, <3>1, <3>2 DEF ListInv
<1>6. QED
  BY <1>4, <1>5

----------------------------------------------------------------------------
(* The tree of jobs.                                                       *)

LEMMA TreeVisit ==
  ASSUME TypeOK, WalkInv, TreeInv, NEW d \in Projects, Visit(d)
  PROVE  TreeInv'
<1> SUFFICES ASSUME parallel
             PROVE  TreeInv'
  BY DEF TreeInv, Visit, config
<1> DEFINE p == stack[1].project
<1>1. /\ UNCHANGED <<dependencies, parallel>> /\ processedList' = processedList \cup {d}
      /\ d \in stack[1].todo
      /\ dependsOn' = [dependsOn EXCEPT ![p] = @ \cup {d}]
  BY DEF Visit, config, Scheduler!Depend
<1>2. p \in processedList /\ p \in Projects /\ d \in dependencies[p] /\ p # Host
  BY <1>1, StackType, VisitFacts, ProjectsAssumption DEF WalkInv
<1>3. dependsOn \in [Jobs -> SUBSET Jobs] /\ Host \in Jobs /\ Projects \subseteq Jobs
  BY DEF TypeOK, Jobs
<1>4. /\ \A q \in Projects : q # p => dependsOn'[q] = dependsOn[q]
      /\ dependsOn'[p] = dependsOn[p] \cup {d}
      /\ dependsOn'[Host] = dependsOn[Host]
  BY <1>1, <1>2, <1>3
<1> HIDE DEF p
<1>5. dependsOn'[Host] = {Target}
  BY <1>4 DEF TreeInv
<1>6. \A q \in Projects : dependsOn'[q] \subseteq dependencies[q] \cap Projects
  BY <1>2, <1>4 DEF TreeInv
<1>7. \A e \in processedList' \ {Target} : \E q \in Projects : e \in dependsOn'[q]
  BY <1>1, <1>2, <1>4 DEF TreeInv
<1>8. ASSUME NEW S \in SUBSET Projects, Target \in S, Closed(S, dependsOn')
      PROVE  processedList' \subseteq S
  <2>1. Closed(S, dependsOn)
    BY <1>4, <1>8 DEF Closed
  <2>2. processedList \subseteq S
    BY <1>8, <2>1 DEF TreeInv
  <2>3. d \in S
    BY <1>2, <1>4, <1>8, <2>2 DEF Closed
  <2>4. QED
    BY <1>1, <2>2, <2>3
<1>9. QED
  BY <1>1, <1>5, <1>6, <1>7, <1>8 DEF TreeInv, Closed

(* When the host job is done so are all others: the jobs that are done are *)
(* closed under their dependencies.                                        *)
LEMMA HostIsLast ==
  ASSUME TypeOK, TreeInv, JobInv, parallel, phase[Host] = "done"
  PROVE  \A p \in processedList : phase[p] = "done"
<1> DEFINE S == {p \in Projects : phase[p] = "done"}
<1>1. Host \in Jobs /\ Projects \subseteq Jobs /\ Target \in Projects
  BY ProjectsAssumption DEF Jobs
<1>2. Target \in S
  BY <1>1 DEF TreeInv, JobInv
<1>3. \A q \in S : dependsOn[q] \subseteq S
  BY <1>1 DEF TreeInv, JobInv
<1>4. S \in SUBSET Projects
  OBVIOUS
<1> HIDE DEF S
<1>5. processedList \subseteq S
  BY <1>2, <1>3, <1>4 DEF TreeInv, Closed
<1>6. QED
  BY <1>5 DEF S

----------------------------------------------------------------------------
(* Steps that leave the walk and what it made as they are.                 *)

LEMMA WalkedStep ==
  ASSUME WalkInv, ListInv, TreeInv,
         UNCHANGED <<dependencies, parallel, stack, processedList, dependencyList, dependsOn>>
  PROVE  WalkInv' /\ ListInv' /\ TreeInv'
<1>1. WalkInv'
  BY DEF WalkInv, OnStack, Depth, Closed
<1>2. ListInv'
  <2>1. Places' = Places /\ (Acyclic' <=> Acyclic)
    BY DEF Places, Acyclic
  <2>2. \A p : (OnStack(p)' <=> OnStack(p)) /\ (Listed(p)' <=> Listed(p))
    BY DEF OnStack, Depth, Listed, Places
  <2>3. QED
    BY <2>1, <2>2 DEF ListInv
<1>3. TreeInv'
  BY DEF TreeInv, Closed
<1>4. QED
  BY <1>1, <1>2, <1>3

(* In the sequential build no job runs, and no project waits to be tested. *)
LEMMA JobsAreParallel ==
  ASSUME TypeOK, LoopInv, ~parallel
  PROVE  /\ \A p \in Projects : state[p] \notin {"starting", "skipped"}
         /\ \A j \in Jobs : ~FinishJob(j)
<1>1. ASSUME NEW p \in Projects, state[p] # "unbuilt"
      PROVE  state[p] \in {"building", "built", "failed"}
  <2>1. PICK i \in Places : dependencyList[i] = p
    BY <1>1 DEF LoopInv, Listed
  <2>2. state[dependencyList[i]] \in {"unbuilt", "building", "built", "failed"}
    <3>1. i < next => state[dependencyList[i]] = "built"
      BY DEF LoopInv
    <3>2. i = next => state[dependencyList[i]] \in {"unbuilt", "building", "failed"}
      BY DEF LoopInv
    <3>3. i > next => state[dependencyList[i]] = "unbuilt"
      BY DEF LoopInv
    <3>4. i < next \/ i = next \/ i > next
      BY DEF Places, TypeOK
    <3>5. QED
      BY <3>1, <3>2, <3>3, <3>4
  <2>3. QED
    BY <1>1, <2>1, <2>2
<1>2. \A j \in Jobs : ~FinishJob(j)
  BY DEF LoopInv, FinishJob, Scheduler!Finish
<1>3. QED
  BY <1>1, <1>2

----------------------------------------------------------------------------
(* The steps of the walk.                                                  *)

(* As long as the walk lasts nothing is built.                             *)
LEMMA NothingYet ==
  ASSUME IndInv, Walking, TypeOK', UNCHANGED <<parallel, next, phase, state, result>>
  PROVE  LoopInv'
<1> SUFFICES ASSUME ~parallel
             PROVE  LoopInv'
  BY DEF LoopInv
<1>1. /\ next' = 1 /\ result' = "none"
      /\ \A p \in Projects : state'[p] = "unbuilt"
      /\ \A j \in Jobs : phase'[j] = "idle"
  BY DEF IndInv, LoopInv
<1>2. \A i \in Places' : i \in Nat \ {0} /\ dependencyList'[i] \in Projects
  BY ElementOfSeq DEF TypeOK, Places
<1>3. QED
  BY <1>1, <1>2 DEF LoopInv

LEMMA SkipStep ==
  ASSUME IndInv, NEW d \in Projects, SkipProcessed(d)
  PROVE  IndInv'
<1>1. TypeOK'
  BY SkipFacts DEF IndInv, TypeOK, SkipProcessed, config, jobs, Frames
<1>2. Walking /\ UNCHANGED <<dependencies, parallel, processedList, dependencyList, next,
                            dependsOn, phase, returned, state, bFailed, result>>
  BY DEF SkipProcessed, config, jobs
<1>3. LoopInv'
  BY <1>1, <1>2, NothingYet
<1>4. JobInv'
  BY <1>2 DEF IndInv, JobInv, Started
<1>5. TreeInv'
  BY <1>2 DEF IndInv, TreeInv, Closed
<1>6. QED
  BY <1>1, <1>3, <1>4, <1>5, WalkSkip, ListSkip DEF IndInv

LEMMA VisitStep ==
  ASSUME IndInv, NEW d \in Projects, Visit(d)
  PROVE  IndInv'
<1>1. /\ Walking /\ stack[1].project \in Projects /\ d \in Jobs
      /\ UNCHANGED <<dependencies, parallel, dependencyList, next, phase, returned,
                     state, bFailed, result>>
      /\ processedList' = processedList \cup {d}
      /\ dependsOn' = IF parallel
           THEN [dependsOn EXCEPT ![stack[1].project] = @ \cup {d}] ELSE dependsOn
  BY VisitFacts, StackType DEF IndInv, Visit, config, jobs, Scheduler!Depend, Jobs
<1>2. TypeOK'
  <2>1. stack' \in Seq([project : Projects, todo : SUBSET Projects])
    BY VisitFacts DEF IndInv, Frames
  <2>2. dependsOn' \in [Jobs -> SUBSET Jobs]
    BY <1>1 DEF IndInv, TypeOK, Jobs
  <2>3. processedList' \subseteq Projects
    BY <1>1 DEF IndInv, TypeOK
  <2>4. QED
    BY <1>1, <2>1, <2>2, <2>3 DEF IndInv, TypeOK
<1>3. LoopInv'
  BY <1>1, <1>2, NothingYet
<1>4. JobInv'
  BY <1>1 DEF IndInv, TypeOK, JobInv, Started, Jobs
<1>5. QED
  BY <1>2, <1>3, <1>4, WalkVisit, ListVisit, TreeVisit DEF IndInv

LEMMA LeaveStep ==
  ASSUME IndInv, Leave
  PROVE  IndInv'
<1>1. /\ Walking /\ stack[1].project \in Projects
      /\ UNCHANGED <<dependencies, parallel, processedList, next, dependsOn, phase,
                     returned, state, bFailed, result>>
      /\ dependencyList' = IF parallel THEN dependencyList
                           ELSE Append(dependencyList, stack[1].project)
  BY LeaveFacts, StackType DEF IndInv, Leave, config, jobs
<1>2. TypeOK'
  <2>1. stack' \in Seq([project : Projects, todo : SUBSET Projects])
    BY LeaveFacts DEF IndInv, Frames
  <2>2. dependencyList' \in Seq(Projects) /\ Len(dependencyList') >= Len(dependencyList)
    BY <1>1 DEF IndInv, TypeOK
  <2>3. Len(dependencyList) \in Nat /\ Len(dependencyList') \in Nat
    BY <2>2 DEF IndInv, TypeOK
  <2>4. next' \in 1 .. Len(dependencyList') + 1
    BY <1>1, <2>2, <2>3 DEF IndInv, TypeOK
  <2>5. QED
    BY <1>1, <2>1, <2>2, <2>4 DEF IndInv, TypeOK
<1>3. LoopInv'
  BY <1>1, <1>2, NothingYet
<1>4. JobInv'
  BY <1>1 DEF IndInv, JobInv, Started
<1>5. TreeInv'
  BY <1>1 DEF IndInv, TreeInv, Closed
<1>6. QED
  BY <1>2, <1>3, <1>4, <1>5, WalkLeave, ListLeave DEF IndInv

----------------------------------------------------------------------------
(* The steps of the loop.                                                  *)

LEMMA LoopStep ==
  ASSUME IndInv, BuildNext \/ BuildSucceeds \/ BuildFails \/ LoopEnds
  PROVE  IndInv'
<1>1. /\ UNCHANGED <<dependencies, parallel, stack, processedList, dependencyList,
                     dependsOn, phase, returned, bFailed>>
      /\ ~Walking /\ ~parallel /\ result = "none"
  BY DEF BuildNext, BuildSucceeds, BuildFails, LoopEnds, config, jobs, Looping
<1>2. WalkInv' /\ ListInv' /\ TreeInv'
  BY <1>1, WalkedStep DEF IndInv
<1>3. JobInv'
  BY <1>1 DEF JobInv
<1>4. next \in Nat \ {0} /\ Len(dependencyList) \in Nat /\ Places' = Places
  BY <1>1 DEF IndInv, TypeOK, Places
<1>5. \A i \in Places : i \in Nat /\ dependencyList[i] \in Projects
  BY ElementOfSeq DEF IndInv, TypeOK, Places
<1>6. CASE LoopEnds
  <2>1. TypeOK' /\ LoopInv'
    BY <1>1, <1>4, <1>6 DEF IndInv, TypeOK, LoopInv, LoopEnds, Listed, Walking
  <2>2. QED
    BY <1>2, <1>3, <2>1 DEF IndInv
<1>7. CASE BuildNext \/ BuildSucceeds \/ BuildFails
  <2>1. PICK outcome \in {"building", "built", "failed"} :
          /\ state' = [state EXCEPT ![dependencyList[next]] = outcome]
          /\ next' = IF outcome = "built" THEN next + 1 ELSE next
          /\ result' \in {"none", "failed"}
          /\ next \in Places
    BY <1>1, <1>4, <1>7 DEF BuildNext, BuildSucceeds, BuildFails, Places
  <2>2. TypeOK'
    BY <1>1, <1>4, <1>5, <2>1 DEF IndInv, TypeOK, Places
  <2>3. \A i \in Places :
          state'[dependencyList[i]] = IF i = next THEN outcome ELSE state[dependencyList[i]]
    BY <1>5, <2>1 DEF IndInv, TypeOK, ListInv
  <2>4. \A i \in Places :
          /\ i < next' => state'[dependencyList[i]] = "built"
          /\ i = next' => state'[dependencyList[i]] \in {"unbuilt", "building", "failed"}
          /\ i > next' => state'[dependencyList[i]] = "unbuilt"
    <3> SUFFICES ASSUME NEW i \in Places
                 PROVE  /\ i < next' => state'[dependencyList[i]] = "built"
                        /\ i = next' => state'[dependencyList[i]] \in
                             {"unbuilt", "building", "failed"}
                        /\ i > next' => state'[dependencyList[i]] = "unbuilt"
      OBVIOUS
    <3>1. /\ i < next => state[dependencyList[i]] = "built"
          /\ i > next => state[dependencyList[i]] = "unbuilt"
      BY <1>1 DEF IndInv, LoopInv
    <3>2. QED
      BY <1>4, <1>5, <2>1, <2>3, <3>1
  <2>5. \A p \in Projects : state'[p] # "unbuilt" => Listed(p)
    BY <1>1, <1>5, <2>1 DEF IndInv, TypeOK, LoopInv, Listed
  <2>6. \A p : Listed(p)' <=> Listed(p)
    BY <1>1 DEF Listed, Places
  <2>7. LoopInv'
    BY <1>1, <1>4, <2>1, <2>4, <2>5, <2>6 DEF IndInv, LoopInv, Walking
  <2>8. QED
    BY <1>2, <1>3, <2>2, <2>7 DEF IndInv
<1>8. QED
  BY <1>6, <1>7

----------------------------------------------------------------------------
(* The steps of the jobs.                                                  *)

(* A step of a job touches neither the walk nor the loop.                  *)
LEMMA JobStepKeeps ==
  ASSUME IndInv, parallel,
         UNCHANGED <<dependencies, parallel, stack, processedList, dependencyList, next, dependsOn>>
  PROVE  WalkInv' /\ ListInv' /\ TreeInv' /\ LoopInv'
BY WalkedStep DEF IndInv, LoopInv

(* What the steps below need to know of the jobs.                          *)
LEMMA JobTypes ==
  ASSUME IndInv, parallel
  PROVE  /\ Host \in Jobs /\ Host \notin Projects /\ Projects \subseteq Jobs
         /\ Jobs = Projects \cup {Host} /\ Target \in Projects
         /\ phase \in [Jobs -> {"idle", "running", "done"}]
         /\ \A j \in Jobs : dependsOn[j] \subseteq Projects
         /\ state \in [Projects -> {"unbuilt", "starting", "building", "built",
                                    "failed", "skipped"}]
BY ProjectsAssumption DEF IndInv, TypeOK, TreeInv, Jobs

LEMMA StartStep ==
  ASSUME IndInv, NEW j \in Jobs, StartJob(j)
  PROVE  IndInv'
<1>1. /\ UNCHANGED <<dependencies, parallel, stack, processedList, dependencyList, next,
                     dependsOn, returned, bFailed, result>>
      /\ parallel /\ ~Walking /\ j \in processedList \cup {Host}
      /\ phase[j] = "idle" /\ \A d \in dependsOn[j] : phase[d] = "done"
      /\ phase' = [phase EXCEPT ![j] = "running"]
      /\ state' = [p \in Projects |-> IF p = j THEN "starting" ELSE state[p]]
  BY DEF StartJob, Running, Scheduler!Start, config
<1>2. TypeOK'
  BY <1>1, JobTypes DEF IndInv, TypeOK
<1>3. JobInv'
  <2>1. \A k \in Jobs : phase'[k] # "idle" => \A d \in dependsOn[k] : phase'[d] = "done"
    BY <1>1, JobTypes DEF IndInv, JobInv
  <2>2. \A p \in Projects :
          /\ phase'[p] = "idle" <=> state'[p] = "unbuilt"
          /\ phase'[p] # "idle" => p \in processedList
          /\ phase'[p] = "done" => state'[p] \in {"built", "failed", "skipped"}
          /\ state'[p] \in {"failed", "skipped"} => bFailed
    BY <1>1, JobTypes DEF IndInv, JobInv
  <2>3. ASSUME NEW p \in Projects, Started(p)'
        PROVE  \A d \in dependsOn[p] : state'[d] = "built"
    <3>1. p # j /\ Started(p)
      BY <1>1, <2>3 DEF Started
    <3>2. \A d \in dependsOn[p] : state[d] = "built" /\ d # j
      BY <1>1, <3>1, JobTypes DEF IndInv, JobInv
    <3>3. QED
      BY <1>1, <3>2, JobTypes
  <2>4. returned => phase'[Host] = "done"
    BY <1>1, JobTypes DEF IndInv, JobInv
  <2>5. QED
    BY <1>1, <2>1, <2>2, <2>3, <2>4 DEF IndInv, JobInv, Walking
<1>4. QED
  BY <1>1, <1>2, <1>3, JobStepKeeps DEF IndInv

LEMMA TestStep ==
  ASSUME IndInv, NEW p \in Projects, TestFailed(p)
  PROVE  IndInv'
<1>1. /\ UNCHANGED <<dependencies, parallel, stack, processedList, dependencyList, next,
                     dependsOn, phase, returned, bFailed, result>>
      /\ state[p] = "starting"
      /\ state' = [state EXCEPT ![p] = IF bFailed THEN "skipped" ELSE "building"]
  BY DEF TestFailed, config, jobs
<1>2. parallel
  BY <1>1, JobsAreParallel DEF IndInv, TypeOK
<1>3. TypeOK'
  BY <1>1, <1>2, JobTypes DEF IndInv, TypeOK
<1>4. JobInv'
  <2>1. phase[p] = "running"
    BY <1>1, <1>2, JobTypes DEF IndInv, JobInv
  <2>2. \A q \in Projects :
          /\ phase[q] = "idle" <=> state'[q] = "unbuilt"
          /\ phase[q] # "idle" => q \in processedList
          /\ phase[q] = "done" => state'[q] \in {"built", "failed", "skipped"}
          /\ state'[q] \in {"failed", "skipped"} => bFailed
    BY <1>1, <1>2, <2>1, JobTypes DEF IndInv, JobInv
  <2>3. ASSUME NEW q \in Projects, Started(q)'
        PROVE  \A d \in dependsOn[q] : state'[d] = "built"
    <3>1. CASE q = p
      <4>1. ~bFailed
        BY <1>1, <1>2, <2>3, <3>1, JobTypes DEF Started
      <4>2. \A d \in dependsOn[p] : d \in Projects /\ phase[d] = "done"
        BY <1>2, <2>1, JobTypes DEF IndInv, JobInv
      <4>3. \A d \in dependsOn[p] : state[d] = "built" /\ d # p
        BY <1>2, <2>1, <4>1, <4>2 DEF IndInv, JobInv
      <4>4. QED
        BY <1>1, <1>2, <3>1, <4>2, <4>3, JobTypes
    <3>2. CASE q # p
      <4>1. Started(q)
        BY <1>1, <1>2, <2>3, <3>2, JobTypes DEF Started
      <4>2. \A d \in dependsOn[q] : state[d] = "built" /\ d # p /\ d \in Projects
        BY <1>1, <1>2, <4>1, JobTypes DEF IndInv, JobInv
      <4>3. QED
        BY <1>1, <1>2, <4>2, JobTypes
    <3>3. QED
      BY <3>1, <3>2
  <2>4. QED
    BY <1>1, <1>2, <2>2, <2>3 DEF IndInv, JobInv, Walking
<1>5. QED
  BY <1>1, <1>2, <1>3, <1>4, JobStepKeeps DEF IndInv

(* A job that ends has not been waited for: the flag it sets is seen.      *)
LEMMA EndStep ==
  ASSUME IndInv, NEW p \in Projects, JobSucceeds(p) \/ JobFails(p)
  PROVE  IndInv'
<1>1. /\ UNCHANGED <<dependencies, parallel, stack, processedList, dependencyList, next,
                     dependsOn, phase, returned, result>>
      /\ parallel /\ ~Walking /\ state[p] = "building"
  BY DEF JobSucceeds, JobFails, Running, config, jobs
<1>2. PICK outcome \in {"built", "failed"} :
        /\ state' = [state EXCEPT ![p] = outcome]
        /\ bFailed' \in BOOLEAN /\ (bFailed => bFailed') /\ (outcome = "failed" => bFailed')
        /\ outcome = "built" => (bFailed' <=> bFailed)
  <2>1. CASE JobSucceeds(p)
    <3>1. "built" \in {"built", "failed"} /\ bFailed \in BOOLEAN
      BY DEF IndInv, TypeOK
    <3>2. state' = [state EXCEPT ![p] = "built"] /\ bFailed' = bFailed
      BY <2>1 DEF JobSucceeds
    <3>3. QED
      BY <3>1, <3>2
  <2>2. CASE JobFails(p)
    <3>1. state' = [state EXCEPT ![p] = "failed"] /\ bFailed' = TRUE
      BY <2>2 DEF JobFails
    <3>2. QED
      BY <3>1
  <2>3. QED
    BY <2>1, <2>2
<1>3. TypeOK'
  BY <1>1, <1>2, JobTypes DEF IndInv, TypeOK
<1>4. p \in processedList /\ phase[p] = "running"
  BY <1>1, JobTypes DEF IndInv, JobInv
<1>5. ~returned /\ result # "succeeded"
  BY <1>1, <1>4, HostIsLast DEF IndInv, JobInv
<1>6. JobInv'
  <2>1. \A q \in Projects :
          /\ phase[q] = "idle" <=> state'[q] = "unbuilt"
          /\ phase[q] # "idle" => q \in processedList
          /\ phase[q] = "done" => state'[q] \in {"built", "failed", "skipped"}
          /\ state'[q] \in {"failed", "skipped"} => bFailed'
    BY <1>1, <1>2, <1>4, JobTypes DEF IndInv, JobInv
  <2>2. ASSUME NEW q \in Projects, Started(q)'
        PROVE  \A d \in dependsOn[q] : state'[d] = "built"
    <3>1. Started(q)
      BY <1>1, <1>2, <2>2, JobTypes DEF Started
    <3>2. \A d \in dependsOn[q] : state[d] = "built" /\ d # p /\ d \in Projects
      BY <1>1, <3>1, JobTypes DEF IndInv, JobInv
    <3>3. QED
      BY <1>2, <3>2, JobTypes, <1>1
  <2>3. QED
    BY <1>1, <1>5, <2>1, <2>2 DEF IndInv, JobInv, Walking
<1>7. QED
  BY <1>1, <1>3, <1>6, JobStepKeeps DEF IndInv

LEMMA FinishStep ==
  ASSUME IndInv, NEW j \in Jobs, FinishJob(j)
  PROVE  IndInv'
<1>1. /\ UNCHANGED <<dependencies, parallel, stack, processedList, dependencyList, next,
                     dependsOn, returned, state, bFailed, result>>
      /\ phase[j] = "running" /\ phase' = [phase EXCEPT ![j] = "done"]
      /\ j \in Projects => state[j] \in {"built", "failed", "skipped"}
  BY DEF FinishJob, Scheduler!Finish, config
<1>2. parallel
  BY JobsAreParallel DEF IndInv, TypeOK
<1>3. TypeOK'
  BY <1>1, <1>2, JobTypes DEF IndInv, TypeOK
<1>4. JobInv'
  <2>1. \A k \in Jobs : phase'[k] # "idle" => phase[k] # "idle"
    BY <1>1, <1>2, JobTypes
  <2>2. \A k \in Jobs : phase[k] = "done" => phase'[k] = "done"
    BY <1>1, <1>2, JobTypes
  <2>3. \A k \in Jobs : phase'[k] # "idle" => \A d \in dependsOn[k] : phase'[d] = "done"
    BY <1>2, <2>1, <2>2, JobTypes DEF IndInv, JobInv
  <2>4. \A q \in Projects :
          /\ phase'[q] = "idle" <=> state[q] = "unbuilt"
          /\ phase'[q] # "idle" => q \in processedList
          /\ phase'[q] = "done" => state[q] \in {"built", "failed", "skipped"}
    BY <1>1, <1>2, JobTypes DEF IndInv, JobInv
  <2>5. Walking => \A k \in Jobs : phase'[k] = "idle"
    BY <1>1, <1>2 DEF IndInv, JobInv
  <2>6. returned => phase'[Host] = "done"
    BY <1>2, <2>2, JobTypes DEF IndInv, JobInv
  <2>7. QED
    BY <1>1, <1>2, <2>3, <2>4, <2>5, <2>6 DEF IndInv, JobInv, Walking, Started
<1>5. QED
  BY <1>1, <1>2, <1>3, <1>4, JobStepKeeps DEF IndInv

LEMMA WaitStep ==
  ASSUME IndInv, WaitReturns
  PROVE  IndInv'
<1>1. /\ UNCHANGED <<dependencies, parallel, stack, processedList, dependencyList, next,
                     dependsOn, phase, state, bFailed>>
      /\ parallel /\ phase[Host] = "done" /\ returned'
      /\ result' = IF bFailed THEN "failed" ELSE "succeeded"
  BY DEF WaitReturns, Running, Scheduler!Return, config
<1>2. returned' \in BOOLEAN
  BY DEF WaitReturns, Scheduler!Return
<1>3. TypeOK'
  BY <1>1, <1>2 DEF IndInv, TypeOK
<1>4. JobInv'
  BY <1>1 DEF IndInv, JobInv, Walking, Started
<1>5. QED
  BY <1>1, <1>3, <1>4, JobStepKeeps DEF IndInv

----------------------------------------------------------------------------
LEMMA InitIndInv == Init => IndInv
<1> SUFFICES ASSUME Init
             PROVE  IndInv
  OBVIOUS
<1> USE ProjectsAssumption, GraphsAssumption, ModesAssumption
<1>1. dependencies \in [Projects -> SUBSET Projects] /\ parallel \in BOOLEAN
  BY DEF Init
<1>2. Frame(Target) \in Frames
  BY <1>1 DEF Frame, Frames
<1>3. stack \in Seq(Frames) /\ Depth = {1} /\ stack[1] = Frame(Target) /\ Walking
  BY <1>2 DEF Init, Depth, Walking
<1>4. dependencyList = << >> /\ Places = {} /\ dependencyList \in Seq(Projects)
  BY DEF Init, Places
<1>5. dependsOn \in [Jobs -> SUBSET Jobs]
  BY DEF Init, Jobs
<1>6. TypeOK
  <2>1. next \in 1 .. Len(dependencyList) + 1
    BY <1>4 DEF Init
  <2>2. phase \in [Jobs -> {"idle", "running", "done"}] /\ processedList \subseteq Projects
    BY DEF Init
  <2>3. QED
    BY <1>1, <1>3, <1>4, <1>5, <2>1, <2>2 DEF Init, TypeOK, Frames
<1>7. stack[1].project = Target /\ stack[1].todo = dependencies[Target] /\ OnStack(Target)
  BY <1>3 DEF Frame, OnStack
<1>8. WalkInv
  BY <1>3, <1>7 DEF Init, WalkInv
<1>9. ListInv
  BY <1>4, <1>7 DEF Init, ListInv
<1>10. LoopInv
  BY <1>4 DEF Init, LoopInv
<1>11. TreeInv
  BY DEF Init, TreeInv, Jobs
<1>12. JobInv
  BY DEF Init, JobInv, Jobs, Started
<1>13. QED
  BY <1>6, <1>8, <1>9, <1>10, <1>11, <1>12 DEF IndInv

LEMMA StutterStep == ASSUME IndInv, UNCHANGED vars PROVE IndInv'
<1>1. UNCHANGED <<dependencies, parallel, stack, processedList, dependencyList, next,
                  dependsOn, phase, returned, state, bFailed, result>>
  BY DEF vars
<1>2. WalkInv' /\ ListInv' /\ TreeInv'
  BY <1>1, WalkedStep DEF IndInv
<1>3. TypeOK' /\ JobInv'
  BY <1>1 DEF IndInv, TypeOK, JobInv, Walking, Started
<1>4. LoopInv'
  BY <1>1 DEF IndInv, LoopInv, Walking, Places, Listed
<1>5. QED
  BY <1>2, <1>3, <1>4 DEF IndInv

LEMMA NextIndInv == ASSUME IndInv, [Next]_vars PROVE IndInv'
<1>1. CASE \E d \in Projects : SkipProcessed(d) \/ Visit(d)
  BY <1>1, SkipStep, VisitStep
<1>2. CASE Leave
  BY <1>2, LeaveStep
<1>3. CASE BuildNext \/ BuildSucceeds \/ BuildFails \/ LoopEnds
  BY <1>3, LoopStep
<1>4. CASE \E j \in Jobs : StartJob(j) \/ FinishJob(j)
  BY <1>4, StartStep, FinishStep
<1>5. CASE \E p \in Projects : TestFailed(p) \/ JobSucceeds(p) \/ JobFails(p)
  BY <1>5, TestStep, EndStep
<1>6. CASE WaitReturns
  BY <1>6, WaitStep
<1>7. CASE Terminated \/ UNCHANGED vars
  BY <1>7, StutterStep DEF Terminated
<1>8. QED
  BY <1>1, <1>2, <1>3, <1>4, <1>5, <1>6, <1>7 DEF Next

LEMMA SpecIndInv == Spec => []IndInv
BY InitIndInv, NextIndInv, PTL DEF Spec

----------------------------------------------------------------------------
(* Every variable keeps its type.                                          *)
THEOREM TypeCorrect == Spec => []TypeOK
<1>1. IndInv => TypeOK
  BY DEF IndInv
<1>2. QED
  BY <1>1, SpecIndInv, PTL

(* What has been walked when the walk is over is closed, and so it is what *)
(* the target needs, on any graph.                                         *)
LEMMA WalkedIsClosed ==
  ASSUME TypeOK, WalkInv, ~Walking
  PROVE  Closed(processedList, dependencies)
<1>1. Depth = {}
  BY StackType DEF Depth
<1>2. QED
  BY <1>1 DEF WalkInv, OnStack, Closed

LEMMA WalkedIsNeeded ==
  ASSUME TypeOK, WalkInv, ~Walking
  PROVE  processedList = Needed
<1>1. processedList \in SUBSET Projects /\ Target \in processedList
  BY DEF TypeOK, WalkInv
<1>2. Needed \subseteq processedList
  BY <1>1, WalkedIsClosed DEF Needed, Closed
<1>3. processedList \subseteq Needed
  BY <1>1 DEF WalkInv, Needed, Closed
<1>4. QED
  BY <1>2, <1>3

(* Build succeeds only if it built the projects that the target needs, and *)
(* no others: in either mode, on any graph, even a cyclic one.             *)
THEOREM SuccessIsComplete == Spec => []SuccessMeansAllBuilt
<1>1. ASSUME IndInv, result = "succeeded"
      PROVE  {p \in Projects : state[p] = "built"} = Needed
  <2>1. CASE parallel
    <3>1. /\ phase[Host] = "done" /\ ~bFailed
          /\ \A p \in Projects : phase[p] \in {"idle", "running", "done"}
      BY <1>1, <2>1, JobTypes DEF IndInv, JobInv
    <3>2. ~Walking
      BY <2>1, <3>1, JobTypes, <1>1 DEF IndInv, JobInv
    <3>3. \A p \in processedList : phase[p] = "done"
      BY <1>1, <2>1, <3>1, HostIsLast DEF IndInv
    <3>4. \A p \in processedList : p \in Projects /\ state[p] = "built"
      BY <1>1, <2>1, <3>1, <3>3 DEF IndInv, TypeOK, JobInv
    <3>5. \A p \in Projects : state[p] = "built" => p \in processedList
      BY <1>1, <2>1 DEF IndInv, JobInv
    <3>6. QED
      BY <1>1, <3>2, <3>4, <3>5, WalkedIsNeeded DEF IndInv
  <2>2. CASE ~parallel
    <3>1. ~Walking /\ next > Len(dependencyList)
      BY <1>1, <2>2 DEF IndInv, LoopInv
    <3>2. Depth = {}
      BY <1>1, <3>1, StackType DEF IndInv, Depth
    <3>3. \A i \in Places : i < next
      BY <1>1, <3>1 DEF IndInv, TypeOK, Places
    <3>4. \A i \in Places : state[dependencyList[i]] = "built"
      BY <1>1, <2>2, <3>3 DEF IndInv, LoopInv
    <3>5. \A p \in processedList : p \in Projects /\ Listed(p)
      BY <1>1, <2>2, <3>2 DEF IndInv, TypeOK, ListInv, OnStack
    <3>6. \A p \in processedList : p \in Projects /\ state[p] = "built"
      BY <3>4, <3>5 DEF Listed
    <3>7. \A p \in Projects : state[p] = "built" => p \in processedList
      BY <1>1, <2>2 DEF IndInv, LoopInv, ListInv, Listed
    <3>8. QED
      BY <1>1, <3>1, <3>6, <3>7, WalkedIsNeeded DEF IndInv
  <2>3. QED
    BY <2>1, <2>2
<1>2. IndInv => SuccessMeansAllBuilt
  BY <1>1 DEF SuccessMeansAllBuilt
<1>3. QED
  BY <1>2, SpecIndInv, PTL

(* In the sequential build a project of an acyclic graph is built after    *)
(* all its dependencies.                                                   *)
THEOREM SequentialIsOrdered == Spec => []SequentialOrder
<1>1. ASSUME IndInv, ~parallel, Acyclic,
             NEW p \in Projects, Started(p), NEW d \in dependencies[p]
      PROVE  state[d] = "built"
  <2>1. PICK i \in Places : dependencyList[i] = p
    BY <1>1 DEF IndInv, LoopInv, Started, Listed
  <2>2. PICK k \in Places : k < i /\ dependencyList[k] = d
    BY <1>1, <2>1 DEF IndInv, ListInv
  <2>3. i <= next
    <3>1. i > next => state[p] = "unbuilt"
      BY <1>1, <2>1 DEF IndInv, LoopInv
    <3>2. QED
      BY <1>1, <3>1 DEF IndInv, TypeOK, Places, Started
  <2>4. k < next
    BY <1>1, <2>2, <2>3 DEF IndInv, TypeOK, Places
  <2>5. QED
    BY <1>1, <2>2, <2>4 DEF IndInv, LoopInv
<1>2. IndInv => SequentialOrder
  BY <1>1 DEF SequentialOrder, DependenciesBuiltFirst
<1>3. QED
  BY <1>2, SpecIndInv, PTL

(* No project that the target of an acyclic graph needs depends on the     *)
(* target.  Those from which the target can be reached would form a cycle. *)
LEMMA NothingNeedsTarget ==
  ASSUME TypeOK, WalkInv, ~Walking, Acyclic, NEW p \in processedList
  PROVE  Target \notin dependencies[p]
<1> SUFFICES ASSUME Target \in dependencies[p]
             PROVE  FALSE
  OBVIOUS
<1>1. /\ processedList \subseteq Projects /\ Target \in processedList
      /\ \A q \in Projects : dependencies[q] \subseteq Projects
      /\ \A q \in processedList : dependencies[q] \subseteq processedList
  BY WalkedIsClosed DEF TypeOK, WalkInv, Closed
<1> DEFINE Avoiding == {T \in SUBSET Projects : Closed(T, dependencies) /\ Target \notin T}
           A == UNION Avoiding
           S == processedList \ A
<1>2. A \subseteq Projects /\ Target \notin A
  OBVIOUS
<1>3. \A q \in A : dependencies[q] \subseteq A
  BY DEF Closed
<1>4. ASSUME NEW T \in SUBSET Projects, Closed(T, dependencies), Target \notin T
      PROVE  T \subseteq A
  BY <1>4
<1> HIDE DEF A
<1>5. Target \in S
  BY <1>1, <1>2
<1>6. ASSUME NEW q \in S
      PROVE  dependencies[q] \cap S # {}
  <2> SUFFICES ASSUME dependencies[q] \cap S = {}
               PROVE  FALSE
    OBVIOUS
  <2>1. dependencies[q] \subseteq A
    BY <1>1
  <2>2. A \cup {q} \in SUBSET Projects /\ Closed(A \cup {q}, dependencies)
    BY <1>1, <1>2, <1>3, <2>1 DEF Closed
  <2>3. q = Target
    BY <1>2, <1>4, <2>2
  <2>4. processedList \subseteq A \cup {Target}
    BY <2>2, <2>3 DEF WalkInv
  <2>5. Target \in A
    BY <1>3, <2>1, <2>3, <2>4
  <2>6. QED
    BY <1>2, <2>5
<1>7. S \subseteq Projects
  BY <1>1
<1> HIDE DEF S
<1>8. QED
  BY <1>5, <1>6, <1>7 DEF Acyclic

(* In the parallel build a project starts after each dependency that no    *)
(* other project names.                                                    *)
THEOREM ParallelIsOrdered == Spec => []ParallelOrderUnlessShared
<1>1. ASSUME IndInv, parallel, Acyclic,
             NEW p \in Projects, Started(p), NEW d \in dependencies[p],
             \A q \in Projects : d \in dependencies[q] => q = p
      PROVE  state[d] = "built"
  <2>1. phase[p] # "idle" /\ p \in processedList
    BY <1>1 DEF IndInv, JobInv, Started
  <2>2. ~Walking
    BY <1>1, <2>1, JobTypes DEF IndInv, JobInv
  <2>3. d \in processedList
    BY <1>1, <2>1, <2>2, WalkedIsClosed DEF IndInv, Closed
  <2>4. d # Target
    BY <1>1, <2>1, <2>2, NothingNeedsTarget DEF IndInv
  <2>5. PICK q \in Projects : d \in dependsOn[q]
    BY <1>1, <2>3, <2>4 DEF IndInv, TreeInv
  <2>6. q = p
    BY <1>1, <2>5 DEF IndInv, TreeInv
  <2>7. QED
    BY <1>1, <2>5, <2>6 DEF IndInv, JobInv
<1>2. IndInv => ParallelOrderUnlessShared
  BY <1>1 DEF ParallelOrderUnlessShared
<1>3. QED
  BY <1>2, SpecIndInv, PTL

----------------------------------------------------------------------------
(***************************************************************************)
(* A parallel build of projects that depend on each other in a circle.     *)
(***************************************************************************)

(* A project that the walk has not come to has no job, and so neither      *)
(* dependencies nor a place below another job.                             *)
UnwalkedInv ==
  /\ \A q \in Projects \ processedList : dependsOn[q] = {}
  /\ \A j \in Jobs : dependsOn[j] \subseteq processedList

(* Each job hangs below one other, and no job waits for itself: no set of  *)
(* jobs is closed under "has a dependency in the set".                     *)
JobsFormATree ==
  /\ \A j, k \in Jobs : dependsOn[j] \cap dependsOn[k] # {} => j = k
  /\ \A S \in SUBSET Jobs : S # {} => \E j \in S : dependsOn[j] \cap S = {}

LEMMA TreeStays ==
  ASSUME IndInv, UnwalkedInv, JobsFormATree, [Next]_vars
  PROVE  UnwalkedInv' /\ JobsFormATree'
<1>1. CASE UNCHANGED <<dependsOn, processedList>>
  BY <1>1 DEF UnwalkedInv, JobsFormATree
<1>2. ASSUME NEW d \in Projects, Visit(d), parallel
      PROVE  UnwalkedInv' /\ JobsFormATree'
  <2> DEFINE p == stack[1].project
  <2>1. /\ processedList' = processedList \cup {d} /\ d \notin processedList
        /\ dependsOn' = [dependsOn EXCEPT ![p] = @ \cup {d}]
    BY <1>2 DEF Visit, Scheduler!Depend
  <2>2. p \in processedList /\ p \in Projects
    BY <1>2, StackType, VisitFacts DEF IndInv, WalkInv
  <2>3. dependsOn \in [Jobs -> SUBSET Jobs] /\ Projects \subseteq Jobs
    BY DEF IndInv, TypeOK, Jobs
  <2> HIDE DEF p
  <2>4. /\ dependsOn'[p] = dependsOn[p] \cup {d}
        /\ \A j \in Jobs : j # p => dependsOn'[j] = dependsOn[j]
    BY <2>1, <2>2, <2>3
  <2>5. dependsOn[d] = {} /\ \A j \in Jobs : d \notin dependsOn[j]
    BY <2>1 DEF UnwalkedInv
  <2>6. UnwalkedInv'
    BY <2>1, <2>2, <2>3, <2>4 DEF UnwalkedInv
  <2>7. ASSUME NEW j \in Jobs, NEW k \in Jobs, dependsOn'[j] \cap dependsOn'[k] # {}
        PROVE  j = k
    BY <2>4, <2>5, <2>7 DEF JobsFormATree
  <2>8. ASSUME NEW S \in SUBSET Jobs, S # {}
        PROVE  \E j \in S : dependsOn'[j] \cap S = {}
    <3>1. CASE d \in S
      <4>1. dependsOn'[d] = {}
        BY <2>1, <2>2, <2>3, <2>4, <2>5
      <4>2. QED
        BY <3>1, <4>1
    <3>2. CASE d \notin S
      <4>1. PICK j \in S : dependsOn[j] \cap S = {}
        BY <2>8 DEF JobsFormATree
      <4>2. dependsOn'[j] \cap S = {}
        BY <2>4, <3>2, <4>1
      <4>3. QED
        BY <4>2
    <3>3. QED
      BY <3>1, <3>2
  <2>9. JobsFormATree'
    BY <2>7, <2>8 DEF JobsFormATree
  <2>10. QED
    BY <2>6, <2>9
<1>3. ASSUME NEW d \in Projects, Visit(d), ~parallel
      PROVE  UnwalkedInv' /\ JobsFormATree'
  BY <1>3 DEF Visit, UnwalkedInv, JobsFormATree, jobs
<1>4. ASSUME NEW d \in Projects, SkipProcessed(d) PROVE UNCHANGED <<dependsOn, processedList>>
  BY <1>4 DEF SkipProcessed, jobs
<1>5. ASSUME NEW j \in Jobs, StartJob(j) \/ FinishJob(j)
      PROVE  UNCHANGED <<dependsOn, processedList>>
  BY <1>5 DEF StartJob, FinishJob, Scheduler!Start, Scheduler!Finish
<1>6. ASSUME NEW p \in Projects, TestFailed(p) \/ JobSucceeds(p) \/ JobFails(p)
      PROVE  UNCHANGED <<dependsOn, processedList>>
  BY <1>6 DEF TestFailed, JobSucceeds, JobFails, jobs
<1>7. CASE Leave \/ BuildNext \/ BuildSucceeds \/ BuildFails \/ LoopEnds \/ WaitReturns
  <2>1. UNCHANGED <<dependsOn, processedList>>
    BY <1>7 DEF Leave, BuildNext, BuildSucceeds, BuildFails, LoopEnds, WaitReturns,
                Scheduler!Return, jobs
  <2>2. QED
    BY <1>1, <2>1
<1>8. CASE UNCHANGED vars
  BY <1>1, <1>8 DEF vars
<1>9. QED
  BY <1>1, <1>2, <1>3, <1>4, <1>5, <1>6, <1>7, <1>8 DEF Next, Terminated

LEMMA InitTree == Init => UnwalkedInv /\ JobsFormATree
<1> SUFFICES ASSUME Init PROVE UnwalkedInv /\ JobsFormATree
  OBVIOUS
<1>1. /\ Target \in Projects /\ Host \notin Projects /\ processedList = {Target}
      /\ Host \in Jobs /\ Projects \subseteq Jobs
  BY ProjectsAssumption DEF Init, Jobs
<1>2. \A j \in Jobs : dependsOn[j] \subseteq {Target} /\ (j # Host => dependsOn[j] = {})
  BY DEF Init
<1>3. UnwalkedInv
  BY <1>1, <1>2 DEF UnwalkedInv
<1>4. ASSUME NEW S \in SUBSET Jobs, S # {} PROVE \E j \in S : dependsOn[j] \cap S = {}
  <2>1. CASE Target \in S
    BY <1>1, <1>2, <2>1
  <2>2. CASE Target \notin S
    <3>1. PICK j \in S : j \in Jobs
      BY <1>4
    <3>2. dependsOn[j] \cap S = {}
      BY <1>2, <2>2, <3>1
    <3>3. QED
      BY <3>2
  <2>3. QED
    BY <2>1, <2>2
<1>5. QED
  BY <1>2, <1>3, <1>4 DEF JobsFormATree

LEMMA SpecTree == Spec => [](UnwalkedInv /\ JobsFormATree)
<1>1. IndInv /\ UnwalkedInv /\ JobsFormATree /\ [Next]_vars => (UnwalkedInv /\ JobsFormATree)'
  BY TreeStays
<1>2. QED
  BY <1>1, InitTree, SpecIndInv, PTL DEF Spec

(* The jobs of a parallel build form a tree, whatever the dependencies of  *)
(* the projects, even if they go round in a circle: the scheduler is never *)
(* given a graph in which a job waits for itself (Builder.cpp,             *)
(* BuildDependencyTree).                                                   *)
THEOREM JobsAlwaysFormATree == Spec => []JobsFormATree
BY SpecTree, PTL

(* And so a parallel build never gets stuck: until the host job is done    *)
(* some job runs, or may start.                                            *)
SomeJobCanGoOn ==
  parallel /\ ~Walking /\ phase[Host] # "done" =>
    \E j \in processedList \cup {Host} :
      \/ phase[j] = "running"
      \/ phase[j] = "idle" /\ \A d \in dependsOn[j] : phase[d] = "done"

THEOREM ParallelBuildNeverGetsStuck == Spec => []SomeJobCanGoOn
<1>1. IndInv /\ UnwalkedInv /\ JobsFormATree => SomeJobCanGoOn
  <2> SUFFICES ASSUME IndInv, UnwalkedInv, JobsFormATree, phase[Host] # "done",
                      \A j \in processedList \cup {Host} : phase[j] # "running"
               PROVE  \E j \in processedList \cup {Host} :
                        phase[j] = "idle" /\ \A d \in dependsOn[j] : phase[d] = "done"
    BY DEF SomeJobCanGoOn
  <2> DEFINE Left == {j \in processedList \cup {Host} : phase[j] # "done"}
  <2>1. Left \in SUBSET Jobs /\ Left # {}
    <3>1. processedList \cup {Host} \subseteq Jobs
      BY DEF IndInv, TypeOK, Jobs
    <3>2. Host \in Left
      OBVIOUS
    <3>3. QED
      BY <3>1, <3>2
  <2>2. PICK j \in Left : dependsOn[j] \cap Left = {}
    BY <2>1 DEF JobsFormATree
  <2>3. j \in Jobs /\ dependsOn[j] \subseteq processedList
    BY <2>1, <2>2 DEF UnwalkedInv
  <2>4. phase[j] = "idle"
    BY <2>2, <2>3 DEF IndInv, TypeOK
  <2>5. \A d \in dependsOn[j] : phase[d] = "done"
    BY <2>2, <2>3
  <2>6. QED
    BY <2>2, <2>4, <2>5
<1>2. QED
  BY <1>1, SpecTree, SpecIndInv, PTL
============================================================================
