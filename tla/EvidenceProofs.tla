--------------------------- MODULE EvidenceProofs ---------------------------
(***************************************************************************)
(* Proofs about what the evidence package puts together and reads: the     *)
(* walk over a bundle's records, for every finite or infinite graph        *)
(* without links from a record to itself; the records and bundles the      *)
(* helpers build, or others by hand; and the replay of a lock-protocol     *)
(* transcript, for any number of parties and entries and any deadlines in  *)
(* order.                                                                  *)
(***************************************************************************)
EXTENDS GraphWalk, EvidenceGraph, LockTranscript, FiniteSetTheorems, TLAPS

----------------------------------------------------------------------------
(* GraphWalk: the inductive invariant.                                     *)

\* Nothing of a record's parents is lost before it is visited, and roots are not
\* forgotten.
Accounted ==
    /\ \A n \in Nodes : n \notin parents[n] /\ todo[n] \subseteq parents[n]
    /\ \A n \in Nodes : n \notin visited /\ n \notin visiting => todo[n] = parents[n]
    /\ \A n \in ExpectedRoots : n \in roots \/ n \in visited \/ n \in visiting
    /\ outcome = "accepted" => visited = Nodes

\* No ring among the records visited: each set of them has one that is no parent
\* of the others.
VisitedIsAcyclic ==
    \A s \in SUBSET visited : s # {} => \E n \in s : \A m \in s : n \notin parents[m]

WalkIInv ==
    /\ TypeOK /\ StackIsPath /\ VisitedIsComplete
    /\ Accounted /\ VisitedIsAcyclic /\ RefusedIsCyclic

----------------------------------------------------------------------------
(* The stack.                                                              *)

LEMMA PushProps ==
    ASSUME NEW s \in Seq(Nodes), NEW n \in Nodes
    PROVE  /\ Append(s, n) \in Seq(Nodes)
           /\ Len(Append(s, n)) = Len(s) + 1
           /\ \A i \in 1 .. Len(s) : Append(s, n)[i] = s[i]
           /\ Append(s, n)[Len(s) + 1] = n
OBVIOUS

LEMMA PopProps ==
    ASSUME NEW s \in Seq(Nodes), s # <<>>
    PROVE  /\ Len(s) \in Nat /\ Len(s) >= 1 /\ s[Len(s)] \in Nodes
           /\ SubSeq(s, 1, Len(s) - 1) \in Seq(Nodes)
           /\ Len(SubSeq(s, 1, Len(s) - 1)) = Len(s) - 1
           /\ \A i \in 1 .. Len(s) - 1 : SubSeq(s, 1, Len(s) - 1)[i] = s[i]
OBVIOUS

\* A new call on the stack is one more record in progress, the last.
LEMMA PushedStack ==
    ASSUME stack \in Seq(Nodes), NEW n \in Nodes, n \notin InStack, stack' = Append(stack, n)
    PROVE  /\ InStack' = InStack \union {n}
           /\ Len(stack') = Len(stack) + 1 /\ Len(stack) \in Nat
           /\ \A i \in 1 .. Len(stack) : stack'[i] = stack[i] /\ stack[i] # n
           /\ stack'[Len(stack')] = n
<1>1. /\ Len(stack') = Len(stack) + 1 /\ Len(stack) \in Nat
      /\ \A i \in 1 .. Len(stack) : stack'[i] = stack[i]
      /\ stack'[Len(stack')] = n
  BY PushProps
<1>2. InStack' = {stack'[i] : i \in 1 .. Len(stack) + 1}
  BY <1>1 DEF InStack
<1>3. \A i \in 1 .. Len(stack) : stack[i] # n
  BY DEF InStack
<1>4. ASSUME NEW x PROVE x \in InStack' <=> x \in InStack \union {n}
  <2>1. x \in InStack' <=> \E i \in 1 .. Len(stack) + 1 : x = stack'[i]
    BY <1>2
  <2>2. x \in InStack <=> \E i \in 1 .. Len(stack) : x = stack[i]
    BY DEF InStack
  <2>3. \A i \in 1 .. Len(stack) + 1 : i \in 1 .. Len(stack) \/ i = Len(stack) + 1
    BY <1>1
  <2>4. Len(stack) + 1 \in 1 .. Len(stack) + 1 /\ 1 .. Len(stack) \subseteq 1 .. Len(stack) + 1
    BY <1>1
  <2> QED
    BY <1>1, <2>1, <2>2, <2>3, <2>4
<1> QED
  BY <1>1, <1>3, <1>4

\* A call that returns takes its record, the last, off the stack.
LEMMA PoppedStack ==
    ASSUME stack \in Seq(Nodes), stack # <<>>, StackIsPath,
           stack' = SubSeq(stack, 1, Len(stack) - 1)
    PROVE  /\ InStack' = InStack \ {Top}
           /\ Len(stack') = Len(stack) - 1 /\ Len(stack) \in Nat /\ Len(stack) >= 1
           /\ Top \in InStack /\ Top \in Nodes
           /\ \A i \in 1 .. Len(stack) - 1 : stack'[i] = stack[i]
<1>1. /\ Len(stack') = Len(stack) - 1 /\ Len(stack) \in Nat /\ Len(stack) >= 1
      /\ Top \in Nodes
      /\ \A i \in 1 .. Len(stack) - 1 : stack'[i] = stack[i]
  BY PopProps DEF Top
<1>2. InStack' = {stack'[i] : i \in 1 .. Len(stack) - 1}
  BY <1>1 DEF InStack
<1>3. Top \in InStack
  BY <1>1 DEF Top, InStack
<1>4. ASSUME NEW x PROVE x \in InStack' <=> x \in InStack /\ x # Top
  <2>1. x \in InStack' <=> \E i \in 1 .. Len(stack) - 1 : x = stack[i]
    BY <1>1, <1>2
  <2>2. x \in InStack <=> \E i \in 1 .. Len(stack) : x = stack[i]
    BY DEF InStack
  <2>3. \A i \in 1 .. Len(stack) - 1 : i \in 1 .. Len(stack) /\ stack[i] # stack[Len(stack)]
    BY <1>1 DEF StackIsPath
  <2>4. \A i \in 1 .. Len(stack) : i \in 1 .. Len(stack) - 1 \/ i = Len(stack)
    BY <1>1
  <2> QED
    BY <2>1, <2>2, <2>3, <2>4 DEF Top
<1> QED
  BY <1>1, <1>3, <1>4

----------------------------------------------------------------------------
(* Visit, for a record whose visit has not begun.                          *)

\* Pushing a record that is a parent of the top, or onto an empty stack.
LEMMA PushKeeps ==
    ASSUME WalkIInv, outcome = "walking",
           NEW n \in Nodes, n \notin visiting, n \notin visited,
           IF stack = <<>> THEN todo' = todo
           ELSE n \in todo[Top] /\ todo' = [todo EXCEPT ![Top] = @ \ {n}],
           roots' \subseteq roots, \A r \in roots : r \in roots' \/ r = n,
           stack' = Append(stack, n), visiting' = visiting \union {n},
           UNCHANGED <<parents, visited, outcome>>
    PROVE  WalkIInv'
<1> USE DEF WalkIInv
<1>1. n \notin InStack /\ stack \in Seq(Nodes)
  BY DEF StackIsPath, TypeOK
<1>2. /\ InStack' = InStack \union {n}
      /\ Len(stack') = Len(stack) + 1 /\ Len(stack) \in Nat
      /\ \A i \in 1 .. Len(stack) : stack'[i] = stack[i] /\ stack[i] # n
      /\ stack'[Len(stack')] = n
  BY <1>1, PushedStack
<1>3. stack # <<>> => Len(stack) >= 1 /\ Top \in Nodes /\ Top \in InStack
                      /\ n \in parents[Top] /\ Top # n
  <2> SUFFICES ASSUME stack # <<>> PROVE Len(stack) >= 1 /\ Top \in Nodes /\ Top \in InStack
                      /\ n \in parents[Top] /\ Top # n
    OBVIOUS
  <2>1. Len(stack) >= 1 /\ Top \in Nodes
    BY <1>1, PopProps DEF Top
  <2>2. Top \in InStack
    BY <1>2, <2>1 DEF InStack, Top
  <2> QED
    BY <1>1, <2>1, <2>2 DEF Accounted
<1>4. todo' \in [Nodes -> SUBSET Nodes] /\ \A m \in Nodes :
          /\ todo'[m] = IF stack # <<>> /\ m = Top THEN todo[m] \ {n} ELSE todo[m]
          /\ todo'[m] \subseteq parents[m]
          /\ m # n /\ m \notin InStack => todo'[m] = todo[m]
          /\ m = n => todo'[m] = todo[m]
  <2>1. todo \in [Nodes -> SUBSET Nodes] /\ \A m \in Nodes : todo[m] \subseteq parents[m]
    BY DEF TypeOK, Accounted
  <2>2. CASE stack = <<>>
    BY <2>1, <2>2
  <2>3. CASE stack # <<>>
    <3>1. todo' = [todo EXCEPT ![Top] = @ \ {n}]
      BY <2>3
    <3> QED
      BY <1>3, <2>1, <2>3, <3>1
  <2> QED
    BY <2>2, <2>3
<1>5. TypeOK'
  <2>1. stack' \in Seq(Nodes)
    BY <1>1, PushProps
  <2> QED
    BY <1>2, <1>4, <2>1 DEF TypeOK
<1>6. StackIsPath'
  <2>1. visiting' = InStack'
    BY <1>2 DEF StackIsPath
  <2>2. ASSUME NEW i \in 1 .. Len(stack') - 1 PROVE stack'[i + 1] \in parents'[stack'[i]]
    <3>1. CASE i = Len(stack)
      <4>1. stack # <<>> /\ stack'[i] = Top /\ stack'[i + 1] = n
        BY <1>2, <3>1 DEF Top
      <4> QED
        BY <1>3, <4>1
    <3>2. CASE i # Len(stack)
      <4>1. i \in 1 .. Len(stack) - 1 /\ i \in 1 .. Len(stack) /\ i + 1 \in 1 .. Len(stack)
        BY <1>2, <3>2
      <4>2. stack'[i] = stack[i] /\ stack'[i + 1] = stack[i + 1]
        BY <1>2, <4>1
      <4> QED
        BY <4>1, <4>2 DEF StackIsPath
    <3> QED
      BY <3>1, <3>2
  <2>3. ASSUME NEW i \in 1 .. Len(stack'), NEW j \in 1 .. Len(stack'), stack'[i] = stack'[j] PROVE i = j
    <3>1. i \in 1 .. Len(stack) \/ i = Len(stack')
      BY <1>2
    <3>2. j \in 1 .. Len(stack) \/ j = Len(stack')
      BY <1>2
    <3> QED
      BY <1>2, <2>3, <3>1, <3>2 DEF StackIsPath
  <2> QED
    BY <2>1, <2>2, <2>3 DEF StackIsPath
<1>7. VisitedIsComplete'
  <2>1. visited' \intersect visiting' = {}
    BY DEF VisitedIsComplete
  <2>2. \A m \in visited' : parents'[m] \subseteq visited'
    BY DEF VisitedIsComplete
  <2>3. ASSUME NEW i \in 1 .. Len(stack')
        PROVE  parents'[stack'[i]] \subseteq
                  visited' \union todo'[stack'[i]] \union (IF i < Len(stack') THEN {stack'[i + 1]} ELSE {})
                  \union (IF outcome' = "cycle" THEN visiting' ELSE {})
    <3>1. CASE i = Len(stack')
      <4>1. stack'[i] = n /\ todo[n] = parents[n] /\ todo'[n] = todo[n]
        BY <1>2, <1>4, <3>1 DEF Accounted
      <4> QED
        BY <4>1
    <3>2. CASE i = Len(stack) /\ i # Len(stack')
      <4>1. stack # <<>> /\ stack'[i] = Top /\ stack[i] = Top /\ stack'[i + 1] = n /\ i < Len(stack')
            /\ i \in 1 .. Len(stack)
        BY <1>2, <3>2 DEF Top
      <4>2. parents[Top] \subseteq visited \union todo[Top]
        BY <4>1, <3>2 DEF VisitedIsComplete
      <4>3. todo'[Top] = todo[Top] \ {n}
        BY <1>3, <1>4, <4>1
      <4> QED
        BY <4>1, <4>2, <4>3
    <3>3. CASE i < Len(stack)
      <4>1. i \in 1 .. Len(stack) /\ i + 1 \in 1 .. Len(stack) /\ i < Len(stack') /\ Len(stack) \in 1 .. Len(stack)
        BY <1>2, <3>3
      <4>2. stack'[i] = stack[i] /\ stack'[i + 1] = stack[i + 1] /\ stack[i] \in Nodes
        BY <1>1, <1>2, <4>1
      <4>3. stack[i] # Top
        BY <4>1, <3>3 DEF StackIsPath, Top
      <4>4. parents[stack[i]] \subseteq visited \union todo[stack[i]] \union {stack[i + 1]}
        BY <4>1, <3>3 DEF VisitedIsComplete
      <4>5. todo'[stack[i]] = todo[stack[i]]
        BY <1>4, <4>2, <4>3
      <4> QED
        BY <4>1, <4>2, <4>4, <4>5
    <3> QED
      BY <1>2, <3>1, <3>2, <3>3
  <2> QED
    BY <2>1, <2>2, <2>3 DEF VisitedIsComplete
<1>8. Accounted'
  <2>1. ExpectedRoots' = ExpectedRoots
    BY DEF ExpectedRoots
  <2>2. \A m \in Nodes : m \notin visited' /\ m \notin visiting' => todo'[m] = parents'[m]
    BY <1>4 DEF Accounted, StackIsPath
  <2> QED
    BY <1>4, <2>1, <2>2 DEF Accounted
<1>9. VisitedIsAcyclic' /\ RefusedIsCyclic'
  BY DEF VisitedIsAcyclic, RefusedIsCyclic, Cyclic
<1> QED
  BY <1>5, <1>6, <1>7, <1>8, <1>9

\* A record that has been visited is passed over.
LEMMA SkipKeeps ==
    ASSUME WalkIInv, outcome = "walking",
           NEW n \in Nodes, n \in visited,
           IF stack = <<>> THEN todo' = todo
           ELSE n \in todo[Top] /\ todo' = [todo EXCEPT ![Top] = @ \ {n}],
           roots' \subseteq roots, \A r \in roots : r \in roots' \/ r = n,
           UNCHANGED <<parents, stack, visiting, visited, outcome>>
    PROVE  WalkIInv'
<1> USE DEF WalkIInv
<1>1. stack # <<>> => Top \in Nodes /\ Top \in visiting
  <2> SUFFICES ASSUME stack # <<>> PROVE Top \in Nodes /\ Top \in visiting
    OBVIOUS
  <2>1. Len(stack) \in Nat /\ Len(stack) >= 1 /\ Top \in Nodes
    BY PopProps DEF Top, TypeOK
  <2> QED
    BY <2>1 DEF Top, InStack, StackIsPath
<1>2. todo' \in [Nodes -> SUBSET Nodes] /\ \A m \in Nodes :
          /\ todo'[m] \subseteq parents[m] /\ todo[m] \subseteq todo'[m] \union {n}
          /\ m \notin visiting => todo'[m] = todo[m]
  BY <1>1 DEF TypeOK, Accounted
<1>3. InStack' = InStack /\ ExpectedRoots' = ExpectedRoots
  BY DEF InStack, ExpectedRoots
<1>4. TypeOK'
  BY <1>2, <1>3 DEF TypeOK
<1>5. StackIsPath'
  BY <1>3 DEF StackIsPath
<1>6. VisitedIsComplete'
  <2>1. ASSUME NEW i \in 1 .. Len(stack)
        PROVE  parents'[stack'[i]] \subseteq
                  visited' \union todo'[stack'[i]] \union (IF i < Len(stack') THEN {stack'[i + 1]} ELSE {})
                  \union (IF outcome' = "cycle" THEN visiting' ELSE {})
    <3>1. stack[i] \in Nodes
      BY DEF TypeOK
    <3>2. parents[stack[i]] \subseteq
              visited \union todo[stack[i]] \union (IF i < Len(stack) THEN {stack[i + 1]} ELSE {})
              \union (IF outcome = "cycle" THEN visiting ELSE {})
      BY DEF VisitedIsComplete
    <3> QED
      BY <1>2, <3>1, <3>2
  <2> QED
    BY <2>1 DEF VisitedIsComplete
<1>7. Accounted'
  BY <1>2, <1>3 DEF Accounted
<1>8. VisitedIsAcyclic' /\ RefusedIsCyclic'
  BY DEF VisitedIsAcyclic, RefusedIsCyclic, Cyclic
<1> QED
  BY <1>4, <1>5, <1>6, <1>7, <1>8

\* Meeting a record in progress means a ring, and ends the walk.
LEMMA CycleKeeps ==
    ASSUME WalkIInv, outcome = "walking", stack # <<>>,
           NEW n \in todo[Top], n \in visiting,
           todo' = [todo EXCEPT ![Top] = @ \ {n}],
           outcome' = "cycle",
           UNCHANGED <<parents, roots, stack, visiting, visited>>
    PROVE  WalkIInv'
<1> USE DEF WalkIInv
<1>1. /\ Len(stack) \in Nat /\ Len(stack) >= 1
      /\ Top \in Nodes /\ Top = stack[Len(stack)]
  BY PopProps DEF Top, TypeOK
<1>2. n \in parents[Top] /\ n \in Nodes /\ Top \in visiting
  <2>1. Top \in InStack
    BY <1>1 DEF InStack
  <2> QED
    BY <1>1, <2>1 DEF Accounted, TypeOK, StackIsPath
<1>3. todo \in [Nodes -> SUBSET Nodes]
  BY DEF TypeOK
<1>4. todo' \in [Nodes -> SUBSET Nodes] /\ \A m \in Nodes :
          /\ todo'[m] \subseteq todo[m] /\ todo[m] \subseteq todo'[m] \union {n}
          /\ m \notin visiting => todo'[m] = todo[m]
  BY <1>1, <1>2, <1>3
<1>5. InStack' = InStack /\ ExpectedRoots' = ExpectedRoots
  BY DEF InStack, ExpectedRoots
<1>6. TypeOK' /\ StackIsPath'
  BY <1>4, <1>5 DEF TypeOK, StackIsPath
<1>7. VisitedIsComplete'
  <2>1. ASSUME NEW i \in 1 .. Len(stack)
        PROVE  parents'[stack'[i]] \subseteq
                  visited' \union todo'[stack'[i]] \union (IF i < Len(stack') THEN {stack'[i + 1]} ELSE {})
                  \union (IF outcome' = "cycle" THEN visiting' ELSE {})
    <3>1. stack[i] \in Nodes
      BY DEF TypeOK
    <3>2. parents[stack[i]] \subseteq
              visited \union todo[stack[i]] \union (IF i < Len(stack) THEN {stack[i + 1]} ELSE {})
      BY DEF VisitedIsComplete
    <3> QED
      BY <1>4, <3>1, <3>2
  <2> QED
    BY <2>1 DEF VisitedIsComplete
<1>8. Accounted' /\ VisitedIsAcyclic'
  BY <1>4, <1>5 DEF Accounted, VisitedIsAcyclic
<1>9. RefusedIsCyclic'
  <2>1. PICK k \in 1 .. Len(stack) : n = stack[k]
    BY DEF StackIsPath, InStack
  <2> DEFINE ring == {stack[i] : i \in k .. Len(stack)}
  <2>2. ring \in SUBSET Nodes /\ Top \in ring /\ ring # {}
    <3>1. \A i \in k .. Len(stack) : stack[i] \in Nodes
      BY <1>1 DEF TypeOK
    <3>2. Len(stack) \in k .. Len(stack)
      BY <1>1
    <3> QED
      BY <1>1, <3>1, <3>2
  <2>3. ASSUME NEW i \in k .. Len(stack) PROVE \E m \in ring : stack[i] \in parents[m]
    <3>1. CASE i = k
      BY <1>2, <2>1, <2>2, <3>1
    <3>2. CASE i # k
      <4>1. i - 1 \in k .. Len(stack) /\ i - 1 \in 1 .. Len(stack) - 1 /\ (i - 1) + 1 = i
        BY <1>1, <3>2
      <4>2. stack[i - 1] \in ring /\ stack[i] \in parents[stack[i - 1]]
        BY <4>1 DEF StackIsPath
      <4> QED
        BY <4>2
    <3> QED
      BY <3>1, <3>2
  <2>4. Cyclic(parents)
    <3>1. \A x \in ring : \E m \in ring : x \in parents[m]
      BY <2>3
    <3>2. ring \in (SUBSET Nodes) \ {{}}
      BY <2>2
    <3> QED
      BY <3>1, <3>2 DEF Cyclic
  <2> QED
    BY <2>4 DEF RefusedIsCyclic
<1> QED
  BY <1>6, <1>7, <1>8, <1>9

LEMMA RootKeeps == WalkIInv /\ Root => WalkIInv'
<1> SUFFICES ASSUME WalkIInv, Root PROVE WalkIInv'
  OBVIOUS
<1>1. PICK n \in roots : Visit(n) /\ roots' = roots \ {n}
  BY DEF Root
<1>2. stack = <<>> /\ outcome = "walking" /\ todo' = todo /\ n \in Nodes
  BY DEF Root, WalkIInv, TypeOK
<1>3. n \notin visiting
  BY <1>2 DEF WalkIInv, StackIsPath, InStack
<1>4. CASE n \in visited
  <2>1. UNCHANGED <<parents, stack, visiting, visited, outcome>>
    BY <1>1, <1>3, <1>4 DEF Visit
  <2> QED
    BY <1>1, <1>2, <1>4, <2>1, SkipKeeps
<1>5. CASE n \notin visited
  <2>1. /\ stack' = Append(stack, n) /\ visiting' = visiting \union {n}
        /\ UNCHANGED <<parents, visited, outcome>>
    BY <1>1, <1>3, <1>5 DEF Visit
  <2> QED
    BY <1>1, <1>2, <1>3, <1>5, <2>1, PushKeeps
<1> QED
  BY <1>4, <1>5

LEMMA ParentKeeps == WalkIInv /\ Parent => WalkIInv'
<1> SUFFICES ASSUME WalkIInv, Parent PROVE WalkIInv'
  OBVIOUS
<1>1. PICK n \in todo[Top] : Visit(n) /\ todo' = [todo EXCEPT ![Top] = @ \ {n}]
  BY DEF Parent
<1>2. stack # <<>> /\ outcome = "walking" /\ roots' = roots
  BY DEF Parent
<1>3. n \in Nodes
  <2>1. Top \in Nodes
    BY <1>2, PopProps DEF Top, WalkIInv, TypeOK
  <2> QED
    BY <2>1 DEF WalkIInv, TypeOK
<1>4. CASE n \in visiting
  <2>1. outcome' = "cycle" /\ UNCHANGED <<parents, stack, visiting, visited>>
    BY <1>1, <1>4 DEF Visit
  <2> QED
    BY <1>1, <1>2, <1>4, <2>1, CycleKeeps
<1>5. CASE n \notin visiting /\ n \in visited
  <2>1. UNCHANGED <<parents, stack, visiting, visited, outcome>>
    BY <1>1, <1>5 DEF Visit
  <2> QED
    BY <1>1, <1>2, <1>3, <1>5, <2>1, SkipKeeps
<1>6. CASE n \notin visiting /\ n \notin visited
  <2>1. /\ stack' = Append(stack, n) /\ visiting' = visiting \union {n}
        /\ UNCHANGED <<parents, visited, outcome>>
    BY <1>1, <1>6 DEF Visit
  <2> QED
    BY <1>1, <1>2, <1>3, <1>6, <2>1, PushKeeps
<1> QED
  BY <1>4, <1>5, <1>6

\* A record whose parents have all been visited is visited: none of them, and
\* nothing visited before, has it as a parent's child, so it closes no ring.
LEMMA LeaveKeeps == WalkIInv /\ Leave => WalkIInv'
<1> SUFFICES ASSUME WalkIInv, Leave PROVE WalkIInv'
  OBVIOUS
<1> USE DEF WalkIInv
<1>1. /\ outcome = "walking" /\ stack # <<>> /\ todo[Top] = {}
      /\ stack' = SubSeq(stack, 1, Len(stack) - 1)
      /\ visiting' = visiting \ {Top} /\ visited' = visited \union {Top}
      /\ UNCHANGED <<parents, roots, todo, outcome>>
  BY DEF Leave
<1>2. stack \in Seq(Nodes)
  BY DEF TypeOK
<1>3. /\ InStack' = InStack \ {Top}
      /\ Len(stack') = Len(stack) - 1 /\ Len(stack) \in Nat /\ Len(stack) >= 1
      /\ Top \in InStack /\ Top \in Nodes
      /\ \A i \in 1 .. Len(stack) - 1 : stack'[i] = stack[i]
  BY <1>1, <1>2, PoppedStack
<1>4. Top \in visiting /\ Top \notin visited /\ parents[Top] \subseteq visited
  <2>1. Len(stack) \in 1 .. Len(stack) /\ Top = stack[Len(stack)]
    BY <1>3 DEF Top
  <2>2. parents[Top] \subseteq visited \union todo[Top]
    BY <1>1, <1>3, <2>1 DEF VisitedIsComplete
  <2>3. Top \in visiting /\ Top \notin visited
    BY <1>3 DEF StackIsPath, VisitedIsComplete
  <2> QED
    BY <1>1, <2>2, <2>3
<1>5. TypeOK'
  <2>1. stack' \in Seq(Nodes)
    BY <1>1, <1>2, PopProps
  <2> QED
    BY <1>1, <1>3, <2>1 DEF TypeOK
<1>6. StackIsPath'
  <2>1. visiting' = InStack'
    BY <1>1, <1>3 DEF StackIsPath
  <2>2. ASSUME NEW i \in 1 .. Len(stack') - 1 PROVE stack'[i + 1] \in parents'[stack'[i]]
    <3>1. i \in 1 .. Len(stack) - 1 /\ i + 1 \in 1 .. Len(stack) - 1
      BY <1>3
    <3> QED
      BY <1>1, <1>3, <3>1 DEF StackIsPath
  <2>3. ASSUME NEW i \in 1 .. Len(stack'), NEW j \in 1 .. Len(stack'), stack'[i] = stack'[j] PROVE i = j
    <3>1. i \in 1 .. Len(stack) - 1 /\ j \in 1 .. Len(stack) - 1 /\ i \in 1 .. Len(stack) /\ j \in 1 .. Len(stack)
      BY <1>3
    <3> QED
      BY <1>3, <2>3, <3>1 DEF StackIsPath
  <2> QED
    BY <2>1, <2>2, <2>3 DEF StackIsPath
<1>7. VisitedIsComplete'
  <2>1. visited' \intersect visiting' = {}
    BY <1>1 DEF VisitedIsComplete
  <2>2. \A m \in visited' : parents'[m] \subseteq visited'
    BY <1>1, <1>4 DEF VisitedIsComplete
  <2>3. ASSUME NEW i \in 1 .. Len(stack')
        PROVE  parents'[stack'[i]] \subseteq
                  visited' \union todo'[stack'[i]] \union (IF i < Len(stack') THEN {stack'[i + 1]} ELSE {})
                  \union (IF outcome' = "cycle" THEN visiting' ELSE {})
    <3>1. i \in 1 .. Len(stack) - 1 /\ i \in 1 .. Len(stack) /\ i < Len(stack) /\ stack'[i] = stack[i]
      BY <1>3
    <3>2. parents[stack[i]] \subseteq visited \union todo[stack[i]] \union {stack[i + 1]}
      BY <1>1, <3>1 DEF VisitedIsComplete
    <3>3. CASE i + 1 = Len(stack)
      <4>1. stack[i + 1] = Top
        BY <3>3 DEF Top
      <4> QED
        BY <1>1, <3>1, <3>2, <4>1
    <3>4. CASE i + 1 # Len(stack)
      <4>1. i < Len(stack') /\ stack'[i + 1] = stack[i + 1]
        BY <1>3, <3>1, <3>4
      <4> QED
        BY <1>1, <3>1, <3>2, <4>1
    <3> QED
      BY <3>3, <3>4
  <2> QED
    BY <2>1, <2>2, <2>3 DEF VisitedIsComplete
<1>8. Accounted'
  <2>1. ExpectedRoots' = ExpectedRoots
    BY <1>1 DEF ExpectedRoots
  <2> QED
    BY <1>1, <2>1 DEF Accounted
<1>9. VisitedIsAcyclic'
  <2> SUFFICES ASSUME NEW s \in SUBSET visited', s # {}, \A n \in s : \E m \in s : n \in parents[m]
               PROVE  FALSE
    BY <1>1 DEF VisitedIsAcyclic
  <2>1. Top \notin s
    <3> SUFFICES ASSUME Top \in s PROVE FALSE
      OBVIOUS
    <3>1. PICK m \in s : Top \in parents[m]
      OBVIOUS
    <3>2. m = Top \/ m \in visited
      BY <1>1
    <3>3. m \in visited => parents[m] \subseteq visited
      BY DEF VisitedIsComplete
    <3> QED
      BY <1>3, <1>4, <3>1, <3>2, <3>3 DEF Accounted
  <2>2. s \in SUBSET visited
    BY <1>1, <2>1
  <2> QED
    BY <2>2 DEF VisitedIsAcyclic
<1>10. RefusedIsCyclic'
  BY <1>1 DEF RefusedIsCyclic
<1> QED
  BY <1>5, <1>6, <1>7, <1>8, <1>9, <1>10

\* Records that no root led to have children that no root led to: a ring.
LEMMA FinishKeeps == WalkIInv /\ Finish => WalkIInv'
<1> SUFFICES ASSUME WalkIInv, Finish PROVE WalkIInv'
  OBVIOUS
<1> USE DEF WalkIInv
<1>1. /\ outcome = "walking" /\ stack = <<>> /\ roots = {}
      /\ outcome' = IF visited = Nodes THEN "accepted" ELSE "unreachable"
      /\ UNCHANGED <<parents, roots, stack, todo, visiting, visited>>
  BY DEF Finish
<1>2. InStack' = InStack /\ ExpectedRoots' = ExpectedRoots
  BY <1>1 DEF InStack, ExpectedRoots
<1>3. visiting = {}
  BY <1>1 DEF StackIsPath, InStack
<1>4. TypeOK' /\ StackIsPath'
  BY <1>1, <1>2 DEF TypeOK, StackIsPath
<1>5. VisitedIsComplete' /\ Accounted' /\ VisitedIsAcyclic'
  BY <1>1, <1>2 DEF VisitedIsComplete, Accounted, VisitedIsAcyclic
<1>6. RefusedIsCyclic'
  <2> SUFFICES ASSUME visited # Nodes PROVE Cyclic(parents)
    BY <1>1 DEF RefusedIsCyclic, Cyclic
  <2> DEFINE unseen == Nodes \ visited
  <2>1. unseen \in (SUBSET Nodes) \ {{}}
    BY DEF TypeOK
  <2>2. ASSUME NEW n \in unseen PROVE \E m \in unseen : n \in parents[m]
    <3>1. n \notin ExpectedRoots
      BY <1>1, <1>3 DEF Accounted
    <3>2. PICK m \in Nodes : n \in parents[m]
      BY <3>1 DEF ExpectedRoots
    <3>3. m \notin visited
      BY <3>2 DEF VisitedIsComplete
    <3> QED
      BY <3>2, <3>3
  <2> QED
    BY <2>1, <2>2 DEF Cyclic
<1> QED
  BY <1>4, <1>5, <1>6

----------------------------------------------------------------------------
LEMMA WalkInitIInv == Init => WalkIInv
<1> SUFFICES ASSUME Init PROVE WalkIInv
  OBVIOUS
<1>1. stack = <<>> /\ InStack = {}
  BY DEF Init, InStack
<1>2. TypeOK
  BY <1>1 DEF Init, TypeOK, ExpectedRoots
<1>3. StackIsPath /\ VisitedIsComplete
  BY <1>1 DEF Init, StackIsPath, VisitedIsComplete
<1>4. Accounted /\ VisitedIsAcyclic /\ RefusedIsCyclic
  BY DEF Init, Accounted, VisitedIsAcyclic, RefusedIsCyclic
<1> QED
  BY <1>2, <1>3, <1>4 DEF WalkIInv

LEMMA WalkNextIInv == WalkIInv /\ [Next]_vars => WalkIInv'
<1>1. WalkIInv /\ UNCHANGED vars => WalkIInv'
  <2> SUFFICES ASSUME WalkIInv, UNCHANGED vars PROVE WalkIInv'
    OBVIOUS
  <2>1. UNCHANGED <<parents, roots, stack, todo, visiting, visited, outcome>> /\ UNCHANGED <<InStack, ExpectedRoots>>
    BY DEF vars, InStack, ExpectedRoots
  <2>2. TypeOK' /\ StackIsPath' /\ VisitedIsComplete'
    BY <2>1 DEF WalkIInv, TypeOK, StackIsPath, VisitedIsComplete
  <2>3. Accounted' /\ VisitedIsAcyclic' /\ RefusedIsCyclic'
    BY <2>1 DEF WalkIInv, Accounted, VisitedIsAcyclic, RefusedIsCyclic, Cyclic
  <2> QED
    BY <2>2, <2>3 DEF WalkIInv
<1> QED
  BY <1>1, RootKeeps, ParentKeeps, LeaveKeeps, FinishKeeps DEF Next

LEMMA WalkInvariance == Spec => []WalkIInv
BY WalkInitIInv, WalkNextIInv, PTL DEF Spec

\* The state stays within its types.
THEOREM WalkTypeCorrect == Spec => []TypeOK
BY WalkInvariance, PTL DEF WalkIInv

\* The calls in progress are a path along the parent links.
THEOREM StackIsPathHolds == Spec => []StackIsPath
BY WalkInvariance, PTL DEF WalkIInv

\* Whatever was visited is complete.
THEOREM VisitedIsCompleteHolds == Spec => []VisitedIsComplete
BY WalkInvariance, PTL DEF WalkIInv

\* validateBundlePayload accepts no bundle whose records are in a ring.
THEOREM AcceptedIsAcyclicHolds == Spec => []AcceptedIsAcyclic
<1>1. WalkIInv => AcceptedIsAcyclic
  <2> SUFFICES ASSUME WalkIInv, outcome = "accepted", Cyclic(parents) PROVE FALSE
    BY DEF AcceptedIsAcyclic
  <2>1. PICK s \in (SUBSET Nodes) \ {{}} : \A n \in s : \E m \in s : n \in parents[m]
    BY DEF Cyclic
  <2>2. s \in SUBSET visited /\ s # {}
    BY <2>1 DEF WalkIInv, Accounted
  <2> QED
    BY <2>1, <2>2 DEF WalkIInv, VisitedIsAcyclic
<1> QED
  BY <1>1, WalkInvariance, PTL

\* ... and refuses none as cyclic or unreachable that is not.
THEOREM RefusedIsCyclicHolds == Spec => []RefusedIsCyclic
BY WalkInvariance, PTL DEF WalkIInv

\* The walk accepts exactly the graphs without a cycle, with a right stack on the way.
THEOREM WalkIsRightHolds == Spec => []WalkIsRight
BY WalkTypeCorrect, StackIsPathHolds, VisitedIsCompleteHolds, AcceptedIsAcyclicHolds,
   RefusedIsCyclicHolds, PTL DEF WalkIsRight
----------------------------------------------------------------------------
(* EvidenceGraph: the inductive invariant.                                 *)

\* What a helper makes of its arguments.
HelperMade(r) ==
    CASE r.kind = "principal" -> r.parents = {}
      [] r.kind = "agent" ->
            \/ r.operator = None /\ r.parents = {}
            \/ r.operator # None /\ r.operator.kind = "principal" /\ r.parents = {r.operator}
      [] r.kind = "mandate" -> r.principal.kind = "principal" /\ r.parents = {r.principal}
      [] r.kind = "run" -> r.agent.kind = "agent" /\ r.mandate.kind = "mandate" /\ r.parents = {r.agent, r.mandate}
      [] r.kind = "evidence" ->
            /\ r.run.kind = "run" /\ r.run \in r.parents /\ r.bound
            /\ \A q \in r.parents : q.kind \in {"run", "evidence"}
      [] r.kind = "policy" -> r.parents # {} /\ r.bound /\ \A q \in r.parents : q.kind \in {"run", "mandate"}
      [] r.kind = "decision" ->
            /\ r.run.kind = "run" /\ r.agent.kind = "agent" /\ r.policy.kind = "policy"
            /\ \A e \in r.evidence : e.kind = "evidence"
            /\ r.parents = {r.run, r.policy} \union r.evidence /\ r.digest = r.policy.digest
      [] OTHER -> r.decision.kind = "decision" /\ r.parents = {r.decision}

BuiltOnBuilt ==
    /\ IsFiniteSet(built)
    /\ \A r \in built :
        /\ r.kind \in Kinds /\ r.parents \subseteq built /\ r \notin r.parents
        /\ MeetsSchema(r) /\ Cardinality(OfKind(built, {r.kind})) <= Cap[r.kind]
    /\ byHand \in BOOLEAN
    /\ ~byHand => \A r \in built : HelperMade(r)

AssembledOfBuilt ==
    bundle # None => \E rs \in SUBSET built, run \in built :
        bundle.payload = Payload(rs, run) /\ bundle.accepted = Valid(Payload(rs, run))

GraphIInv == BuiltOnBuilt /\ AssembledOfBuilt

----------------------------------------------------------------------------
(* What is built.                                                          *)

LEMMA KindsOf ==
    ASSUME NEW rs, NEW kind, NEW r \in OfKind(rs, {kind}) PROVE r \in rs /\ r.kind = kind
BY DEF OfKind

\* A helper takes its parents from the records built so far.
LEMMA HelperProps ==
    ASSUME NEW h \in ByHelper
    PROVE  /\ h.kind \in Kinds /\ h.parents \subseteq built /\ HelperMade(h)
           /\ {"kind", "parents"} \subseteq DOMAIN h
<1>1. CASE h = Principal
  BY <1>1 DEF Principal, Kinds, HelperMade
<1>2. ASSUME NEW o \in OfKind(built, {"principal"}) \union {None}, h = AgentRecord(o)
      PROVE  /\ h.kind \in Kinds /\ h.parents \subseteq built /\ HelperMade(h)
             /\ {"kind", "parents"} \subseteq DOMAIN h
  <2>1. h.kind = "agent" /\ h.operator = o /\ h.parents = {o} \ {None} /\ {"kind", "parents"} \subseteq DOMAIN h
    BY <1>2 DEF AgentRecord
  <2> QED
    BY <2>1 DEF OfKind, Kinds, HelperMade
<1>3. ASSUME NEW p \in OfKind(built, {"principal"}), NEW i \in Terms, h = Mandate(p, i)
      PROVE  /\ h.kind \in Kinds /\ h.parents \subseteq built /\ HelperMade(h)
             /\ {"kind", "parents"} \subseteq DOMAIN h
  <2>1. h.kind = "mandate" /\ h.principal = p /\ h.parents = {p} /\ {"kind", "parents"} \subseteq DOMAIN h
    BY <1>3 DEF Mandate
  <2> QED
    BY <2>1 DEF OfKind, Kinds, HelperMade
<1>4. ASSUME NEW a \in OfKind(built, {"agent"}), NEW m \in OfKind(built, {"mandate"}), NEW t \in Times, h = Run(a, m, t)
      PROVE  /\ h.kind \in Kinds /\ h.parents \subseteq built /\ HelperMade(h)
             /\ {"kind", "parents"} \subseteq DOMAIN h
  <2>1. h.kind = "run" /\ h.agent = a /\ h.mandate = m /\ h.parents = {a, m} /\ {"kind", "parents"} \subseteq DOMAIN h
    BY <1>4 DEF Run
  <2> QED
    BY <2>1 DEF OfKind, Kinds, HelperMade
<1>5. ASSUME NEW run \in OfKind(built, {"run"}), NEW prior \in SUBSET OfKind(built, {"evidence"}),
             h = Evidence(run, prior)
      PROVE  /\ h.kind \in Kinds /\ h.parents \subseteq built /\ HelperMade(h)
             /\ {"kind", "parents"} \subseteq DOMAIN h
  <2>1. /\ h.kind = "evidence" /\ h.run = run /\ h.bound = TRUE /\ h.parents = {run} \union prior
        /\ {"kind", "parents"} \subseteq DOMAIN h
    BY <1>5 DEF Evidence
  <2> QED
    BY <2>1 DEF OfKind, Kinds, HelperMade
<1>6. ASSUME NEW over \in (SUBSET (OfKind(built, {"run"}) \union OfKind(built, {"mandate"}))) \ {{}},
             NEW i \in Effects, NEW d \in Digests, h = Policy(over, i, d)
      PROVE  /\ h.kind \in Kinds /\ h.parents \subseteq built /\ HelperMade(h)
             /\ {"kind", "parents"} \subseteq DOMAIN h
  <2>1. h.kind = "policy" /\ h.bound = TRUE /\ h.parents = over /\ {"kind", "parents"} \subseteq DOMAIN h
    BY <1>6 DEF Policy
  <2> QED
    BY <2>1 DEF OfKind, Kinds, HelperMade
<1>7. ASSUME NEW run \in OfKind(built, {"run"}), NEW a \in OfKind(built, {"agent"}),
             NEW p \in OfKind(built, {"policy"}), NEW es \in (SUBSET OfKind(built, {"evidence"})) \ {{}},
             NEW t \in Times, h = Decision(run, a, p, es, t)
      PROVE  /\ h.kind \in Kinds /\ h.parents \subseteq built /\ HelperMade(h)
             /\ {"kind", "parents"} \subseteq DOMAIN h
  <2>1. /\ h.kind = "decision" /\ h.run = run /\ h.agent = a /\ h.policy = p /\ h.evidence = es
        /\ h.digest = p.digest /\ h.parents = {run, p} \union es /\ {"kind", "parents"} \subseteq DOMAIN h
    BY <1>7 DEF Decision
  <2> QED
    BY <2>1 DEF OfKind, Kinds, HelperMade
<1>8. ASSUME NEW d \in OfKind(built, {"decision"}), NEW complete \in BOOLEAN, h = Execution(d, complete)
      PROVE  /\ h.kind \in Kinds /\ h.parents \subseteq built /\ HelperMade(h)
             /\ {"kind", "parents"} \subseteq DOMAIN h
  <2>1. h.kind = "execution" /\ h.decision = d /\ h.parents = {d} /\ {"kind", "parents"} \subseteq DOMAIN h
    BY <1>8 DEF Execution
  <2> QED
    BY <2>1 DEF OfKind, Kinds, HelperMade
<1>9. \/ h = Principal
      \/ \E o \in OfKind(built, {"principal"}) \union {None} : h = AgentRecord(o)
      \/ \E p \in OfKind(built, {"principal"}), i \in Terms : h = Mandate(p, i)
      \/ \E a \in OfKind(built, {"agent"}), m \in OfKind(built, {"mandate"}), t \in Times : h = Run(a, m, t)
      \/ \E run \in OfKind(built, {"run"}), prior \in SUBSET OfKind(built, {"evidence"}) : h = Evidence(run, prior)
      \/ \E over \in (SUBSET (OfKind(built, {"run"}) \union OfKind(built, {"mandate"}))) \ {{}},
            i \in Effects, d \in Digests : h = Policy(over, i, d)
      \/ \E run \in OfKind(built, {"run"}), a \in OfKind(built, {"agent"}), p \in OfKind(built, {"policy"}),
            es \in (SUBSET OfKind(built, {"evidence"})) \ {{}}, t \in Times : h = Decision(run, a, p, es, t)
      \/ \E d \in OfKind(built, {"decision"}), complete \in BOOLEAN : h = Execution(d, complete)
  BY DEF ByHelper
<1> QED
  BY <1>1, <1>2, <1>3, <1>4, <1>5, <1>6, <1>7, <1>8, <1>9

\* ... and so does what is altered by hand.
LEMMA AlteredProps ==
    ASSUME NEW h \in ByHelper, NEW r \in Altered(h)
    PROVE  r.kind \in Kinds /\ r.parents \subseteq built
<1>1. h.kind \in Kinds /\ h.parents \subseteq built /\ {"kind", "parents"} \subseteq DOMAIN h
  BY HelperProps
<1>2. ASSUME NEW ps \in SUBSET built, r = [h EXCEPT !.parents = ps]
      PROVE  r.kind \in Kinds /\ r.parents \subseteq built
  BY <1>1, <1>2
<1>3. CASE r = [h EXCEPT !.bound = FALSE]
  BY <1>1, <1>3
<1>4. ASSUME NEW d \in Digests, r = [h EXCEPT !.digest = d]
      PROVE  r.kind \in Kinds /\ r.parents \subseteq built
  BY <1>1, <1>4
<1>5. \/ \E p \in h.parents : r = [h EXCEPT !.parents = h.parents \ {p}]
      \/ \E q \in built : r = [h EXCEPT !.parents = h.parents \union {q}]
      \/ r = [h EXCEPT !.bound = FALSE]
      \/ \E d \in Digests : r = [h EXCEPT !.digest = d]
  BY DEF Altered
<1> QED
  BY <1>1, <1>2, <1>3, <1>4, <1>5

\* A new record builds on what is there, and so not on itself.
LEMMA BuildKeeps ==
    ASSUME BuiltOnBuilt, NEW r, r.kind \in Kinds, r.parents \subseteq built, Build(r),
           byHand' \in BOOLEAN, ~byHand' => ~byHand /\ HelperMade(r)
    PROVE  BuiltOnBuilt' /\ bundle' = bundle /\ bundle = None
<1>1. /\ bundle = None /\ r \notin built /\ MeetsSchema(r)
      /\ Cardinality(OfKind(built, {r.kind})) < Cap[r.kind]
      /\ built' = built \union {r} /\ bundle' = bundle
  BY DEF Build
<1>2. IsFiniteSet(built')
  BY <1>1, FS_AddElement DEF BuiltOnBuilt
<1>3. ASSUME NEW q \in built' PROVE Cardinality(OfKind(built', {q.kind})) <= Cap[q.kind]
  <2>1. CASE q.kind = r.kind
    <3>1. OfKind(built', {q.kind}) = OfKind(built, {r.kind}) \union {r} /\ r \notin OfKind(built, {r.kind})
      BY <1>1, <2>1 DEF OfKind
    <3>2. IsFiniteSet(OfKind(built, {r.kind}))
      BY FS_Subset DEF OfKind, BuiltOnBuilt
    <3>3. /\ Cardinality(OfKind(built, {r.kind})) \in Nat
          /\ Cardinality(OfKind(built', {q.kind})) = Cardinality(OfKind(built, {r.kind})) + 1
      BY <3>1, <3>2, FS_AddElement, FS_CardinalityType
    <3> QED
      BY <1>1, <2>1, <3>3, CapAssumption
  <2>2. CASE q.kind # r.kind
    <3>1. OfKind(built', {q.kind}) = OfKind(built, {q.kind}) /\ q \in built
      BY <1>1, <2>2 DEF OfKind
    <3> QED
      BY <3>1 DEF BuiltOnBuilt
  <2> QED
    BY <2>1, <2>2
<1>4. ASSUME NEW q \in built' PROVE q.kind \in Kinds /\ q.parents \subseteq built' /\ q \notin q.parents /\ MeetsSchema(q)
  BY <1>1 DEF BuiltOnBuilt
<1>5. ~byHand' => \A q \in built' : HelperMade(q)
  BY <1>1 DEF BuiltOnBuilt
<1> QED
  BY <1>1, <1>2, <1>3, <1>4, <1>5 DEF BuiltOnBuilt

LEMMA GraphInitIInv == GraphInit => GraphIInv
BY FS_EmptySet DEF GraphInit, GraphIInv, BuiltOnBuilt, AssembledOfBuilt

LEMMA GraphNextIInv == GraphIInv /\ [GraphNext]_graphVars => GraphIInv'
<1> SUFFICES ASSUME GraphIInv, [GraphNext]_graphVars PROVE GraphIInv'
  OBVIOUS
<1> USE DEF GraphIInv
<1>1. CASE WithHelper
  <2>1. PICK r \in ByHelper : Build(r) /\ UNCHANGED byHand
    BY <1>1 DEF WithHelper
  <2>2. r.kind \in Kinds /\ r.parents \subseteq built /\ HelperMade(r)
    BY HelperProps
  <2>3. byHand' \in BOOLEAN /\ (~byHand' => ~byHand)
    BY <2>1 DEF BuiltOnBuilt
  <2>4. BuiltOnBuilt' /\ bundle' = None
    BY <2>1, <2>2, <2>3, BuildKeeps
  <2> QED
    BY <2>4 DEF AssembledOfBuilt
<1>2. CASE WithoutHelper
  <2>1. PICK h \in ByHelper : \E r \in Altered(h) \ ByHelper : Build(r)
    BY <1>2 DEF WithoutHelper
  <2>2. PICK r \in Altered(h) : Build(r)
    BY <2>1
  <2>3. r.kind \in Kinds /\ r.parents \subseteq built /\ byHand' = TRUE
    BY <1>2, AlteredProps DEF WithoutHelper
  <2>4. BuiltOnBuilt' /\ bundle' = None
    BY <2>2, <2>3, BuildKeeps
  <2> QED
    BY <2>4 DEF AssembledOfBuilt
<1>3. CASE Assemble
  <2>1. UNCHANGED <<built, byHand>>
    BY <1>3 DEF Assemble
  <2>2. PICK rs \in {built} \union {built \ {r} : r \in built}, run \in OfKind(built, {"run"}) :
            bundle' = [payload |-> Payload(rs, run), accepted |-> Valid(Payload(rs, run))]
    BY <1>3 DEF Assemble
  <2>3. rs \in SUBSET built /\ run \in built
    BY DEF OfKind
  <2>4. bundle'.payload = Payload(rs, run) /\ bundle'.accepted = Valid(Payload(rs, run))
    BY <2>2
  <2>5. AssembledOfBuilt'
    BY <2>1, <2>3, <2>4 DEF AssembledOfBuilt
  <2> QED
    BY <2>1, <2>5 DEF BuiltOnBuilt
<1>4. CASE UNCHANGED graphVars
  BY <1>4 DEF graphVars, BuiltOnBuilt, AssembledOfBuilt
<1> QED
  BY <1>1, <1>2, <1>3, <1>4 DEF GraphNext

LEMMA GraphInvariance == GraphSpec => []GraphIInv
BY GraphInitIInv, GraphNextIInv, PTL DEF GraphSpec

----------------------------------------------------------------------------
(* What is accepted.                                                       *)

LEMMA AcceptedIsValid ==
    ASSUME GraphIInv, Accepted
    PROVE  /\ Members \subseteq built /\ Valid(bundle.payload)
           /\ bundle.payload = Payload(Members, bundle.payload.run)
<1>1. PICK rs \in SUBSET built, run \in built :
          bundle.payload = Payload(rs, run) /\ bundle.accepted = Valid(Payload(rs, run))
  BY DEF GraphIInv, AssembledOfBuilt, Accepted
<1>2. bundle.payload.records = rs /\ bundle.payload.run = run
  BY <1>1 DEF Payload
<1>3. Valid(bundle.payload)
  BY <1>1 DEF Accepted
<1> QED
  BY <1>1, <1>2, <1>3 DEF Members

LEMMA GraphTypes == GraphIInv => GraphTypeOK
<1> SUFFICES ASSUME GraphIInv PROVE GraphTypeOK
  OBVIOUS
<1>1. ASSUME bundle # None PROVE Members \subseteq built /\ bundle.payload.roots \subseteq Members
  <2>1. PICK rs \in SUBSET built, run \in built : bundle.payload = Payload(rs, run)
    BY <1>1 DEF GraphIInv, AssembledOfBuilt
  <2> QED
    BY <2>1 DEF Members, Payload
<1>2. Accepted => Cardinality(OfKind(Members, {"run"})) = 1
  <2> SUFFICES ASSUME Accepted PROVE Cardinality(OfKind(Members, {"run"})) = 1
    OBVIOUS
  <2>1. OfKind(Members, {"run"}) = {bundle.payload.run}
    BY AcceptedIsValid DEF Valid, SingleRun, Members
  <2> QED
    BY <2>1, FS_Singleton
<1> QED
  BY <1>1, <1>2 DEF GraphTypeOK, GraphIInv, BuiltOnBuilt

\* Two records are parents enough for anything but a decision.
LEMMA DecisionHasEvidence ==
    ASSUME NEW r, r.kind = "decision", MeetsSchema(r), r.parents = {r.run, r.policy} \union r.evidence
    PROVE  r.evidence # {}
<1> SUFFICES ASSUME r.evidence = {} PROVE FALSE
  OBVIOUS
<1>1. r.parents = {r.run, r.policy}
  OBVIOUS
<1>2. IsFiniteSet({r.run}) /\ Cardinality({r.run}) = 1
  BY FS_Singleton
<1>3. r.parents = {r.run} \union {r.policy}
  BY <1>1
<1>4. Cardinality({r.run} \union {r.policy}) \in {1, 2}
  <2>1. CASE r.policy \in {r.run}
    <3>1. {r.run} \union {r.policy} = {r.run}
      BY <2>1
    <3> QED
      BY <1>2, <3>1
  <2>2. CASE r.policy \notin {r.run}
    <3>1. Cardinality({r.run} \union {r.policy}) = Cardinality({r.run}) + 1
      BY <1>2, <2>2, FS_AddElement
    <3> QED
      BY <1>2, <3>1
  <2> QED
    BY <2>1, <2>2
<1>5. Cardinality(r.parents) >= 3
  BY DEF MeetsSchema, MinParents
<1> QED
  BY <1>3, <1>4, <1>5

\* What the rule of its kind asks of a record.
LEMMA RuleOf ==
    ASSUME NEW p, Valid(p), NEW r \in p.records
    PROVE  /\ r.parents \subseteq p.records
           /\ r.kind = "principal" => r.parents = {}
           /\ r.kind = "agent" => AgentRule(p.records, r)
           /\ r.kind = "mandate" => MandateRule(p.records, r)
           /\ r.kind = "run" => RunRule(p.records, r) /\ r = p.run
           /\ r.kind = "evidence" => EvidenceRule(p.records, r)
           /\ r.kind = "policy" => PolicyRule(r)
           /\ r.kind = "decision" => DecisionRule(p.records, r)
           /\ r.kind = "execution" => ExecutionRule(p.records, r)
<1>1. r.parents \subseteq p.records /\ KindRule(p.records, r)
  BY DEF Valid
<1>2. r.kind = "run" => r = p.run
  BY DEF Valid, SingleRun, OfKind
<1> QED
  BY <1>1, <1>2 DEF KindRule

LEMMA Chains == GraphIInv => AuthorityChain
<1> SUFFICES ASSUME GraphIInv, Accepted, NEW x \in OfKind(Members, {"execution"})
             PROVE  LET d == x.decision
                        run == bundle.payload.run
                    IN  /\ d \in Members /\ d.run = run /\ d.evidence # {}
                        /\ \A e \in d.evidence : e \in Members /\ e.run = run
                        /\ Within(d.at, d.policy) /\ d.digest = d.policy.digest
                        /\ Within(run.started, run.mandate) /\ run.mandate.principal \in Members
  BY DEF AuthorityChain
<1> DEFINE p == bundle.payload
           d == x.decision
           run == p.run
<1>1. Valid(p) /\ p.records = Members /\ Members \subseteq built
  BY AcceptedIsValid DEF Members
<1>2. x \in Members /\ x.kind = "execution"
  BY DEF OfKind
<1> HIDE DEF p
<1>3. d \in Members /\ d.kind = "decision"
  BY <1>1, <1>2, RuleOf DEF ExecutionRule, Resolves
<1>4. DecisionRule(Members, d)
  BY <1>1, <1>3, RuleOf
<1>5. d.run = run
  BY <1>1, <1>4, RuleOf DEF DecisionRule, Resolves
<1>6. d.evidence # {}
  <2>1. MeetsSchema(d)
    BY <1>1, <1>3 DEF GraphIInv, BuiltOnBuilt
  <2> QED
    BY <1>3, <1>4, <2>1, DecisionHasEvidence DEF DecisionRule
<1>7. ASSUME NEW e \in d.evidence PROVE e \in Members /\ e.run = run
  <2>1. e \in Members /\ e.kind = "evidence"
    BY <1>4 DEF DecisionRule, Resolves
  <2>2. e.run \in Members /\ e.run.kind = "run"
    BY <1>1, <2>1, RuleOf DEF EvidenceRule, Resolves
  <2> QED
    BY <1>1, <2>1, <2>2, RuleOf
<1>8. Within(d.at, d.policy) /\ d.digest = d.policy.digest
  BY <1>4 DEF DecisionRule
<1>9. run \in Members /\ run.kind = "run"
  BY <1>4, <1>5 DEF DecisionRule, Resolves
<1>10. Within(run.started, run.mandate) /\ run.mandate \in Members /\ run.mandate.kind = "mandate"
  BY <1>1, <1>9, RuleOf DEF RunRule, Resolves
<1>11. run.mandate.principal \in Members
  BY <1>1, <1>10, RuleOf DEF MandateRule, Resolves
<1> QED
  BY <1>3, <1>5, <1>6, <1>7, <1>8, <1>10, <1>11 DEF p

LEMMA Walked == GraphIInv => ReferencesAreWalked
<1> SUFFICES ASSUME GraphIInv, Accepted, NEW r \in Members
             PROVE  /\ References(r) \subseteq Members
                    /\ References(r) \ (IF r.kind = "decision" THEN {r.agent} ELSE {}) \subseteq r.parents
  BY DEF ReferencesAreWalked
<1> DEFINE p == bundle.payload
<1>1. Valid(p) /\ p.records = Members /\ Members \subseteq built
  BY AcceptedIsValid DEF Members
<1> HIDE DEF p
<1>2. r.kind \in Kinds
  BY <1>1 DEF GraphIInv, BuiltOnBuilt
<1>3. CASE r.kind \in {"principal", "policy"}
  BY <1>3 DEF References
<1>4. CASE r.kind = "agent"
  BY <1>1, <1>4, RuleOf DEF References, AgentRule, Resolves
<1>5. CASE r.kind = "mandate"
  BY <1>1, <1>5, RuleOf DEF References, MandateRule, Resolves
<1>6. CASE r.kind = "run"
  BY <1>1, <1>6, RuleOf DEF References, RunRule, Resolves
<1>7. CASE r.kind = "evidence"
  BY <1>1, <1>7, RuleOf DEF References, EvidenceRule, Resolves
<1>8. CASE r.kind = "decision"
  <2>1. DecisionRule(Members, r)
    BY <1>1, <1>8, RuleOf
  <2> QED
    BY <1>8, <2>1 DEF References, DecisionRule, Resolves
<1>9. CASE r.kind = "execution"
  BY <1>1, <1>9, RuleOf DEF References, ExecutionRule, Resolves
<1> QED
  BY <1>2, <1>3, <1>4, <1>5, <1>6, <1>7, <1>8, <1>9 DEF Kinds

\* What is left either has a parent outside or lost a root.
LEMMA Noticed == GraphIInv => RemovalIsNoticed
<1> SUFFICES ASSUME GraphIInv, Accepted, NEW r \in Members, Valid([bundle.payload EXCEPT !.records = @ \ {r}])
             PROVE  FALSE
  BY DEF RemovalIsNoticed
<1> DEFINE p == bundle.payload
           left == [p EXCEPT !.records = @ \ {r}]
<1>1. Valid(p) /\ p.records = Members /\ Members \subseteq built /\ p = Payload(Members, p.run)
  BY AcceptedIsValid DEF Members
<1>2. left.records = Members \ {r} /\ left.roots = p.roots
  BY <1>1 DEF Payload
<1>3. Valid(left)
  OBVIOUS
<1> HIDE DEF p, left
<1>4. CASE r \in p.roots
  BY <1>2, <1>3, <1>4 DEF Valid, RootsComplete
<1>5. CASE r \notin p.roots
  <2>1. PICK q \in Members : r \in q.parents
    BY <1>1, <1>5 DEF Valid, RootsComplete
  <2>2. q # r
    BY <1>1, <2>1 DEF GraphIInv, BuiltOnBuilt
  <2> QED
    BY <1>2, <1>3, <2>1, <2>2 DEF Valid
<1> QED
  BY <1>4, <1>5

\* The rules that the helpers follow and those that the validator asks for are the same.
LEMMA Assembles == GraphIInv => HelpersAssemble
<1> SUFFICES ASSUME GraphIInv, bundle # None, ~byHand,
                    \A r \in Members : r.parents \union References(r) \subseteq Members,
                    OfKind(Members, {"run"}) = {bundle.payload.run},
                    TimesAgree(Members), \A r \in OfKind(Members, {"execution"}) : r.complete
             PROVE  bundle.accepted
  BY DEF HelpersAssemble
<1> DEFINE p == bundle.payload
<1>1. /\ Members \subseteq built /\ p.records = Members /\ p = Payload(Members, p.run)
      /\ bundle.accepted = Valid(p)
  <2>1. PICK rs \in SUBSET built, run \in built :
            bundle.payload = Payload(rs, run) /\ bundle.accepted = Valid(Payload(rs, run))
    BY DEF GraphIInv, AssembledOfBuilt
  <2>2. bundle.payload.records = rs /\ bundle.payload.run = run
    BY <2>1 DEF Payload
  <2> QED
    BY <2>1, <2>2 DEF Members
<1>2. RootsComplete(p) /\ SingleRun(p) /\ p.records # {}
  <2>1. p.records = Members /\ p.roots = {r \in Members : \A q \in Members : r \notin q.parents}
    BY <1>1 DEF Payload
  <2> QED
    BY <2>1 DEF RootsComplete, SingleRun, OfKind
<1> HIDE DEF p
<1>3. ASSUME NEW r \in Members PROVE KindRule(Members, r) /\ (r.kind \in {"evidence", "policy"} => r.bound)
  <2>1. HelperMade(r) /\ r.kind \in Kinds /\ r.parents \subseteq Members /\ References(r) \subseteq Members
    BY <1>1 DEF GraphIInv, BuiltOnBuilt
  <2>2. CASE r.kind = "principal"
    BY <2>1, <2>2 DEF KindRule, HelperMade
  <2>3. CASE r.kind = "agent"
    BY <2>1, <2>3 DEF KindRule, HelperMade, AgentRule, Resolves
  <2>4. CASE r.kind = "mandate"
    <3>1. InOrder(r)
      BY <2>4 DEF TimesAgree, OfKind
    <3> QED
      BY <2>1, <2>4, <3>1 DEF KindRule, HelperMade, MandateRule, Resolves
  <2>5. CASE r.kind = "run"
    <3>1. Within(r.started, r.mandate)
      BY <2>5 DEF TimesAgree, OfKind
    <3> QED
      BY <2>1, <2>5, <3>1 DEF KindRule, HelperMade, RunRule, Resolves
  <2>6. CASE r.kind = "evidence"
    BY <2>1, <2>6 DEF KindRule, HelperMade, EvidenceRule, Resolves
  <2>7. CASE r.kind = "policy"
    <3>1. InOrder(r)
      BY <2>7 DEF TimesAgree, OfKind
    <3> QED
      BY <2>1, <2>7, <3>1 DEF KindRule, HelperMade, PolicyRule
  <2>8. CASE r.kind = "decision"
    <3>1. Within(r.at, r.policy)
      BY <2>8 DEF TimesAgree, OfKind
    <3>2. {r.run, r.agent, r.policy} \union r.evidence \subseteq Members
      BY <2>1, <2>8 DEF References
    <3>3. DecisionRule(Members, r)
      BY <2>1, <2>8, <3>1, <3>2 DEF HelperMade, DecisionRule, Resolves
    <3> QED
      BY <2>8, <3>3 DEF KindRule
  <2>9. CASE r.kind = "execution"
    <3>1. r.complete
      BY <2>9 DEF OfKind
    <3> QED
      BY <2>1, <2>9, <3>1 DEF KindRule, HelperMade, ExecutionRule, Resolves
  <2> QED
    BY <2>1, <2>2, <2>3, <2>4, <2>5, <2>6, <2>7, <2>8, <2>9 DEF Kinds
<1>4. Valid(p)
  <2>1. \A r \in OfKind(p.records, {"evidence", "policy"}) : r.bound
    BY <1>1, <1>3 DEF OfKind
  <2> QED
    BY <1>1, <1>2, <1>3, <2>1 DEF Valid
<1> QED
  BY <1>1, <1>4

\* However its records were built, an accepted execution rests on a decision on evidence
\* and a policy, in a run under a mandate, all in the bundle (graph.ts).
THEOREM AuthorityChainHolds == GraphSpec => []AuthorityChain
BY GraphInvariance, Chains, PTL

\* Nothing can be taken out of an accepted bundle unnoticed (graph.ts).
THEOREM RemovalIsNoticedHolds == GraphSpec => []RemovalIsNoticed
BY GraphInvariance, Noticed, PTL

\* Bundles of what the helpers build are accepted, and whatever is accepted hangs together
\* and is all there, for any number of records (records.ts, graph.ts).
THEOREM AcceptedHangsTogetherHolds == GraphSpec => []AcceptedHangsTogether
<1>1. GraphIInv => AcceptedHangsTogether
  BY GraphTypes, Assembles, Chains, Walked, Noticed DEF AcceptedHangsTogether
<1> QED
  BY <1>1, GraphInvariance, PTL

----------------------------------------------------------------------------
(* LockTranscript: the inductive invariant.                                *)

Steps == [message : Messages, accepted : BOOLEAN]

Replayed ==
    /\ state = NoContract \/ state \in Contracts
    /\ steps \in Seq(Steps)
    /\ handed \in Nat
    /\ result \in {"reading", "thrown", "returned"} /\ (result = "returned" => state # NoContract)

LockIInv == Replayed /\ PartiesSaidSo /\ AcceptedLeadToStatus /\ NothingIsDropped

----------------------------------------------------------------------------
(* One entry.                                                              *)

LEMMA FrameTypes ==
    ASSUME NEW m \in Messages
    PROVE  m.did \in Dids /\ m.by \in Dids /\ m.frame.from \in Dids /\ m.frame.to \in Dids
BY DEF Messages, Frames

\* Recording a message keeps what was said, and adds what it says.
LEMMA Recorded ==
    ASSUME steps \in Seq(Steps), NEW m \in Messages, NEW a \in BOOLEAN,
           Record(m, a)
    PROVE  /\ steps' \in Seq(Steps) /\ Len(steps') = Len(steps) + 1
           /\ \A d, t : Said(d, t) => Said(d, t)'
           /\ Attributed(m) => Said(m.frame.from, m.frame.type)'
<1>1. [message |-> m, accepted |-> a] \in Steps
  BY DEF Steps
<1>2. /\ steps' \in Seq(Steps) /\ Len(steps') = Len(steps) + 1 /\ Len(steps) \in Nat
      /\ \A i \in 1 .. Len(steps) : steps'[i] = steps[i]
      /\ steps'[Len(steps) + 1] = [message |-> m, accepted |-> a]
      /\ DOMAIN steps' = 1 .. Len(steps) + 1 /\ DOMAIN steps = 1 .. Len(steps)
  BY <1>1 DEF Record
<1>3. ASSUME NEW d, NEW t, Said(d, t) PROVE Said(d, t)'
  <2>1. PICK i \in DOMAIN steps : LET n == steps[i].message IN
            n.by = d /\ n.did = d /\ n.frame.from = d /\ n.frame.type = t
    BY <1>3 DEF Said
  <2>2. i \in DOMAIN steps' /\ steps'[i] = steps[i]
    BY <1>2
  <2> QED
    BY <2>1, <2>2 DEF Said
<1>4. ASSUME Attributed(m) PROVE Said(m.frame.from, m.frame.type)'
  <2>1. m.by = m.frame.from /\ m.did = m.frame.from
    BY <1>4 DEF Attributed, Transported
  <2>2. Len(steps) + 1 \in DOMAIN steps' /\ steps'[Len(steps) + 1].message = m
    BY <1>2
  <2> QED
    BY <2>1, <2>2 DEF Said
<1> QED
  BY <1>2, <1>3, <1>4

\* What the state machine may do with a contract.
LEMMA AdvanceProps ==
    ASSUME NEW c \in Contracts, NEW f \in Frames, NEW at, NEW d, d = Advance(c, f, at), d # NoContract
    PROVE  /\ d \in Contracts /\ d.payer = c.payer /\ c.status \notin Terminal
           /\ \/ d.status = "accepted" /\ c.status = "proposed" /\ f.type = "accept" /\ d.payee = f.from
              \/ /\ d.status = "locked" /\ c.status = "accepted" /\ f.type = "lock" /\ f.from = c.payer
                 /\ d.payee = c.payee
              \/ /\ d.status = "claimed" /\ c.status = "locked" /\ f.type = "reveal" /\ f.from = c.payee
                 /\ d.payee = c.payee
              \/ /\ d.status = "refunded" /\ c.status = "locked" /\ f.type = "refund" /\ f.from = c.payer
                 /\ d.payee = c.payee
              \/ d.status = "cancelled" /\ c.status \in {"proposed", "accepted"} /\ f.type = "cancel"
<1>1. /\ c.status \in Statuses /\ c.payer \in Dids /\ c.payee \in Dids \union {NoContract} /\ f.from \in Dids
      /\ f.type \in Types
  BY DEF Contracts, Frames
<1>2. CASE f.type = "accept"
  <2>1. c.status = "proposed" /\ d = [c EXCEPT !.status = "accepted", !.payee = f.from]
    BY <1>2 DEF Advance
  <2> QED
    BY <1>1, <1>2, <2>1 DEF Contracts, Statuses, Terminal
<1>3. CASE f.type = "lock"
  <2>1. c.status = "accepted" /\ f.from = c.payer /\ d = [c EXCEPT !.status = "locked"]
    BY <1>3 DEF Advance
  <2> QED
    BY <1>1, <1>3, <2>1 DEF Contracts, Statuses, Terminal
<1>4. CASE f.type = "reveal"
  <2>1. c.status = "locked" /\ f.from = c.payee /\ d = [c EXCEPT !.status = "claimed"]
    BY <1>4 DEF Advance
  <2> QED
    BY <1>1, <1>4, <2>1 DEF Contracts, Statuses, Terminal
<1>5. CASE f.type = "refund"
  <2>1. c.status = "locked" /\ f.from = c.payer /\ d = [c EXCEPT !.status = "refunded"]
    BY <1>5 DEF Advance
  <2> QED
    BY <1>1, <1>5, <2>1 DEF Contracts, Statuses, Terminal
<1>6. CASE f.type = "cancel"
  <2>1. c.status \in {"proposed", "accepted"} /\ d = [c EXCEPT !.status = "cancelled"]
    BY <1>6 DEF Advance
  <2> QED
    BY <1>1, <1>6, <2>1 DEF Contracts, Statuses, Terminal
<1>7. f.type # "offer"
  BY DEF Advance
<1> QED
  BY <1>1, <1>2, <1>3, <1>4, <1>5, <1>6, <1>7 DEF Types

LEMMA AcceptedIsFinite ==
    ASSUME steps \in Seq(Steps)
    PROVE  IsFiniteSet(LockAccepted) /\ LockAccepted \subseteq 1 .. Len(steps) /\ Len(steps) \in Nat
<1>1. LockAccepted \subseteq 1 .. Len(steps) /\ Len(steps) \in Nat
  BY DEF LockAccepted
<1>2. IsFiniteSet(1 .. Len(steps))
  BY <1>1, FS_Interval
<1> QED
  BY <1>1, <1>2, FS_Subset

\* A step that is rejected leaves the accepted ones as they are.
LEMMA RejectedKeeps ==
    ASSUME steps \in Seq(Steps), NEW m \in Messages, Record(m, FALSE), NEW path, Follows(path)
    PROVE  Follows(path)'
<1> DEFINE n == Len(steps)
<1>1. /\ n \in Nat /\ DOMAIN steps = 1 .. n /\ DOMAIN steps' = 1 .. n + 1
      /\ \A i \in 1 .. n : steps'[i] = steps[i]
      /\ steps'[n + 1].accepted = FALSE
  BY DEF Record, Steps
<1>2. LockAccepted' = LockAccepted
  BY <1>1 DEF LockAccepted
<1>3. \A i : Place(i)' = Place(i)
  BY <1>2 DEF Place
<1>4. \A i \in LockAccepted : steps'[i] = steps[i]
  BY <1>1 DEF LockAccepted
<1> QED
  BY <1>2, <1>3, <1>4 DEF Follows

\* longer is path with one more type at its end.
Extends(longer, path, type) ==
    /\ path \in Seq(Types) /\ longer \in Seq(Types)
    /\ Len(longer) = Len(path) + 1 /\ longer[Len(path) + 1] = type
    /\ \A i \in 1 .. Len(path) : longer[i] = path[i]

\* One that is accepted takes the place after them.
LEMMA AcceptedFollows ==
    ASSUME steps \in Seq(Steps), NEW m \in Messages, Record(m, TRUE), NEW n, n = Len(steps),
           NEW path, NEW longer, Extends(longer, path, m.frame.type), Follows(path)
    PROVE  Follows(longer)'
<1>1. /\ n \in Nat /\ DOMAIN steps = 1 .. n /\ DOMAIN steps' = 1 .. n + 1
      /\ \A i \in 1 .. n : steps'[i] = steps[i]
      /\ steps'[n + 1].accepted = TRUE /\ steps'[n + 1].message = m
  BY DEF Record, Steps
<1>2. IsFiniteSet(LockAccepted) /\ LockAccepted \subseteq 1 .. n
  BY AcceptedIsFinite
<1>3. LockAccepted' = LockAccepted \union {n + 1} /\ n + 1 \notin LockAccepted
  <2>1. \A i : i \in DOMAIN steps' <=> i \in DOMAIN steps \/ i = n + 1
    BY <1>1
  <2> QED
    BY <1>1, <1>2, <2>1 DEF LockAccepted
<1>4. Cardinality(LockAccepted) = Len(path) /\ Len(path) \in Nat /\ Cardinality(LockAccepted') = Len(path) + 1
  <2>1. Cardinality(LockAccepted) = Len(path) /\ Len(path) \in Nat
    BY DEF Follows, Extends
  <2>2. Cardinality(LockAccepted \union {n + 1}) = Cardinality(LockAccepted) + 1
    BY <1>2, <1>3, FS_AddElement
  <2> QED
    BY <1>3, <2>1, <2>2
<1>5. /\ Len(longer) = Len(path) + 1 /\ longer[Len(path) + 1] = m.frame.type
      /\ \A i \in 1 .. Len(path) : longer[i] = path[i]
  BY DEF Extends
<1>6. ASSUME NEW i \in LockAccepted PROVE steps'[i].message.frame.type = longer[Place(i)']
  <2>1. i \in 1 .. n /\ steps'[i] = steps[i]
    BY <1>1, <1>2
  <2>2. {j \in LockAccepted' : j <= i} = {j \in LockAccepted : j <= i}
    BY <1>1, <1>3, <2>1
  <2>3. Place(i)' = Place(i)
    BY <2>2 DEF Place
  <2>4. Place(i) \in 1 .. Len(path)
    <3> DEFINE upto == {j \in LockAccepted : j <= i}
    <3>1. upto \subseteq LockAccepted /\ i \in upto
      BY <1>1, <2>1
    <3>2. IsFiniteSet(upto) /\ Cardinality(upto) <= Len(path)
      BY <1>2, <1>4, <3>1, FS_Subset
    <3>3. Cardinality(upto) \in Nat /\ Cardinality(upto) # 0
      BY <3>1, <3>2, FS_CardinalityType, FS_EmptySet
    <3> QED
      BY <1>4, <3>2, <3>3 DEF Place
  <2> QED
    BY <1>5, <2>1, <2>3, <2>4 DEF Follows
<1>7. steps'[n + 1].message.frame.type = longer[Place(n + 1)']
  <2>1. {j \in LockAccepted \union {n + 1} : j <= n + 1} = LockAccepted \union {n + 1}
    <3>1. \A j \in LockAccepted \union {n + 1} : j <= n + 1
      BY <1>1, <1>2
    <3> QED
      BY <3>1
  <2>2. Place(n + 1)' = Cardinality(LockAccepted')
    BY <1>3, <2>1 DEF Place
  <2>3. Place(n + 1)' = Len(path) + 1
    BY <1>4, <2>2
  <2> QED
    BY <1>1, <1>5, <2>3
<1>8. \A i \in LockAccepted' : steps'[i].message.frame.type = longer[Place(i)']
  BY <1>3, <1>6, <1>7
<1> QED
  BY <1>4, <1>5, <1>8 DEF Follows

\* The ways to a status are the ways to the one before it, with what the machine
\* accepts there at their end.
Leads(before, type, after) ==
    \A path \in Path[before] : \E longer \in Path[after] : Extends(longer, path, type)

LEMMA Paths ==
    /\ Leads("proposed", "accept", "accepted") /\ Leads("accepted", "lock", "locked")
    /\ Leads("locked", "reveal", "claimed") /\ Leads("locked", "refund", "refunded")
    /\ Leads("proposed", "cancel", "cancelled") /\ Leads("accepted", "cancel", "cancelled")
<1>1. /\ Path["proposed"] = {<<"offer">>} /\ Path["accepted"] = {<<"offer", "accept">>}
      /\ Path["locked"] = {<<"offer", "accept", "lock">>}
      /\ Path["claimed"] = {<<"offer", "accept", "lock", "reveal">>}
      /\ Path["refunded"] = {<<"offer", "accept", "lock", "refund">>}
      /\ Path["cancelled"] = {<<"offer", "cancel">>, <<"offer", "accept", "cancel">>}
  BY DEF Path
<1>2. \A x, y \in Types : Extends(<<x, y>>, <<x>>, y)
  BY DEF Extends
<1>3. \A x, y, z \in Types : Extends(<<x, y, z>>, <<x, y>>, z)
  BY DEF Extends
<1>4. \A x, y, z, w \in Types : Extends(<<x, y, z, w>>, <<x, y, z>>, w)
  BY DEF Extends
<1>5. {"offer", "accept", "lock", "reveal", "refund", "cancel"} \subseteq Types
  BY DEF Types
<1>6. Leads("proposed", "accept", "accepted") /\ Leads("proposed", "cancel", "cancelled")
  BY <1>1, <1>2, <1>5 DEF Leads
<1>7. Leads("accepted", "lock", "locked") /\ Leads("accepted", "cancel", "cancelled")
  BY <1>1, <1>3, <1>5 DEF Leads
<1>8. Leads("locked", "reveal", "claimed") /\ Leads("locked", "refund", "refunded")
  BY <1>1, <1>4, <1>5 DEF Leads
<1> QED
  BY <1>6, <1>7, <1>8

\* The first offer opens a contract, and is the first accepted step.
LEMMA OfferFollows ==
    ASSUME steps = <<>>, NEW m \in Messages, m.frame.type = "offer", Record(m, TRUE)
    PROVE  Follows(<<"offer">>)'
<1>1. steps \in Seq(Steps) /\ LockAccepted = {}
  BY DEF LockAccepted
<1>2. Follows(<<>>)
  BY <1>1, FS_EmptySet DEF Follows
<1>3. Extends(<<"offer">>, <<>>, m.frame.type)
  BY DEF Extends, Types
<1>4. PICK n : n = Len(steps)
  OBVIOUS
<1> QED
  BY <1>1, <1>2, <1>3, <1>4, AcceptedFollows

----------------------------------------------------------------------------
(* The invariant.                                                          *)

LEMMA ReplayUnchanged ==
    ASSUME UNCHANGED <<state, steps>>, AcceptedLeadToStatus PROVE AcceptedLeadToStatus'
<1>1. LockAccepted' = LockAccepted
  BY DEF LockAccepted
<1>2. \A i : Place(i)' = Place(i)
  BY <1>1 DEF Place
<1>3. \A path : Follows(path) => Follows(path)'
  BY <1>1, <1>2 DEF Follows
<1> QED
  BY <1>3 DEF AcceptedLeadToStatus

LEMMA OfferKeeps ==
    ASSUME LockIInv, NEW m \in Messages, Attributed(m), result = "reading", handed' = handed + 1,
           m.frame.type = "offer", Offer(m)
    PROVE  LockIInv'
<1>1. CASE state # NoContract
  BY <1>1 DEF Offer, Throw, LockIInv, Replayed, PartiesSaidSo, NothingIsDropped, Said, Status,
              AcceptedLeadToStatus, Follows, Place, LockAccepted
<1>2. CASE state = NoContract
  <2>1. /\ state' = [status |-> "proposed", payer |-> m.frame.from, payee |-> NoContract]
        /\ Record(m, TRUE) /\ UNCHANGED result
    BY <1>2 DEF Offer, Open
  <2>2. steps' \in Seq(Steps) /\ Len(steps') = Len(steps) + 1 /\ Said(m.frame.from, "offer")'
    BY <2>1, Recorded DEF LockIInv, Replayed
  <2>3. Replayed'
    BY <2>1, <2>2, FrameTypes DEF LockIInv, Replayed, Contracts, Statuses
  <2>4. state' # NoContract => state'.status = "proposed" /\ state'.payer = m.frame.from
    BY <2>1
  <2>5. Status' \in {NoContract, "proposed"}
    BY <2>4 DEF Status
  <2>6. PartiesSaidSo'
    BY <2>2, <2>4, <2>5, NoContractAssumption DEF PartiesSaidSo, Status, Statuses, Terminal
  <2>7. NothingIsDropped'
    BY <2>1, <2>2 DEF LockIInv, NothingIsDropped
  <2>8. AcceptedLeadToStatus'
    <3>1. Follows(<<"offer">>)'
      <4>1. steps = <<>>
        BY <1>2 DEF LockIInv, AcceptedLeadToStatus
      <4>2. Record(m, TRUE)
        BY <2>1
      <4> QED
        BY <4>1, <4>2, OfferFollows, Zenon
    <3>2. state' # NoContract /\ state'.status = "proposed"
      <4>1. state' \in Contracts /\ state'.status = "proposed"
        BY <2>1, FrameTypes DEF Contracts, Statuses
      <4> QED
        BY <4>1, NoContractAssumption
    <3>3. <<"offer">> \in Path["proposed"]
      BY DEF Path
    <3> QED
      BY <3>1, <3>2, <3>3 DEF AcceptedLeadToStatus
  <2> QED
    BY <2>3, <2>6, <2>7, <2>8 DEF LockIInv
<1> QED
  BY <1>1, <1>2

LEMMA ApplyKeeps ==
    ASSUME LockIInv, NEW m \in Messages, NEW at, Attributed(m), result = "reading",
           handed' = handed + 1, state # NoContract, Apply(m, at), UNCHANGED result
    PROVE  LockIInv'
<1> DEFINE c == Advance(state, m.frame, at)
<1>1. state' = (IF c = NoContract THEN state ELSE c) /\ Record(m, c # NoContract)
  BY DEF Apply
<1>2. /\ steps' \in Seq(Steps) /\ Len(steps') = Len(steps) + 1
      /\ \A d, t : Said(d, t) => Said(d, t)'
      /\ Said(m.frame.from, m.frame.type)'
  BY <1>1, Recorded DEF LockIInv, Replayed
<1>3. NothingIsDropped'
  BY <1>2 DEF LockIInv, NothingIsDropped
<1>9. PICK path \in Path[state.status] : Follows(path)
  BY DEF LockIInv, AcceptedLeadToStatus
<1>4. CASE c = NoContract
  <2>1. state' = state /\ Record(m, FALSE)
    BY <1>1, <1>4
  <2>2. Follows(path)'
    BY <1>9, <2>1, RejectedKeeps DEF LockIInv, Replayed
  <2>3. AcceptedLeadToStatus'
    BY <1>9, <2>1, <2>2 DEF AcceptedLeadToStatus
  <2> QED
    BY <1>2, <1>3, <2>1, <2>3 DEF LockIInv, Replayed, PartiesSaidSo, Status
<1>5. CASE c # NoContract
  <2>1. state \in Contracts /\ m.frame \in Frames
    BY DEF LockIInv, Replayed, Messages
  <2>2. /\ c \in Contracts /\ c.payer = state.payer
        /\ \/ c.status = "accepted" /\ state.status = "proposed" /\ m.frame.type = "accept" /\ c.payee = m.frame.from
           \/ /\ c.status = "locked" /\ state.status = "accepted" /\ m.frame.type = "lock" /\ m.frame.from = state.payer
              /\ c.payee = state.payee
           \/ /\ c.status = "claimed" /\ state.status = "locked" /\ m.frame.type = "reveal" /\ m.frame.from = state.payee
              /\ c.payee = state.payee
           \/ /\ c.status = "refunded" /\ state.status = "locked" /\ m.frame.type = "refund" /\ m.frame.from = state.payer
              /\ c.payee = state.payee
           \/ c.status = "cancelled" /\ state.status \in {"proposed", "accepted"} /\ m.frame.type = "cancel"
    BY <1>5, <2>1, AdvanceProps
  <2>3. state' = c
    BY <1>1, <1>5
  <2> HIDE DEF c
  <2>4. Replayed'
    BY <1>2, <1>5, <2>2, <2>3 DEF LockIInv, Replayed
  <2>5. state' # NoContract /\ Status' = c.status /\ Status = state.status /\ Status # NoContract
    BY <1>5, <2>1, <2>3, NoContractAssumption DEF Status, Contracts
  <2>6. PartiesSaidSo'
    BY <1>2, <2>2, <2>3, <2>5 DEF LockIInv, PartiesSaidSo
  <2>7. AcceptedLeadToStatus'
    <3>1. Record(m, TRUE) /\ steps \in Seq(Steps)
      BY <1>1, <1>5 DEF c, LockIInv, Replayed
    <3>2. Leads(state.status, m.frame.type, c.status)
      BY <2>2, Paths
    <3>3. PICK longer \in Path[c.status] : Extends(longer, path, m.frame.type)
      BY <1>9, <3>2 DEF Leads
    <3>4. PICK n : n = Len(steps)
      OBVIOUS
    <3>5. Follows(longer)'
      BY <1>9, <3>1, <3>3, <3>4, AcceptedFollows
    <3> QED
      BY <2>3, <2>5, <3>3, <3>5 DEF AcceptedLeadToStatus
  <2> QED
    BY <1>3, <2>4, <2>6, <2>7 DEF LockIInv
<1> QED
  BY <1>4, <1>5

LEMMA ReadKeeps == ASSUME LockIInv, NEW m \in Messages, NEW at, Read(m, at) PROVE LockIInv'
<1>1. CASE Throw
  BY <1>1 DEF Read, Throw, LockIInv, Replayed, PartiesSaidSo, NothingIsDropped, Said, Status,
              AcceptedLeadToStatus, Follows, Place, LockAccepted
<1>2. CASE Attributed(m) /\ m.frame.type = "offer"
  BY <1>2, OfferKeeps DEF Read
<1>3. CASE Attributed(m) /\ state # NoContract /\ Apply(m, at) /\ UNCHANGED result
  BY <1>3, ApplyKeeps DEF Read
<1> QED
  BY <1>1, <1>2, <1>3 DEF Read

LEMMA LockInitIInv == LockInit => LockIInv
BY NoContractAssumption DEF LockInit, LockIInv, Replayed, PartiesSaidSo, AcceptedLeadToStatus, NothingIsDropped,
   Status, Statuses, Terminal

LEMMA LockNextIInv == LockIInv /\ [LockNext]_lockVars => LockIInv'
<1> SUFFICES ASSUME LockIInv, [LockNext]_lockVars PROVE LockIInv'
  OBVIOUS
<1>1. CASE LockFinish \/ UNCHANGED lockVars
  <2>1. /\ UNCHANGED <<state, steps, handed>>
        /\ \/ result' = result
           \/ result = "reading" /\ result' = IF state = NoContract THEN "thrown" ELSE "returned"
    BY <1>1 DEF LockFinish, lockVars
  <2>2. Replayed' /\ PartiesSaidSo'
    BY <2>1 DEF LockIInv, Replayed, PartiesSaidSo, Said, Status
  <2>3. NothingIsDropped'
    BY <2>1 DEF LockIInv, NothingIsDropped
  <2>4. AcceptedLeadToStatus'
    BY <2>1, ReplayUnchanged DEF LockIInv
  <2> QED
    BY <2>2, <2>3, <2>4 DEF LockIInv
<1>2. CASE \E m \in Messages, at \in 1 .. MaxTime : Read(m, at)
  BY <1>2, ReadKeeps
<1> QED
  BY <1>1, <1>2 DEF LockNext

LEMMA LockInvariance == LockSpec => []LockIInv
BY LockInitIInv, LockNextIInv, PTL DEF LockSpec

\* Whatever is read, the replay stays within its types, and a transcript that opened no
\* contract is never returned.
THEOREM LockTypeCorrect == LockSpec => []LockTypeOK
<1>1. LockIInv => LockTypeOK
  <2> SUFFICES ASSUME LockIInv PROVE LockTypeOK
    OBVIOUS
  <2>1. \A i \in DOMAIN steps : steps[i] \in Steps
    BY DEF LockIInv, Replayed
  <2> QED
    BY <2>1 DEF LockTypeOK, LockIInv, Replayed, Contracts, Steps
<1> QED
  BY <1>1, LockInvariance, PTL

\* A contract has only the status its parties' own signed words gave it (tclk.ts).
THEOREM PartiesSaidSoHolds == LockSpec => []PartiesSaidSo
BY LockInvariance, PTL DEF LockIInv

\* Every entry a returned transcript was made of has its step (tclk.ts).
THEOREM NothingIsDroppedHolds == LockSpec => []NothingIsDropped
BY LockInvariance, PTL DEF LockIInv

\* No entry, of whoever and at whatever time, changes a contract that has ended.
THEOREM OutcomeIsFinalHolds == LockSpec => OutcomeIsFinal
<1>1. LockIInv /\ [LockNext]_lockVars => [(Status \in Terminal) => state' = state]_lockVars
  <2> SUFFICES ASSUME LockIInv, LockNext, Status \in Terminal PROVE state' = state
    OBVIOUS
  <2>1. state # NoContract /\ state \in Contracts /\ state.status \in Terminal
    BY NoContractAssumption DEF Status, Statuses, LockIInv, Replayed
  <2>2. CASE LockFinish
    BY <2>2 DEF LockFinish
  <2>3. ASSUME NEW m \in Messages, NEW at \in 1 .. MaxTime, Read(m, at) PROVE state' = state
    <3>1. Throw \/ Apply(m, at)
      BY <2>1, <2>3 DEF Read, Offer
    <3>2. m.frame \in Frames
      BY DEF Messages
    <3>3. Advance(state, m.frame, at) = NoContract
      BY <2>1, <3>2, AdvanceProps
    <3> QED
      BY <3>1, <3>3 DEF Throw, Apply
  <2> QED
    BY <2>2, <2>3 DEF LockNext
<1> QED
  BY <1>1, LockInvariance, PTL DEF LockSpec, OutcomeIsFinal
\* The evidence of a transcript is what the parties said, in the order they said it, with
\* what became of every entry read, and the outcome it states is final (tclk.ts).
THEOREM TranscriptIsSaidHolds == LockSpec => TranscriptIsSaid
BY LockTypeCorrect, LockInvariance, OutcomeIsFinalHolds, PTL DEF TranscriptIsSaid, LockIInv
=============================================================================
