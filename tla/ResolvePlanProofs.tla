------------------------- MODULE ResolvePlanProofs -------------------------
(* Proofs about ResolvePlan, for every index and every request.            *)
EXTENDS ResolvePlan, SequenceTheorems, FiniteSetTheorems, TLAPS

ShapeOK ==
    /\ deps \in [Packages -> Lists]
    /\ root \in Names
    /\ state \in [Packages -> {"unvisited", "visiting", "done"}]
    /\ stack \in Seq(Frame)
    /\ plan \in Seq(Packages)
    /\ result \in {"none", "ok", "missing", "cycle"}

Placed == {plan[j] : j \in 1..Len(plan)}
Planned(p) == p \in Placed
Needs(p, d) == d \in Promise!DependsOn(deps, p)

\* The stack is a path of the dependency graph from the root, without a
\* repetition, and every dependency a frame is past is in the plan.
Distinct == \A k, l \in 1..Len(stack) : stack[k].pkg = stack[l].pkg => k = l
Marked == \A p \in Packages : state[p] = "visiting"
              <=> \E k \in 1..Len(stack) : stack[k].pkg = p
Linked == \A k \in 1..(Len(stack) - 1) :
              /\ stack[k].next <= Len(deps[stack[k].pkg])
              /\ deps[stack[k].pkg][stack[k].next] = stack[k + 1].pkg
Handled == \A k \in 1..Len(stack) :
              /\ stack[k].next <= Len(deps[stack[k].pkg]) + 1
              /\ \A m \in 1..(stack[k].next - 1) :
                     Planned(deps[stack[k].pkg][m])
Rooted == Len(stack) > 0 => stack[1].pkg = root

StackInv == Distinct /\ Marked /\ Linked /\ Handled /\ Rooted

\* The plan is in order, holds the packages that are done, and holds nothing
\* that neither a later package of it nor a frame needs.
DonePlanned == \A p \in Packages : state[p] = "done" <=> Planned(p)
Needed == \A i \in 1..Len(plan) :
              \/ \E j \in (i + 1)..Len(plan) : Needs(plan[j], plan[i])
              \/ \E k \in 1..Len(stack) : Needs(stack[k].pkg, plan[i])
              \/ i = Len(plan) /\ plan[i] = root
EndsInRoot == result = "ok" =>
              Len(stack) = 0 /\ Len(plan) > 0 /\ plan[Len(plan)] = root
NotBegun == Len(stack) = 0 /\ result = "none" => Len(plan) = 0

PlanInv == PlanInOrder /\ DonePlanned /\ Needed /\ EndsInRoot /\ NotBegun

\* Any installation order there is holds the packages on the stack, each
\* before the one below it; a refusal means there is none.
OrdersHold == \A p \in Promise!Orders : Promise!IsPlan(deps, root, p) =>
              \A k \in 1..Len(stack) :
                  \E i \in 1..Len(p) : p[i] = stack[k].pkg
OrdersFollow == \A p \in Promise!Orders : Promise!IsPlan(deps, root, p) =>
              \A k, l \in 1..Len(stack) : k < l =>
                  \A i, j \in 1..Len(p) :
                      p[i] = stack[k].pkg /\ p[j] = stack[l].pkg => j < i
RefusedRightly ==
    result \in {"missing", "cycle"} => ~Promise!Resolvable(deps, root)

RefusalInv == OrdersHold /\ OrdersFollow /\ RefusedRightly

IInv == ShapeOK /\ StackInv /\ PlanInv /\ RefusalInv

----------------------------------------------------------------------------
(* Dependency lists, frames and room in the plan.                          *)

\* A dependency the active frame is at is a name.
LEMMA ListType ==
    ASSUME ShapeOK, NEW p \in Packages
    PROVE  /\ deps[p] \in Seq(Names)
           /\ \A i \in 1..Len(deps[p]) : deps[p][i] \in Names
           /\ Len(deps[p]) \in Nat
           /\ \A d : Needs(p, d) <=>
                  \E k \in 1..Len(deps[p]) : deps[p][k] = d
  <1>0. deps[p] \in Lists
    BY DEF ShapeOK
  <1>1. PICK n \in 0..MaxDeps : deps[p] \in [1..n -> Names]
    BY <1>0 DEF Lists
  <1>2. deps[p] \in Seq(Names) /\ Len(deps[p]) = n /\ n \in Nat
    BY <1>1, IsASeq, IndexAssumption
  <1> QED
    BY <1>1, <1>2 DEF Promise!DependsOn, Needs

\* The top of a stack that is not empty is a frame.
LEMMA StackType ==
    ASSUME ShapeOK
    PROVE  /\ Len(stack) \in Nat
           /\ Len(plan) \in Nat
           /\ \A k \in 1..Len(stack) : /\ stack[k].pkg \in Packages
                                       /\ stack[k].next \in Nat \ {0}
           /\ \A k \in 1..Len(plan) : plan[k] \in Packages
           /\ stack # <<>> => /\ Len(stack) \in 1..Len(stack)
                              /\ Top = stack[Len(stack)]
                              /\ Top.pkg \in Packages
                              /\ Top.next \in Nat \ {0}
  <1>1. \A k \in 1..Len(stack) : stack[k] \in Frame
    BY DEF ShapeOK
  <1>2. stack # <<>> => Len(stack) \in 1..Len(stack)
    BY EmptySeq DEF ShapeOK
  <1> QED
    BY <1>1, <1>2 DEF ShapeOK, Frame, Top

\* Advancing the active frame changes its position and nothing else.
LEMMA AdvancedType ==
    ASSUME NEW s \in Seq(Frame), s # <<>>
    PROVE  /\ Advanced(s) \in Seq(Frame)
           /\ Len(Advanced(s)) = Len(s)
           /\ \A k \in 1..Len(s) : Advanced(s)[k].pkg = s[k].pkg
           /\ \A k \in 1..(Len(s) - 1) : Advanced(s)[k] = s[k]
           /\ Advanced(s)[Len(s)].next = s[Len(s)].next + 1
           /\ Advanced(s) # <<>>
  <1> DEFINE n == Len(s)
             f == [s[n] EXCEPT !.next = @ + 1]
  <1>1. n \in 1..Len(s) /\ n \in Nat /\ s[n] \in Frame
    BY EmptySeq
  <1>2. f \in Frame /\ f.pkg = s[n].pkg /\ f.next = s[n].next + 1
    BY <1>1 DEF Frame
  <1>3. Advanced(s) = [s EXCEPT ![n] = f]
    BY DEF Advanced
  <1>4. /\ Advanced(s) \in Seq(Frame)
        /\ Len(Advanced(s)) = n
        /\ \A k \in 1..n : Advanced(s)[k] = IF k = n THEN f ELSE s[k]
    BY <1>1, <1>2, <1>3, ExceptSeq
  <1>5. Advanced(s) # <<>>
    BY <1>1, <1>4, EmptySeq
  <1> HIDE DEF f
  <1>6. \A k \in 1..n : Advanced(s)[k].pkg = s[k].pkg
    BY <1>1, <1>2, <1>4
  <1>7. \A k \in 1..(n - 1) : Advanced(s)[k] = s[k]
    BY <1>1, <1>4
  <1>8. Advanced(s)[n].next = s[n].next + 1
    BY <1>1, <1>2, <1>4
  <1> QED
    BY <1>4, <1>5, <1>6, <1>7, <1>8

\* The stack below the active frame is a stack.
LEMMA PoppedType ==
    ASSUME NEW S, NEW s \in Seq(S), s # <<>>
    PROVE  /\ SubSeq(s, 1, Len(s) - 1) \in Seq(S)
           /\ Len(SubSeq(s, 1, Len(s) - 1)) = Len(s) - 1
           /\ \A k \in 1..(Len(s) - 1) : SubSeq(s, 1, Len(s) - 1)[k] = s[k]
  <1> DEFINE n == Len(s) - 1
  <1>1. n \in Nat /\ n \in Int /\ 1 \in Int
    BY EmptySeq
  <1>2. \A i \in 1..n : s[i] \in S
    BY <1>1
  <1> HIDE DEF n
  <1>3. /\ SubSeq(s, 1, n) \in Seq(S)
        /\ Len(SubSeq(s, 1, n)) = IF 1 <= n THEN n - 1 + 1 ELSE 0
        /\ \A k \in 1..(n - 1 + 1) : SubSeq(s, 1, n)[k] = s[1 + k - 1]
    BY <1>1, <1>2, SubSeqProperties
  <1>4. \A k \in 1..n : SubSeq(s, 1, n)[k] = s[k]
    BY <1>1, <1>3
  <1>5. Len(SubSeq(s, 1, n)) = n
    BY <1>1, <1>3
  <1> QED
    BY <1>3, <1>4, <1>5 DEF n

\* Distinct members of Packages are no more than it has.
LEMMA Room ==
    ASSUME NEW n \in Nat, NEW f \in [1..n -> Packages],
           \A i, j \in 1..n : f[i] = f[j] => i = j
    PROVE  n <= Cardinality(Packages) /\ Cardinality(Packages) \in Nat
  <1>1. IsFiniteSet(1..n) /\ Cardinality(1..n) = n
    BY FS_Interval
  <1>2. Cardinality(Packages) \in Nat
    BY IndexAssumption, FS_CardinalityType
  <1>3. ~(Cardinality(Packages) < n)
    BY <1>1, IndexAssumption, FS_PigeonHole
  <1> QED
    BY <1>2, <1>3

\* A plan without repetitions that lacks a package has room for it.
LEMMA PlanRoom ==
    ASSUME IInv, Visiting
    PROVE  /\ Len(plan) < MaxPackages
           /\ ~Planned(Top.pkg)
           /\ \A p \in Packages : Planned(p) => state[p] # "visiting"
  <1>1. /\ Len(plan) \in Nat /\ Top.pkg \in Packages
        /\ Len(stack) \in 1..Len(stack)
        /\ \A k \in 1..Len(plan) : plan[k] \in Packages
    BY StackType DEF IInv, Visiting
  <1>2. \A p \in Packages : Planned(p) => state[p] # "visiting"
    BY DEF IInv, PlanInv, DonePlanned
  <1>3. state[Top.pkg] = "visiting"
    BY <1>1 DEF IInv, StackInv, Marked, Top
  <1>4. ~Planned(Top.pkg)
    BY <1>1, <1>2, <1>3
  <1> DEFINE n == Len(plan) + 1
             f == [i \in 1..n |-> IF i = n THEN Top.pkg ELSE plan[i]]
  <1>5. n \in Nat /\ f \in [1..n -> Packages]
    BY <1>1
  <1>6. \A i, j \in 1..n : f[i] = f[j] => i = j
    <2>1. \A i \in 1..Len(plan) : plan[i] # Top.pkg
      BY <1>4 DEF Planned, Placed
    <2> QED
      BY <1>1, <2>1 DEF IInv, PlanInv, PlanInOrder
  <1>7. n <= Cardinality(Packages) /\ Cardinality(Packages) \in Nat
    BY <1>5, <1>6, Room
  <1> QED
    BY <1>1, <1>2, <1>4, <1>7, IndexAssumption

----------------------------------------------------------------------------
(* What an installation order for the root says about the stack.           *)

\* An order that holds a package holds what it depends on, earlier.
LEMMA OrderClosed ==
    ASSUME ShapeOK, NEW p, Promise!IsPlan(deps, root, p),
           NEW i \in 1..Len(p), NEW d, Needs(p[i], d)
    PROVE  \E j \in 1..Len(p) : j < i /\ p[j] = d
  <1>1. p \in Seq(Packages) /\ p[i] \in Packages
    BY DEF Promise!IsPlan
  <1>2. d \in Promise!DependsOn(deps, p[i])
    BY <1>1 DEF Needs
  <1>3. PICK j \in 1..(i - 1) : p[j] = d
    BY <1>2 DEF Promise!IsPlan
  <1> QED
    BY <1>1, <1>3

\* An order names every package once.
LEMMA OrderDistinct ==
    ASSUME NEW p, Promise!IsPlan(deps, root, p),
           NEW i \in 1..Len(p), NEW j \in 1..Len(p), p[i] = p[j]
    PROVE  i = j
  BY DEF Promise!IsPlan

----------------------------------------------------------------------------
(* Each action keeps the invariant.                                        *)

\* Finding the requested package, or not, keeps the invariant.
LEMMA StartStep == IInv /\ FindRoot => IInv'
  <1> SUFFICES ASSUME IInv, FindRoot PROVE IInv'
    OBVIOUS
  <1>0. stack = <<>> /\ result = "none" /\ Len(stack) = 0 /\ Len(plan) = 0
    BY EmptySeq DEF FindRoot, IInv, PlanInv, NotBegun
  <1>1. CASE root \in Packages
    <2>1. /\ state' = [state EXCEPT ![root] = "visiting"]
          /\ stack' = Append(stack, [pkg |-> root, next |-> 1])
          /\ UNCHANGED <<deps, root, plan, result>>
      BY <1>1 DEF FindRoot, Enter
    <2>2. [pkg |-> root, next |-> 1] \in Frame
      BY <1>1 DEF Frame
    <2>3. /\ stack' \in Seq(Frame) /\ Len(stack') = 1
          /\ stack'[1] = [pkg |-> root, next |-> 1]
      BY <1>0, <2>1, <2>2, AppendProperties DEF IInv, ShapeOK
    <2>4. ShapeOK'
      BY <2>1, <2>3 DEF IInv, ShapeOK
    <2>5. \A p \in Packages : state[p] = "unvisited"
      BY <1>0 DEF IInv, ShapeOK, StackInv, Marked, PlanInv, DonePlanned, Planned,
             Placed
    <2>6. Len(deps[root]) \in Nat
      BY <1>1, ListType DEF IInv
    <2>7. StackInv'
      BY <1>1, <2>1, <2>3, <2>5, <2>6
         DEF StackInv, Distinct, Marked, Linked, Handled, Rooted, IInv, ShapeOK
    <2>8. PlanInv'
      BY <1>0, <2>1, <2>3, <2>5
         DEF PlanInv, PlanInOrder, DonePlanned, Needed, EndsInRoot, NotBegun,
             Planned, Placed, IInv, ShapeOK
    <2>9. RefusalInv'
      <3>1. ASSUME NEW p, Promise!IsPlan(deps, root, p)
            PROVE  \E i \in 1..Len(p) : p[i] = root
        BY <3>1 DEF Promise!IsPlan
      <3> QED
        BY <1>0, <2>1, <2>3, <3>1
           DEF RefusalInv, OrdersHold, OrdersFollow, RefusedRightly
    <2> QED
      BY <2>4, <2>7, <2>8, <2>9 DEF IInv
  <1>2. CASE root \notin Packages
    <2>1. result' = "missing" /\ UNCHANGED <<deps, root, state, stack, plan>>
      BY <1>2 DEF FindRoot
    <2>2. ~Promise!Resolvable(deps, root)
      BY <1>2 DEF Promise!Resolvable, Promise!IsPlan
    <2> QED
      BY <1>0, <2>1, <2>2
         DEF IInv, ShapeOK, StackInv, Distinct, Marked, Linked, Handled, Rooted,
             PlanInv, PlanInOrder, DonePlanned, Needed, EndsInRoot, NotBegun,
             Planned, Placed, Needs, RefusalInv, OrdersHold, OrdersFollow,
             RefusedRightly
  <1> QED
    BY <1>1, <1>2

\* A refusal keeps it: a name that is missing or a path that closes shows there is no order.
LEMMA RefuseStep == IInv /\ (MissingDep \/ CycleDep) => IInv'
  <1> SUFFICES ASSUME IInv, MissingDep \/ CycleDep PROVE IInv'
    OBVIOUS
  <1> DEFINE n == Len(stack)
  <1>1. /\ UNCHANGED <<deps, root, state, stack, plan, Placed>>
        /\ result' \in {"missing", "cycle"}
        /\ AtDep
    BY DEF MissingDep, CycleDep, Placed
  <1>2. /\ n \in 1..Len(stack) /\ Top.pkg \in Packages /\ n \in Nat
        /\ Top = stack[n] /\ Top.next \in Nat \ {0}
    BY <1>1, StackType DEF IInv, AtDep, Visiting
  <1>3. Needs(Top.pkg, Dep)
    BY <1>1, <1>2, ListType DEF AtDep, IInv, Dep
  <1>4. ASSUME NEW p \in Promise!Orders, Promise!IsPlan(deps, root, p)
        PROVE  FALSE
    <2>1. PICK i \in 1..Len(p) : p[i] = Top.pkg
      BY <1>2, <1>4 DEF IInv, RefusalInv, OrdersHold
    <2>2. PICK j \in 1..Len(p) : j < i /\ p[j] = Dep
      BY <1>3, <1>4, <2>1, OrderClosed DEF IInv
    <2>3. Dep \in Packages
      BY <1>4, <2>2 DEF Promise!IsPlan
    <2>4. CycleDep /\ state[Dep] = "visiting"
      BY <2>3 DEF MissingDep, CycleDep
    <2>5. PICK k \in 1..Len(stack) : stack[k].pkg = Dep
      BY <2>3, <2>4 DEF IInv, StackInv, Marked
    <2>6. i \in Nat /\ j \in Nat
      BY <1>4 DEF Promise!IsPlan
    <2>7. CASE k = n
      BY <1>2, <1>4, <2>1, <2>2, <2>5, <2>6, <2>7, OrderDistinct
    <2>8. CASE k < n
      <3>1. i < j
        BY <1>2, <1>4, <2>1, <2>2, <2>5, <2>8 DEF IInv, RefusalInv, OrdersFollow
      <3> QED
        BY <2>2, <2>6, <3>1
    <2> QED
      BY <1>2, <2>7, <2>8
  <1>5. ~Promise!Resolvable(deps, root)
    BY <1>4 DEF Promise!Resolvable
  <1>6. ShapeOK'
    BY <1>1 DEF IInv, ShapeOK
  <1>7. StackInv'
    BY <1>1 DEF IInv, StackInv, Distinct, Marked, Linked, Handled, Rooted,
                Planned
  <1>8. PlanInv'
    BY <1>1, <1>2
       DEF IInv, PlanInv, PlanInOrder, DonePlanned, Needed, EndsInRoot,
           NotBegun, Planned, Needs
  <1>9. RefusalInv'
    BY <1>1, <1>5 DEF IInv, RefusalInv, OrdersHold, OrdersFollow, RefusedRightly
  <1> QED
    BY <1>6, <1>7, <1>8, <1>9 DEF IInv

\* Passing over a package that is done keeps it.
LEMMA HandledStep == IInv /\ HandledDep => IInv'
  <1> SUFFICES ASSUME IInv, HandledDep PROVE IInv'
    OBVIOUS
  <1> DEFINE n == Len(stack)
  <1>1. /\ UNCHANGED <<deps, root, state, plan, result, Placed>>
        /\ stack' = Advanced(stack)
        /\ AtDep /\ stack # <<>> /\ stack \in Seq(Frame) /\ result = "none"
        /\ Dep \in Packages /\ state[Dep] = "done"
    BY DEF HandledDep, AtDep, Visiting, IInv, ShapeOK, Placed
  <1>2. /\ n \in 1..Len(stack) /\ n \in Nat
        /\ Top = stack[n] /\ Top.next \in Nat \ {0} /\ Top.pkg \in Packages
        /\ \A k \in 1..Len(stack) : stack[k].next \in Nat \ {0}
    BY <1>1, StackType DEF IInv
  <1>3. /\ stack' \in Seq(Frame)
        /\ Len(stack') = n
        /\ \A k \in 1..n : stack'[k].pkg = stack[k].pkg
        /\ \A k \in 1..(n - 1) : stack'[k] = stack[k]
        /\ stack'[n].next = Top.next + 1
    BY <1>1, <1>2, AdvancedType
  <1>4. Top.next <= Len(deps[Top.pkg]) /\ Len(deps[Top.pkg]) \in Nat
    BY <1>1, <1>2, ListType DEF AtDep, IInv
  <1>5. ShapeOK'
    BY <1>1, <1>3 DEF IInv, ShapeOK
  <1>6. Planned(Dep)
    BY <1>1 DEF IInv, PlanInv, DonePlanned
  <1>7. StackInv'
    <2>1. Distinct'
      BY <1>3 DEF IInv, StackInv, Distinct
    <2>2. Marked'
      BY <1>1, <1>3 DEF IInv, StackInv, Marked
    <2>3. Linked'
      <3> SUFFICES ASSUME NEW k \in 1..(n - 1)
                   PROVE  /\ stack'[k].next <= Len(deps[stack'[k].pkg])
                          /\ deps[stack'[k].pkg][stack'[k].next]
                                 = stack'[k + 1].pkg
        BY <1>1, <1>3 DEF Linked
      <3>1. k + 1 \in 1..n
        BY <1>2
      <3> QED
        BY <1>3, <3>1 DEF IInv, StackInv, Linked
    <2>4. Handled'
      <3> SUFFICES ASSUME NEW k \in 1..n
                   PROVE  /\ stack'[k].next <= Len(deps[stack'[k].pkg]) + 1
                          /\ \A m \in 1..(stack'[k].next - 1) :
                                 Planned(deps[stack'[k].pkg][m])
        BY <1>1, <1>3 DEF Handled, Planned
      <3>1. /\ stack[k].next <= Len(deps[stack[k].pkg]) + 1
            /\ \A m \in 1..(stack[k].next - 1) :
                   Planned(deps[stack[k].pkg][m])
        BY DEF IInv, StackInv, Handled
      <3>2. CASE k = n
        <4>1. /\ stack'[n].pkg = Top.pkg /\ stack'[n].next = Top.next + 1
              /\ \A m \in 1..(Top.next - 1) : Planned(deps[Top.pkg][m])
              /\ Planned(deps[Top.pkg][Top.next])
          BY <1>2, <1>3, <1>6, <3>1, <3>2 DEF Dep
        <4>2. \A m \in 1..Top.next : Planned(deps[Top.pkg][m])
          BY <1>2, <4>1
        <4> QED
          BY <1>2, <1>4, <3>2, <4>1, <4>2
      <3>3. CASE k \in 1..(n - 1)
        BY <1>3, <3>1, <3>3
      <3> QED
        BY <1>2, <3>2, <3>3
    <2>5. Rooted'
      BY <1>1, <1>2, <1>3 DEF IInv, StackInv, Rooted
    <2> QED
      BY <2>1, <2>2, <2>3, <2>4, <2>5 DEF StackInv
  <1>8. PlanInv'
    <2>1. PlanInOrder' /\ DonePlanned' /\ EndsInRoot' /\ NotBegun'
      BY <1>1, <1>2, <1>3 DEF IInv, PlanInv, PlanInOrder, DonePlanned,
                              EndsInRoot, NotBegun, Planned
    <2>2. Needed'
      <3> SUFFICES ASSUME NEW i \in 1..Len(plan)
                   PROVE  \/ \E j \in (i + 1)..Len(plan) :
                                 Needs(plan[j], plan[i])
                          \/ \E k \in 1..n : Needs(stack'[k].pkg, plan[i])
                          \/ i = Len(plan) /\ plan[i] = root
        BY <1>1, <1>3 DEF Needed, Needs
      <3> QED
        BY <1>3 DEF IInv, PlanInv, Needed
    <2> QED
      BY <2>1, <2>2 DEF PlanInv
  <1>9. RefusalInv'
    BY <1>1, <1>3 DEF IInv, RefusalInv, OrdersHold, OrdersFollow, RefusedRightly
  <1> QED
    BY <1>5, <1>7, <1>8, <1>9 DEF IInv

\* Going down to a package not visited yet keeps it.
LEMMA NewStep == IInv /\ NewDep => IInv'
  <1> SUFFICES ASSUME IInv, NewDep PROVE IInv'
    OBVIOUS
  <1> DEFINE n == Len(stack)
             f == [pkg |-> Dep, next |-> 1]
  <1>1. /\ UNCHANGED <<deps, root, plan, result, Placed>>
        /\ state' = [state EXCEPT ![Dep] = "visiting"]
        /\ stack' = Append(stack, f)
        /\ AtDep /\ stack # <<>> /\ stack \in Seq(Frame) /\ result = "none"
        /\ Dep \in Packages /\ state[Dep] = "unvisited"
    BY DEF NewDep, Enter, AtDep, Visiting, IInv, ShapeOK, Placed
  <1>2. /\ n \in 1..Len(stack) /\ n \in Nat
        /\ Top = stack[n] /\ Top.next \in Nat \ {0} /\ Top.pkg \in Packages
    BY <1>1, StackType DEF IInv
  <1>3. f \in Frame /\ f.pkg = Dep /\ f.next = 1
    BY <1>1 DEF Frame
  <1>4. /\ stack' \in Seq(Frame) /\ Len(stack') = n + 1
        /\ \A k \in 1..n : stack'[k] = stack[k]
        /\ stack'[n + 1] = f
    BY <1>1, <1>3, AppendProperties
  <1>5. Top.next <= Len(deps[Top.pkg]) /\ Len(deps[Dep]) \in Nat
    BY <1>1, <1>2, ListType DEF AtDep, IInv
  <1>6. ShapeOK'
    BY <1>1, <1>4 DEF IInv, ShapeOK
  <1>7. \A k \in 1..n : stack[k].pkg # Dep
    BY <1>1 DEF IInv, StackInv, Marked
  <1> HIDE DEF f
  <1>8. StackInv'
    <2>1. Distinct'
      <3> SUFFICES ASSUME NEW k \in 1..(n + 1), NEW l \in 1..(n + 1),
                          stack'[k].pkg = stack'[l].pkg
                   PROVE  k = l
        BY <1>4 DEF Distinct
      <3>1. CASE k \in 1..n /\ l \in 1..n
        BY <1>4, <3>1 DEF IInv, StackInv, Distinct
      <3>2. CASE k = n + 1 \/ l = n + 1
        BY <1>2, <1>3, <1>4, <1>7, <3>2
      <3> QED
        BY <1>2, <3>1, <3>2
    <2>2. Marked'
      <3> SUFFICES ASSUME NEW p \in Packages
                   PROVE  state'[p] = "visiting"
                              <=> \E k \in 1..(n + 1) : stack'[k].pkg = p
        BY <1>4 DEF Marked
      <3>1. CASE p = Dep
        <4>1. state'[p] = "visiting"
          BY <1>1, <3>1 DEF IInv, ShapeOK
        <4>2. n + 1 \in 1..(n + 1) /\ stack'[n + 1].pkg = p
          BY <1>2, <1>3, <1>4, <3>1
        <4> QED
          BY <4>1, <4>2
      <3>2. CASE p # Dep
        <4>1. state'[p] = state[p]
          BY <1>1, <3>2 DEF IInv, ShapeOK
        <4>2. (\E k \in 1..n : stack[k].pkg = p)
                  <=> \E k \in 1..(n + 1) : stack'[k].pkg = p
          BY <1>2, <1>3, <1>4, <3>2
        <4> QED
          BY <4>1, <4>2 DEF IInv, StackInv, Marked
      <3> QED
        BY <3>1, <3>2
    <2>3. Linked'
      <3> SUFFICES ASSUME NEW k \in 1..n
                   PROVE  /\ stack'[k].next <= Len(deps[stack'[k].pkg])
                          /\ deps[stack'[k].pkg][stack'[k].next]
                                 = stack'[k + 1].pkg
        BY <1>1, <1>2, <1>4 DEF Linked
      <3>1. CASE k = n
        BY <1>2, <1>3, <1>4, <1>5, <3>1 DEF Dep
      <3>2. CASE k \in 1..(n - 1)
        <4>1. k + 1 \in 1..n
          BY <1>2, <3>2
        <4> QED
          BY <1>4, <3>2, <4>1 DEF IInv, StackInv, Linked
      <3> QED
        BY <1>2, <3>1, <3>2
    <2>4. Handled'
      <3> SUFFICES ASSUME NEW k \in 1..(n + 1)
                   PROVE  /\ stack'[k].next <= Len(deps[stack'[k].pkg]) + 1
                          /\ \A m \in 1..(stack'[k].next - 1) :
                                 Planned(deps[stack'[k].pkg][m])
        BY <1>1, <1>4 DEF Handled, Planned
      <3>1. CASE k = n + 1
        BY <1>2, <1>3, <1>4, <1>5, <3>1
      <3>2. CASE k \in 1..n
        BY <1>4, <3>2 DEF IInv, StackInv, Handled
      <3> QED
        BY <1>2, <3>1, <3>2
    <2>5. Rooted'
      BY <1>1, <1>2, <1>4 DEF IInv, StackInv, Rooted
    <2> QED
      BY <2>1, <2>2, <2>3, <2>4, <2>5 DEF StackInv
  <1>9. PlanInv'
    <2>1. ~Planned(Dep)
      BY <1>1 DEF IInv, PlanInv, DonePlanned
    <2>2. DonePlanned'
      <3>1. \A p \in Packages : state'[p] = "done" <=> Planned(p)
        BY <1>1, <2>1 DEF IInv, PlanInv, DonePlanned, ShapeOK
      <3> QED
        BY <1>1, <3>1 DEF DonePlanned, Planned
    <2>3. Needed'
      <3> SUFFICES ASSUME NEW i \in 1..Len(plan)
                   PROVE  \/ \E j \in (i + 1)..Len(plan) :
                                 Needs(plan[j], plan[i])
                          \/ \E k \in 1..(n + 1) :
                                 Needs(stack'[k].pkg, plan[i])
                          \/ i = Len(plan) /\ plan[i] = root
        BY <1>1, <1>4 DEF Needed, Needs
      <3>1. \/ \E j \in (i + 1)..Len(plan) : Needs(plan[j], plan[i])
            \/ \E k \in 1..n : Needs(stack[k].pkg, plan[i])
            \/ i = Len(plan) /\ plan[i] = root
        BY DEF IInv, PlanInv, Needed
      <3>2. ASSUME NEW k \in 1..n, Needs(stack[k].pkg, plan[i])
            PROVE  k \in 1..(n + 1) /\ Needs(stack'[k].pkg, plan[i])
        BY <1>2, <1>4, <3>2
      <3> QED
        BY <3>1, <3>2
    <2>4. PlanInOrder' /\ EndsInRoot' /\ NotBegun'
      BY <1>1, <1>2, <1>4
         DEF IInv, PlanInv, PlanInOrder, EndsInRoot, NotBegun
    <2> QED
      BY <2>2, <2>3, <2>4 DEF PlanInv
  <1>10. RefusalInv'
    <2> SUFFICES ASSUME NEW p \in Promise!Orders,
                        Promise!IsPlan(deps, root, p)
                 PROVE  /\ \A k \in 1..(n + 1) :
                               \E i \in 1..Len(p) : p[i] = stack'[k].pkg
                        /\ \A k, l \in 1..(n + 1) : k < l =>
                               \A i, j \in 1..Len(p) :
                                   p[i] = stack'[k].pkg /\ p[j] = stack'[l].pkg
                                       => j < i
      BY <1>1, <1>4
         DEF RefusalInv, OrdersHold, OrdersFollow, RefusedRightly
    <2>1. Needs(Top.pkg, Dep) /\ Len(p) \in Nat
      BY <1>1, <1>2, ListType DEF AtDep, IInv, Dep, Promise!IsPlan
    <2>2. PICK t \in 1..Len(p) : p[t] = Top.pkg
      BY <1>2 DEF IInv, RefusalInv, OrdersHold
    <2>3. PICK d \in 1..Len(p) : d < t /\ p[d] = Dep
      BY <2>1, <2>2, OrderClosed DEF IInv
    <2>4. ASSUME NEW k \in 1..(n + 1)
          PROVE  \E i \in 1..Len(p) : p[i] = stack'[k].pkg
      <3>1. CASE k = n + 1
        BY <1>3, <1>4, <2>3, <3>1
      <3>2. CASE k \in 1..n
        BY <1>4, <3>2 DEF IInv, RefusalInv, OrdersHold
      <3> QED
        BY <1>2, <3>1, <3>2
    <2>5. ASSUME NEW k \in 1..(n + 1), NEW l \in 1..(n + 1), k < l,
                 NEW i \in 1..Len(p), NEW j \in 1..Len(p),
                 p[i] = stack'[k].pkg, p[j] = stack'[l].pkg
          PROVE  j < i
      <3>1. k \in 1..n /\ p[i] = stack[k].pkg
        BY <1>2, <1>4, <2>5
      <3>2. CASE l \in 1..n
        BY <1>4, <2>5, <3>1, <3>2 DEF IInv, RefusalInv, OrdersFollow
      <3>3. CASE l = n + 1
        <4>1. j = d
          BY <1>3, <1>4, <2>3, <2>5, <3>3, OrderDistinct
        <4>2. CASE k = n
          <5>1. i = t
            BY <1>2, <2>2, <3>1, <4>2, OrderDistinct
          <5> QED
            BY <2>3, <4>1, <5>1
        <4>3. CASE k < n
          <5>1. t < i
            BY <1>2, <2>2, <3>1, <4>3 DEF IInv, RefusalInv, OrdersFollow
          <5> QED
            BY <2>1, <2>3, <4>1, <5>1
        <4> QED
          BY <1>2, <3>1, <4>2, <4>3
      <3> QED
        BY <1>2, <3>2, <3>3
    <2> QED
      BY <2>4, <2>5
  <1> QED
    BY <1>6, <1>8, <1>9, <1>10 DEF IInv

\* Appending the package whose dependencies are handled keeps it.
LEMMA LeaveStep == IInv /\ Leave => IInv'
  <1> SUFFICES ASSUME IInv, Leave PROVE IInv'
    OBVIOUS
  <1> DEFINE n == Len(stack)
             m == Len(plan)
             t == Top.pkg
             below == SubSeq(stack, 1, n - 1)
  <1>1. /\ UNCHANGED <<deps, root>>
        /\ state' = [state EXCEPT ![t] = "done"]
        /\ plan' = Append(plan, t)
        /\ stack' = Advanced(below)
        /\ result' = IF below = <<>> THEN "ok" ELSE "none"
        /\ Visiting /\ Exhausted /\ stack # <<>> /\ stack \in Seq(Frame)
        /\ result = "none" /\ ~Planned(t)
    <2>1. /\ Visiting /\ Exhausted /\ stack # <<>> /\ stack \in Seq(Frame)
          /\ result = "none" /\ ~Planned(t)
      BY PlanRoom DEF Leave, Visiting, IInv, ShapeOK
    <2>2. ~(m >= MaxPackages)
      BY <2>1, PlanRoom, StackType, IndexAssumption DEF IInv
    <2> QED
      BY <2>1, <2>2 DEF Leave
  <1>2. /\ n \in 1..n /\ n \in Nat /\ m \in Nat /\ t = stack[n].pkg
        /\ t \in Packages /\ Top.next \in Nat \ {0} /\ Top = stack[n]
        /\ \A k \in 1..n : stack[k].pkg \in Packages /\ stack[k].next \in Nat
        /\ \A k \in 1..m : plan[k] \in Packages
    BY <1>1, StackType DEF IInv
  <1>3. /\ plan' \in Seq(Packages) /\ Len(plan') = m + 1
        /\ \A i \in 1..m : plan'[i] = plan[i]
        /\ plan'[m + 1] = t
    BY <1>1, <1>2, AppendProperties DEF IInv, ShapeOK
  <1>4. \A d : d \in Placed' <=> Planned(d) \/ d = t
    BY <1>2, <1>3 DEF Planned, Placed
  <1>5. /\ below \in Seq(Frame) /\ Len(below) = n - 1
        /\ \A k \in 1..(n - 1) : below[k] = stack[k]
    BY <1>1, PoppedType
  <1> HIDE DEF below
  <1>6. below = <<>> <=> n = 1
    <2>1. below = <<>> <=> Len(below) = 0
      BY <1>5, EmptySeq
    <2> QED
      BY <1>2, <1>5, <2>1
  <1>0. n = 1 \/ n > 1
    BY <1>2
  <1>7. /\ stack' \in Seq(Frame) /\ Len(stack') = n - 1
        /\ \A k \in 1..(n - 1) : stack'[k].pkg = stack[k].pkg
        /\ \A k \in 1..(n - 2) : stack'[k] = stack[k]
        /\ n > 1 => stack'[n - 1].next = stack[n - 1].next + 1
    <2>1. CASE n = 1
      BY <1>1, <1>5, <1>6, <2>1 DEF Advanced
    <2>2. CASE n > 1
      <3>1. below # <<>>
        BY <1>2, <1>6, <2>2
      <3>2. /\ Advanced(below) \in Seq(Frame)
            /\ Len(Advanced(below)) = n - 1
            /\ \A k \in 1..(n - 1) : Advanced(below)[k].pkg = below[k].pkg
            /\ \A k \in 1..(n - 2) : Advanced(below)[k] = below[k]
            /\ Advanced(below)[n - 1].next = below[n - 1].next + 1
        <4>1. Len(below) - 1 = n - 2
          BY <1>2, <1>5
        <4> QED
          BY <1>5, <3>1, <4>1, AdvancedType
      <3> QED
        BY <1>1, <1>2, <1>5, <2>2, <3>2
    <2> QED
      BY <1>0, <2>1, <2>2
  <1>8. \A d : Needs(t, d) => Planned(d)
    <2>1. /\ Top.next <= Len(deps[t]) + 1
          /\ \A k \in 1..(Top.next - 1) : Planned(deps[t][k])
      BY <1>2 DEF IInv, StackInv, Handled
    <2>2. Len(deps[t]) \in Nat
      BY <1>2, ListType DEF IInv
    <2>3. \A k \in 1..Len(deps[t]) : Planned(deps[t][k])
      BY <1>1, <1>2, <2>1, <2>2 DEF Exhausted
    <2> QED
      BY <1>2, <2>3, ListType DEF IInv
  <1>9. ShapeOK'
    BY <1>1, <1>3, <1>7 DEF IInv, ShapeOK
  <1>10. StackInv'
    <2>1. Distinct'
      <3> SUFFICES ASSUME NEW k \in 1..(n - 1), NEW l \in 1..(n - 1),
                          stack'[k].pkg = stack'[l].pkg
                   PROVE  k = l
        BY <1>7 DEF Distinct
      <3>1. k \in 1..n /\ l \in 1..n /\ stack[k].pkg = stack[l].pkg
        BY <1>2, <1>7
      <3> QED
        BY <3>1 DEF IInv, StackInv, Distinct
    <2>2. Marked'
      <3> SUFFICES ASSUME NEW p \in Packages
                   PROVE  state'[p] = "visiting"
                              <=> \E k \in 1..(n - 1) : stack[k].pkg = p
        BY <1>7 DEF Marked
      <3>1. CASE p = t
        <4>1. state'[p] = "done"
          BY <1>1, <1>2, <3>1 DEF IInv, ShapeOK
        <4>2. \A k \in 1..(n - 1) : stack[k].pkg # p
          BY <1>2, <3>1 DEF IInv, StackInv, Distinct
        <4> QED
          BY <4>1, <4>2
      <3>2. CASE p # t
        <4>1. state'[p] = state[p]
          BY <1>1, <1>2, <3>2 DEF IInv, ShapeOK
        <4>2. (\E k \in 1..n : stack[k].pkg = p)
                  <=> \E k \in 1..(n - 1) : stack[k].pkg = p
          BY <1>2, <3>2
        <4> QED
          BY <4>1, <4>2 DEF IInv, StackInv, Marked
      <3> QED
        BY <3>1, <3>2
    <2>3. Linked'
      <3> SUFFICES ASSUME NEW k \in 1..(n - 2)
                   PROVE  /\ stack'[k].next <= Len(deps[stack'[k].pkg])
                          /\ deps[stack'[k].pkg][stack'[k].next]
                                 = stack'[k + 1].pkg
        BY <1>1, <1>2, <1>7 DEF Linked
      <3>1. k \in 1..(n - 1) /\ k + 1 \in 1..(n - 1)
        BY <1>2
      <3> QED
        BY <1>7, <3>1 DEF IInv, StackInv, Linked
    <2>4. Handled'
      <3> SUFFICES ASSUME NEW k \in 1..(n - 1)
                   PROVE  /\ stack'[k].next <= Len(deps[stack[k].pkg]) + 1
                          /\ \A j \in 1..(stack'[k].next - 1) :
                                 deps[stack[k].pkg][j] \in Placed'
        BY <1>1, <1>7 DEF Handled, Planned
      <3>1. /\ stack[k].next <= Len(deps[stack[k].pkg]) + 1
            /\ stack[k].next \in Nat
            /\ \A j \in 1..(stack[k].next - 1) :
                   deps[stack[k].pkg][j] \in Placed'
            /\ Len(deps[stack[k].pkg]) \in Nat
        BY <1>2, <1>4, ListType DEF IInv, StackInv, Handled
      <3>2. CASE k = n - 1
        <4>1. /\ stack[k].next <= Len(deps[stack[k].pkg])
              /\ deps[stack[k].pkg][stack[k].next] = t
          BY <1>2, <3>2 DEF IInv, StackInv, Linked
        <4>2. stack'[k].next = stack[k].next + 1
          BY <1>2, <1>7, <3>2
        <4>3. \A j \in 1..stack[k].next : deps[stack[k].pkg][j] \in Placed'
          BY <1>4, <3>1, <4>1
        <4> QED
          BY <3>1, <4>1, <4>2, <4>3
      <3>3. CASE k \in 1..(n - 2)
        BY <1>7, <3>1, <3>3
      <3> QED
        BY <1>2, <3>2, <3>3
    <2>5. Rooted'
      BY <1>1, <1>2, <1>7 DEF IInv, StackInv, Rooted
    <2> QED
      BY <2>1, <2>2, <2>3, <2>4, <2>5 DEF StackInv
  <1>11. PlanInv'
    <2>1. PlanInOrder'
      <3>1. ASSUME NEW i \in 1..(m + 1), NEW j \in 1..(m + 1),
                   plan'[i] = plan'[j]
            PROVE  i = j
        <4>1. \A k \in 1..m : plan[k] # t
          BY <1>1 DEF Planned, Placed
        <4> QED
          BY <1>2, <1>3, <3>1, <4>1 DEF IInv, PlanInv, PlanInOrder
      <3>2. ASSUME NEW i \in 1..(m + 1),
                   NEW k \in 1..Len(deps[plan'[i]])
            PROVE  \E j \in 1..(i - 1) : plan'[j] = deps[plan'[i]][k]
        <4>1. CASE i \in 1..m
          <5>1. PICK j \in 1..(i - 1) : plan[j] = deps[plan[i]][k]
            BY <1>3, <3>2, <4>1 DEF IInv, PlanInv, PlanInOrder
          <5>2. j \in 1..m
            BY <1>2, <4>1
          <5> QED
            BY <1>3, <4>1, <5>1, <5>2
        <4>2. CASE i = m + 1
          <5>1. plan'[i] = t
            BY <1>3, <4>2
          <5>2. Planned(deps[t][k])
            BY <1>2, <1>8, <3>2, <5>1, ListType DEF IInv
          <5>3. PICK j \in 1..m : plan[j] = deps[t][k]
            BY <5>2 DEF Planned, Placed
          <5> QED
            BY <1>2, <1>3, <4>2, <5>1, <5>3
        <4> QED
          BY <1>2, <4>1, <4>2
      <3> QED
        BY <1>1, <1>3, <3>1, <3>2 DEF PlanInOrder
    <2>2. DonePlanned'
      <3> SUFFICES ASSUME NEW p \in Packages
                   PROVE  state'[p] = "done" <=> p \in Placed'
        BY DEF DonePlanned, Planned
      <3> QED
        BY <1>1, <1>2, <1>4 DEF IInv, ShapeOK, PlanInv, DonePlanned
    <2>3. Needed'
      <3> SUFFICES ASSUME NEW i \in 1..(m + 1)
                   PROVE  \/ \E j \in (i + 1)..(m + 1) :
                                 Needs(plan'[j], plan'[i])
                          \/ \E k \in 1..(n - 1) :
                                 Needs(stack[k].pkg, plan'[i])
                          \/ i = m + 1 /\ plan'[i] = root
        BY <1>1, <1>3, <1>7 DEF Needed, Needs
      <3>1. CASE i \in 1..m
        <4>1. plan'[i] = plan[i] /\ plan[i] \in Packages
          BY <1>2, <1>3, <3>1
        <4>2. plan[i] # root
          <5>1. 1 \in 1..n /\ stack[1].pkg = root /\ root \in Packages
            BY <1>2 DEF IInv, StackInv, Rooted
          <5>2. state[root] = "visiting"
            BY <5>1 DEF IInv, StackInv, Marked
          <5>3. ~Planned(root)
            BY <1>1, <5>1, <5>2, PlanRoom
          <5> QED
            BY <3>1, <5>3 DEF Planned, Placed
        <4>3. CASE \E j \in (i + 1)..m : Needs(plan[j], plan[i])
          <5>1. PICK j \in (i + 1)..m : Needs(plan[j], plan[i])
            BY <4>3
          <5>2. j \in 1..m /\ j \in (i + 1)..(m + 1)
            BY <1>2, <3>1
          <5> QED
            BY <1>3, <4>1, <5>1, <5>2
        <4>4. CASE \E k \in 1..n : Needs(stack[k].pkg, plan[i])
          <5>1. PICK k \in 1..n : Needs(stack[k].pkg, plan[i])
            BY <4>4
          <5>2. CASE k = n
            <6>1. m + 1 \in (i + 1)..(m + 1) /\ Needs(plan'[m + 1], plan'[i])
              BY <1>2, <1>3, <3>1, <4>1, <5>1, <5>2
            <6> QED
              BY <6>1
          <5>3. CASE k \in 1..(n - 1)
            BY <4>1, <5>1, <5>3
          <5> QED
            BY <1>2, <5>2, <5>3
        <4> QED
          BY <3>1, <4>2, <4>3, <4>4 DEF IInv, PlanInv, Needed
      <3>2. CASE i = m + 1
        <4>1. CASE n = 1
          <5>1. plan'[i] = root
            BY <1>2, <1>3, <3>2, <4>1 DEF IInv, StackInv, Rooted
          <5> QED
            BY <3>2, <5>1
        <4>2. CASE n > 1
          <5>1. n - 1 \in 1..(n - 1) /\ n - 1 \in 1..n
            BY <1>2, <4>2
          <5>2. /\ stack[n - 1].next \in 1..Len(deps[stack[n - 1].pkg])
                /\ deps[stack[n - 1].pkg][stack[n - 1].next] = t
            <6>1. /\ stack[n - 1].next <= Len(deps[stack[n - 1].pkg])
                  /\ deps[stack[n - 1].pkg][stack[n - 1].next]
                         = stack[n - 1 + 1].pkg
              BY <5>1 DEF IInv, StackInv, Linked
            <6>2. stack[n - 1].next \in Nat \ {0} /\ n - 1 + 1 = n
              BY <1>2, <5>1, StackType DEF IInv
            <6>3. Len(deps[stack[n - 1].pkg]) \in Nat
              BY <1>2, <5>1, ListType DEF IInv
            <6> QED
              BY <1>2, <6>1, <6>2, <6>3
          <5>3. Needs(stack[n - 1].pkg, t)
            BY <1>2, <5>1, <5>2, ListType DEF IInv
          <5> QED
            BY <1>3, <3>2, <5>1, <5>3
        <4> QED
          BY <1>0, <4>1, <4>2
      <3> QED
        BY <1>2, <3>1, <3>2
    <2>4. EndsInRoot' /\ NotBegun'
      <3>1. n = 1 => t = root
        BY <1>2 DEF IInv, StackInv, Rooted
      <3> QED
        BY <1>1, <1>2, <1>3, <1>6, <1>7, <3>1 DEF EndsInRoot, NotBegun
    <2> QED
      BY <2>1, <2>2, <2>3, <2>4 DEF PlanInv
  <1>12. RefusalInv'
    <2>1. \A k \in 1..(n - 1) : k \in 1..n
      BY <1>2
    <2>2. result' \notin {"missing", "cycle"}
      BY <1>1
    <2>3. OrdersHold'
      BY <1>1, <1>7, <2>1 DEF IInv, RefusalInv, OrdersHold
    <2>4. OrdersFollow'
      BY <1>1, <1>7, <2>1 DEF IInv, RefusalInv, OrdersFollow
    <2> QED
      BY <2>2, <2>3, <2>4 DEF RefusalInv, RefusedRightly
  <1> QED
    BY <1>9, <1>10, <1>11, <1>12 DEF IInv

\* The invariant is inductive.
LEMMA Inductive ==
    /\ Init => IInv
    /\ IInv /\ [Next]_vars => IInv'
  <1>1. Init => IInv
    <2> SUFFICES ASSUME Init PROVE IInv
      OBVIOUS
    <2>1. /\ stack = <<>> /\ plan = <<>> /\ result = "none"
          /\ Len(stack) = 0 /\ Len(plan) = 0
          /\ \A p \in Packages : state[p] = "unvisited"
      BY EmptySeq DEF Init
    <2>2. ShapeOK
      BY EmptySeq DEF Init, ShapeOK
    <2> QED
      BY <2>1, <2>2
         DEF IInv, StackInv, Distinct, Marked, Linked, Handled, Rooted,
             PlanInv, PlanInOrder, DonePlanned, Needed, EndsInRoot, NotBegun,
             Planned, Placed, RefusalInv, OrdersHold, OrdersFollow,
             RefusedRightly
  <1>2. IInv /\ UNCHANGED vars => IInv'
    <2> SUFFICES ASSUME IInv, UNCHANGED vars PROVE IInv'
      OBVIOUS
    <2>1. UNCHANGED <<deps, root, state, stack, plan, result, Placed>>
      BY DEF vars, Placed
    <2>2. ShapeOK' /\ StackInv'
      BY <2>1 DEF IInv, ShapeOK, StackInv, Distinct, Marked, Linked, Handled,
                  Rooted, Planned
    <2>3. PlanInv'
      BY <2>1 DEF IInv, PlanInv, PlanInOrder, DonePlanned, Needed, EndsInRoot,
                  NotBegun, Planned, Needs
    <2>4. RefusalInv'
      BY <2>1 DEF IInv, RefusalInv, OrdersHold, OrdersFollow, RefusedRightly
    <2> QED
      BY <2>2, <2>3, <2>4 DEF IInv
  <1> QED
    BY <1>1, <1>2, StartStep, RefuseStep, HandledStep, NewStep, LeaveStep
       DEF Next

\* The walk, its stack and its plan stay as IInv describes them, on every
\* index and for every request.
THEOREM WalkInvariant == Spec => []IInv
  BY Inductive, PTL DEF Spec

\* Every variable keeps its type, the recursion is never deeper than the index
\* has packages, and no plan is refused for lack of room in it.
THEOREM WalkTypeCorrect == Spec => []TypeOK
  <1>1. IInv => TypeOK
    <2> SUFFICES ASSUME IInv PROVE TypeOK
      OBVIOUS
    <2> DEFINE n == Len(stack)
               f == [k \in 1..n |-> stack[k].pkg]
    <2>1. n \in Nat /\ f \in [1..n -> Packages]
      BY StackType DEF IInv
    <2>2. \A k, l \in 1..n : f[k] = f[l] => k = l
      BY DEF IInv, StackInv, Distinct
    <2>3. n <= Cardinality(Packages)
      BY <2>1, <2>2, Room
    <2> QED
      BY <2>3 DEF IInv, ShapeOK, TypeOK
  <1> QED
    BY <1>1, WalkInvariant, PTL

\* At every step of the walk the plan lists each package once and after all
\* of its dependencies: what install_apply_plan relies on when it installs
\* the plan from the front.
THEOREM PlansAreInOrder == Spec => []PlanInOrder
  <1>1. IInv => PlanInOrder
    BY DEF IInv, PlanInv
  <1> QED
    BY <1>1, WalkInvariant, PTL

\* resolve_install_plan keeps its promise: the plan it returns is an
\* installation order for the requested package with nothing superfluous in
\* it, and when it reports a missing dependency or a cycle there is no order.
THEOREM WalkImplementsPromise == Spec => ImplementsPromise
  <1> DEFINE promised == IF result = "ok" THEN plan ELSE <<>>
  <1>1. Init => Promise!Init
    <2> SUFFICES ASSUME Init PROVE Promise!Init
      OBVIOUS
    <2>1. \A n \in 0..MaxDeps : \A l \in [1..n -> Names] : l \in Seq(Names)
      BY IsASeq, IndexAssumption
    <2>2. Lists \subseteq Seq(Names)
      BY <2>1 DEF Lists
    <2>3. deps \in [Packages -> Seq(Names)]
      BY <2>2 DEF Init
    <2> QED
      BY <2>3 DEF Init, Promise!Init
  <1>2. ASSUME IInv, IInv', [Next]_vars
        PROVE  [Promise!Decide]_(Promise!promiseVars)
    <2>1. CASE UNCHANGED vars
      BY <2>1 DEF vars, Promise!promiseVars
    <2>2. CASE Next
      <3>1. /\ UNCHANGED <<deps, root>> /\ result = "none"
            /\ result' \in {"none", "ok", "missing", "cycle"}
        BY <1>2, <2>2
           DEF Next, FindRoot, Enter, MissingDep, CycleDep, HandledDep, NewDep,
               Leave, AtDep, Visiting, IInv, ShapeOK
      <3>2. CASE result' = "none"
        BY <3>1, <3>2 DEF Promise!promiseVars
      <3>3. CASE result' = "ok"
        <4>1. Promise!IsPlan(deps, root, plan)'
          <5>1. /\ plan' \in Seq(Packages)
                /\ Len(plan') > 0 /\ plan'[Len(plan')] = root'
                /\ Len(stack') = 0 /\ Len(plan') \in Nat
                /\ \A i \in 1..Len(plan') : plan'[i] \in Packages
            BY <1>2, <3>3 DEF IInv, ShapeOK, PlanInv, EndsInRoot
          <5>2. \A i, j \in 1..Len(plan') : plan'[i] = plan'[j] => i = j
            BY <1>2 DEF IInv, PlanInv, PlanInOrder
          <5>3. ASSUME NEW i \in 1..Len(plan'),
                       NEW d \in Promise!DependsOn(deps', plan'[i])
                PROVE  \E j \in 1..(i - 1) : plan'[j] = d
            <6>1. PICK k \in 1..Len(deps'[plan'[i]]) : deps'[plan'[i]][k] = d
              <7>1. plan[i]' \in Packages
                BY <5>1, <5>3
              <7>2. ShapeOK
                BY <1>2 DEF IInv
              <7>3. Needs(plan'[i], d)
                BY <3>1, <5>3 DEF Needs
              <7> QED
                BY <3>1, <7>1, <7>2, <7>3, ListType
            <6> QED
              BY <1>2, <5>3, <6>1 DEF IInv, PlanInv, PlanInOrder
          <5>4. ASSUME NEW i \in 1..(Len(plan') - 1)
                PROVE  \E j \in (i + 1)..Len(plan') :
                           plan'[i] \in Promise!DependsOn(deps', plan'[j])
            <6>1. i \in 1..Len(plan') /\ i # Len(plan')
              BY <5>1, <5>4
            <6> QED
              BY <1>2, <5>1, <6>1 DEF IInv, PlanInv, Needed, Needs
          <5> QED
            BY <5>1, <5>2, <5>3, <5>4 DEF Promise!IsPlan
        <4> QED
          BY <3>1, <3>3, <4>1 DEF Promise!Decide
      <3>4. CASE result' \in {"missing", "cycle"}
        <4>1. ~Promise!Resolvable(deps, root)
          BY <1>2, <3>1, <3>4 DEF IInv, RefusalInv, RefusedRightly
        <4> QED
          BY <3>1, <3>4, <4>1 DEF Promise!Decide
      <3> QED
        BY <3>1, <3>2, <3>3, <3>4
    <2> QED
      BY <1>2, <2>1, <2>2
  <1> QED
    BY <1>1, <1>2, WalkInvariant, PTL
       DEF Spec, ImplementsPromise, Promise!Spec
=============================================================================
