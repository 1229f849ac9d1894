---------------------------- MODULE ResolvePlan ----------------------------
(***************************************************************************)
(* resolve_install_plan of packages/install/src/install/resolve.c: a depth *)
(* first walk of the dependency lists that appends a package to the plan   *)
(* after all of its dependencies.  The recursion of res_visit is a stack   *)
(* of frames: the package being visited and the position in its list.      *)
(***************************************************************************)
EXTENDS Integers, Sequences, FiniteSets

CONSTANTS
    Packages,     \* names in the index; their lists are chosen in Init
    Names,        \* those, and names the index does not have
    MaxDeps,      \* MAX_DEPS: the length of a dependency list
    MaxPackages   \* INDEX_MAX_PACKAGES: the length of a plan

\* idx_parse_packages_array and _object_map refuse an index that is larger,
\* idx_validate_unique_names one that names a package twice.
ASSUME IndexAssumption ==
    /\ Packages \subseteq Names
    /\ IsFiniteSet(Packages)
    /\ MaxDeps \in Nat
    /\ MaxPackages \in Nat /\ Cardinality(Packages) <= MaxPackages

VARIABLES
    deps, root,   \* the index and the requested name; they never change
    state,        \* "unvisited", "visiting" or "done", of each package
    stack,        \* frames of res_visit, the active one last
    plan,         \* out_plan->ordered
    result        \* "none" while it runs

vars == <<deps, root, state, stack, plan, result>>

Frame == [pkg : Packages, next : Nat \ {0}]
Lists == UNION {[1..n -> Names] : n \in 0..MaxDeps}

Top == stack[Len(stack)]
\* The dependency the active frame is at.
Dep == deps[Top.pkg][Top.next]

Init ==
    /\ deps \in [Packages -> Lists]
    /\ root \in Names
    /\ state = [p \in Packages |-> "unvisited"]
    /\ stack = <<>>
    /\ plan = <<>>
    /\ result = "none"

\* res_visit on p, past its early returns.
Enter(p) ==
    /\ state' = [state EXCEPT ![p] = "visiting"]
    /\ stack' = Append(stack, [pkg |-> p, next |-> 1])

\* The loop of the active frame goes on to its next dependency.
Advanced(frames) ==
    IF frames = <<>> THEN frames
    ELSE [frames EXCEPT ![Len(frames)].next = @ + 1]

FindRoot ==
    /\ result = "none" /\ stack = <<>>
    /\ IF root \in Packages
       THEN Enter(root) /\ UNCHANGED result
       ELSE result' = "missing" /\ UNCHANGED <<state, stack>>
    /\ UNCHANGED <<deps, root, plan>>

Visiting == result = "none" /\ stack # <<>>
AtDep == Visiting /\ Top.next <= Len(deps[Top.pkg])

MissingDep ==
    /\ AtDep /\ Dep \notin Packages
    /\ result' = "missing"
    /\ UNCHANGED <<deps, root, state, stack, plan>>

\* Mutated form: a package that is being visited counts as handled.
CycleDep_Ignored ==
    /\ AtDep /\ Dep \in Packages /\ state[Dep] = "visiting"
    /\ stack' = Advanced(stack)
    /\ UNCHANGED <<deps, root, state, plan, result>>

CycleDep ==
    /\ AtDep /\ Dep \in Packages /\ state[Dep] = "visiting"
    /\ result' = "cycle"
    /\ UNCHANGED <<deps, root, state, stack, plan>>

\* Mutated form: the loop does not move past a handled dependency.
HandledDep_Stays ==
    /\ AtDep /\ Dep \in Packages /\ state[Dep] = "done"
    /\ UNCHANGED vars

HandledDep ==
    /\ AtDep /\ Dep \in Packages /\ state[Dep] = "done"
    /\ stack' = Advanced(stack)
    /\ UNCHANGED <<deps, root, state, plan, result>>

NewDep ==
    /\ AtDep /\ Dep \in Packages /\ state[Dep] = "unvisited"
    /\ Enter(Dep)
    /\ UNCHANGED <<deps, root, plan, result>>

\* Mutated form: the list is one shorter than its count.
Exhausted_OffByOne == Top.next >= Len(deps[Top.pkg])

Exhausted == Top.next > Len(deps[Top.pkg])

\* All dependencies are handled: res_visit returns to the frame below.
Leave ==
    LET below == SubSeq(stack, 1, Len(stack) - 1)
    IN  /\ Visiting /\ Exhausted
        /\ state' = [state EXCEPT ![Top.pkg] = "done"]
        /\ IF Len(plan) >= MaxPackages
           THEN result' = "full" /\ UNCHANGED <<plan, stack>>
           ELSE /\ plan' = Append(plan, Top.pkg)
                /\ stack' = Advanced(below)
                /\ result' = IF below = <<>> THEN "ok" ELSE "none"
        /\ UNCHANGED <<deps, root>>

Next == FindRoot \/ MissingDep \/ CycleDep \/ HandledDep \/ NewDep \/ Leave

Spec == Init /\ [][Next]_vars
FairSpec == Spec /\ WF_vars(Next)

----------------------------------------------------------------------------
TypeOK ==
    /\ deps \in [Packages -> Lists]
    /\ root \in Names
    /\ state \in [Packages -> {"unvisited", "visiting", "done"}]
    /\ stack \in Seq(Frame) /\ Len(stack) <= Cardinality(Packages)
    /\ plan \in Seq(Packages)
    /\ result \in {"none", "ok", "missing", "cycle"}

\* A plan under construction never installs a package before its
\* dependencies, nor twice, wherever the walk is.
PlanInOrder ==
    /\ \A i, j \in 1..Len(plan) : plan[i] = plan[j] => i = j
    /\ \A i \in 1..Len(plan) : \A k \in 1..Len(deps[plan[i]]) :
           \E j \in 1..(i - 1) : plan[j] = deps[plan[i]][k]

\* The walk implements the promise: the plan it returns is an installation
\* order with nothing superfluous, and it refuses only what has none.
Promise == INSTANCE PlanPromise
    WITH plan <- IF result = "ok" THEN plan ELSE <<>>
ImplementsPromise == Promise!Spec

\* The walk ends, on every index, cyclic ones included.
Terminates == <>(result # "none")
=============================================================================
