---------------------------- MODULE PlanPromise ----------------------------
(***************************************************************************)
(* What packages/install promises of a dependency plan: a requested name   *)
(* gets a plan exactly when the index allows one.                          *)
(***************************************************************************)
EXTENDS Integers, Sequences, FiniteSets

CONSTANTS
    Packages,   \* names in the index
    Names       \* names that may be asked for, or named as a dependency

VARIABLES
    deps,       \* the dependency list of every package of the index
    root,       \* the requested name
    plan,       \* the plan, once it is decided
    result      \* "none", then "ok" or why there is no plan

promiseVars == <<deps, root, plan, result>>

DependsOn(ix, p) == {ix[p][i] : i \in DOMAIN ix[p]}

\* p is an installation order for r: r comes last, every package once, after
\* all its dependencies, and nothing that no later one needs.
IsPlan(ix, r, p) ==
    /\ p \in Seq(Packages)
    /\ Len(p) > 0 /\ p[Len(p)] = r
    /\ \A i, j \in 1..Len(p) : p[i] = p[j] => i = j
    /\ \A i \in 1..Len(p) : \A d \in DependsOn(ix, p[i]) :
           \E j \in 1..(i - 1) : p[j] = d
    /\ \A i \in 1..(Len(p) - 1) :
           \E j \in (i + 1)..Len(p) : p[i] \in DependsOn(ix, p[j])

Orders == UNION {[1..n -> Packages] : n \in 1..Cardinality(Packages)}

Resolvable(ix, r) == \E p \in Orders : IsPlan(ix, r, p)

Init ==
    /\ deps \in [Packages -> Seq(Names)]
    /\ root \in Names
    /\ plan = <<>>
    /\ result = "none"

Decide ==
    /\ result = "none"
    /\ \/ result' = "ok" /\ IsPlan(deps, root, plan')
       \/ /\ result' \in {"missing", "cycle"}
          /\ plan' = <<>>
          /\ ~Resolvable(deps, root)
    /\ UNCHANGED <<deps, root>>

Spec == Init /\ [][Decide]_promiseVars
=============================================================================
