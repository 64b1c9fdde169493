---------------------------- MODULE MCContainer ----------------------------
(* Small registries for Container.                                         *)
EXTENDS Container, TLC

CONSTANTS svcA, svcB, svcC, svcD, svcP, ifaceA

Symmetric == Permutations(Goroutines)
NoAlias == << >>

\* Three constructors in a circle, which topoSort cannot see because svcA and
\* svcB resolve the next one by themselves; svcC takes svcA as a parameter,
\* under its alias.
LoopAlias == ifaceA :> svcA
LoopArgs == svcA :> << >> @@ svcB :> << >> @@ svcC :> <<ifaceA>>
LoopCalls == svcA :> <<svcB>> @@ svcB :> <<svcC>> @@ svcC :> << >>

\* A request's registry: svcP is registered as an instance, svcA and svcB are
\* singletons (svcB takes svcA and svcP, and svcA resolves svcB by itself),
\* svcD is transient and resolves itself, svcC is scoped and takes svcD.
LayerArgs == svcP :> << >> @@ svcA :> << >> @@ svcB :> <<svcA, svcP>>
             @@ svcD :> <<svcB>> @@ svcC :> <<svcD, svcP>>
LayerCalls == svcP :> << >> @@ svcA :> <<svcB>> @@ svcB :> << >>
              @@ svcD :> <<svcD>> @@ svcC :> <<svcA>>
LayerProvided == <<svcP>>

\* Two singletons without a cycle, one needing the other.
PairArgs == svcA :> << >> @@ svcB :> <<svcA>>
PairCalls == svcA :> << >> @@ svcB :> << >>
=============================================================================
