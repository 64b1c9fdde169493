-------------------------- MODULE ContainerProofs --------------------------
(***************************************************************************)
(* Proofs about Container for any registry and any number of goroutines:   *)
(* type correctness; c.waiting never holds a cycle of waits, and the walk  *)
(* that keeps it so answers exactly who waits for whom; a singleton has    *)
(* one builder at a time; no goroutine misses the end of the build it      *)
(* waits for; a singleton is cached after its parameters; what has been    *)
(* initialized is kept. Panics and late registrations are part of the      *)
(* specification.                                                          *)
(***************************************************************************)
EXTENDS Container, TLAPS, SequenceTheorems, FiniteSetTheorems, WellFoundedInduction

\* What TypeOK needs to be inductive: a goroutine inside a call has asked for
\* a type, and one that resolves arguments has a frame.
Located ==
    \A g \in Goroutines :
        /\ pc[g] # "idle" => asked[g] \in [type : Types, via : Resolvers]
        /\ pc[g] = "args" => stacks[g] # << >>

TypeInv == TypeOK /\ Located

\* A stack without its last frame.
LEMMA PopProperties ==
    ASSUME NEW S, NEW s \in Seq(S), s # << >>
    PROVE  /\ Pop(s) \in Seq(S)
           /\ Len(Pop(s)) = Len(s) - 1
           /\ \A i \in 1..Len(s) - 1 : Pop(s)[i] = s[i]
           /\ Len(s) \in Nat \ {0}
           /\ s[Len(s)] \in S
  <1>1. Len(s) \in Nat \ {0}
    BY EmptySeq
  <1>2. \A i \in 1..Len(s) - 1 : s[i] \in S
    BY <1>1
  <1>3. /\ SubSeq(s, 1, Len(s) - 1) \in Seq(S)
        /\ Len(SubSeq(s, 1, Len(s) - 1)) = Len(s) - 1
        /\ \A i \in 1..Len(s) - 1 : SubSeq(s, 1, Len(s) - 1)[i] = s[i]
    <2>1. /\ SubSeq(s, 1, Len(s) - 1) \in Seq(S)
          /\ Len(SubSeq(s, 1, Len(s) - 1)) =
                IF 1 <= Len(s) - 1 THEN (Len(s) - 1) - 1 + 1 ELSE 0
          /\ \A i \in 1..(Len(s) - 1) - 1 + 1 :
                SubSeq(s, 1, Len(s) - 1)[i] = s[1 + i - 1]
      <3>1. 1 \in Int /\ Len(s) - 1 \in Int
        BY <1>1
      <3> QED
        BY <3>1, <1>2, SubSeqProperties
    <2>2. \A n \in Nat \ {0} :
             /\ (IF 1 <= n - 1 THEN (n - 1) - 1 + 1 ELSE 0) = n - 1
             /\ (n - 1) - 1 + 1 = n - 1
      OBVIOUS
    <2>3. \A i \in 1..Len(s) - 1 : 1 + i - 1 = i
      BY <1>1
    <2> QED
      BY ONLY <1>1, <2>1, <2>2, <2>3, Zenon
  <1>4. s[Len(s)] \in S
    BY <1>1
  <1> QED
    BY <1>1, <1>3, <1>4 DEF Pop

\* What a constructor asks for is a type once its alias is looked through.
LEMMA NeedsAreTypes ==
    ASSUME NEW t \in Types, NEW i \in 1..Len(Needs(t))
    PROVE  AliasTarget(Needs(t)[i]) \in Types
  <1>1. Args[t] \in Seq(Names) /\ Calls[t] \in Seq(Names)
    BY ConstantsAssumption DEF Names
  <1>2. Needs(t) \in Seq(Names)
    BY <1>1 DEF Needs
  <1>3. Needs(t)[i] \in Names
    BY <1>2
  <1> QED
    BY <1>3, ConstantsAssumption DEF Names, AliasTarget

\* An alias leads to a type that can be resolved.
LEMMA AliasTargetIsType ==
    ASSUME NEW n \in Names
    PROVE  AliasTarget(n) \in Types
  BY ConstantsAssumption DEF Names, AliasTarget

\* Cutting a goroutine's stack back with LeaveWith.
LEMMA LeaveWithType ==
    ASSUME TypeInv, NEW g \in Goroutines, stacks[g] # << >>,
           NEW r \in {"none", "ok", "err", "circular"}, LeaveWith(g, r)
    PROVE  /\ stacks' \in [Goroutines -> Seq(Frame)]
           /\ asked' \in [Goroutines -> [type : Types, via : Resolvers] \cup {NoAsk}]
           /\ ret' \in [Goroutines -> {"none", "ok", "err", "circular"}]
           /\ pc' \in [Goroutines -> Labels]
           /\ Located'
  <1>1. stacks[g] \in Seq(Frame)
    BY DEF TypeInv, TypeOK
  <1>2. Pop(stacks[g]) \in Seq(Frame) /\ Top(g) \in Frame
    BY <1>1, PopProperties DEF Top
  <1>3. Top(g).type \in Types /\ Top(g).via \in Resolvers
    BY <1>2 DEF Frame
  <1>4. stacks' \in [Goroutines -> Seq(Frame)]
    BY <1>2 DEF LeaveWith, TypeInv, TypeOK
  <1>5. asked' \in [Goroutines -> [type : Types, via : Resolvers] \cup {NoAsk}]
    BY <1>3 DEF LeaveWith, TypeInv, TypeOK
  <1>6. ret' \in [Goroutines -> {"none", "ok", "err", "circular"}]
    BY DEF LeaveWith, TypeInv, TypeOK
  <1>7. pc' \in [Goroutines -> Labels]
    BY DEF LeaveWith, Goto, Labels, TypeInv, TypeOK
  <1>8. Located'
    BY <1>3 DEF LeaveWith, Goto, TypeInv, TypeOK, Located
  <1> QED
    BY <1>4, <1>5, <1>6, <1>7, <1>8

\* Nothing is asked at first.
LEMMA TypeInit == Init => TypeInv
  <1> SUFFICES ASSUME Init PROVE TypeInv
    OBVIOUS
  <1>1. \A g \in Goroutines : stacks[g] \in Seq(Frame) /\ scope[g] \in Seq(Types)
    BY EmptySeq DEF Init
  <1>2. given \in SUBSET Types
    BY ConstantsAssumption DEF Init, SeqRange
  <1>3. TypeOK
    BY <1>1, <1>2, ConstantsAssumption DEF Init, TypeOK, Labels
  <1>4. Located
    BY DEF Init, Located
  <1> QED
    BY <1>3, <1>4 DEF TypeInv

\* Every step keeps the types.
LEMMA TypeStep == TypeInv /\ [Next]_vars => TypeInv'
  <1> SUFFICES ASSUME TypeInv, [Next]_vars PROVE TypeInv'
    OBVIOUS
  <1> USE DEF TypeInv
  <1>1. ASSUME NEW g \in Goroutines, NEW n \in Names, NEW via \in Resolvers,
               Resolve(g, n, via)
        PROVE  TypeInv'
    <2>1. AliasTarget(n) \in Types
      BY AliasTargetIsType
    <2>2. TypeOK'
      BY <1>1, <2>1 DEF TypeOK, Resolve, Goto, Labels
    <2>3. Located'
      BY <1>1, <2>1 DEF TypeOK, Located, Resolve, Goto
    <2> QED
      BY <2>2, <2>3
  <1>2. ASSUME NEW g \in Goroutines, LookupHit(g)
        PROVE  TypeInv'
    <2>1. TypeOK'
      BY <1>2 DEF TypeOK, LookupHit, Answer, Goto, Labels
    <2>2. Located'
      BY <1>2 DEF TypeOK, Located, LookupHit, Answer, Goto
    <2> QED
      BY <2>1, <2>2
  <1>3. ASSUME NEW g \in Goroutines, LookupMiss(g)
        PROVE  TypeInv'
    <2>1. asked[g] \in [type : Types, via : Resolvers]
      BY <1>3 DEF TypeOK, Located, LookupMiss
    <2>2. /\ asked' \in [Goroutines -> [type : Types, via : Resolvers] \cup {NoAsk}]
          /\ asked'[g] \in [type : Types, via : Resolvers]
          /\ \A h \in Goroutines \ {g} : asked'[h] = asked[h]
      <3>1. CASE asked' = [asked EXCEPT ![g].via = "container"]
        BY <2>1, <3>1 DEF TypeOK, Resolvers
      <3>2. CASE UNCHANGED asked
        BY <2>1, <3>2 DEF TypeOK
      <3> QED
        BY <1>3, <3>1, <3>2 DEF LookupMiss
    <2>3. /\ pc' \in [Goroutines -> Labels]
          /\ ret' \in [Goroutines -> {"none", "ok", "err", "circular"}]
          /\ \A h \in Goroutines \ {g} : pc'[h] = pc[h]
          /\ pc'[g] # "args"
      BY <1>3 DEF TypeOK, LookupMiss, Answer, Goto, Labels
    <2>4. UNCHANGED <<instances, given, builds, waiting, stacks, scope, live>>
      BY <1>3 DEF LookupMiss
    <2>5. TypeOK'
      BY <2>2, <2>3, <2>4 DEF TypeOK
    <2>6. Located'
      BY <2>2, <2>3, <2>4 DEF Located
    <2> QED
      BY <2>5, <2>6
  <1>4. ASSUME NEW g \in Goroutines, ResolveSingleton(g)
        PROVE  TypeInv'
    <2>1. asked[g].type \in Types
      BY <1>4 DEF Located, ResolveSingleton
    <2>2. InFlight(asked[g].type) => builds[asked[g].type] \in Goroutines
      BY <2>1 DEF TypeOK, InFlight
    <2>3. TypeOK'
      <3>1. /\ pc' \in [Goroutines -> Labels]
            /\ ret' \in [Goroutines -> {"none", "ok", "err", "circular"}]
        BY <1>4 DEF TypeOK, ResolveSingleton, Answer, Goto, Labels
      <3>2. builds' \in [Types -> Goroutines \cup {NoOne}]
        BY <1>4, <2>1 DEF TypeOK, ResolveSingleton
      <3>3. waiting' \in [Goroutines -> [type : Types, gid : Goroutines] \cup {NoBuild}]
        <4>1. CASE UNCHANGED waiting
          BY <4>1 DEF TypeOK
        <4>2. CASE /\ InFlight(asked[g].type)
                   /\ waiting' = [waiting EXCEPT ![g] =
                        [type |-> asked[g].type, gid |-> builds[asked[g].type]]]
          BY <2>1, <2>2, <4>2 DEF TypeOK
        <4> QED
          BY <1>4, <4>1, <4>2 DEF ResolveSingleton
      <3> QED
        BY <1>4, <3>1, <3>2, <3>3 DEF TypeOK, ResolveSingleton
    <2>4. Located'
      BY <1>4, <2>1 DEF TypeOK, Located, ResolveSingleton, Answer, Goto
    <2> QED
      BY <2>3, <2>4
  <1>5. ASSUME NEW g \in Goroutines, EnterBuild(g)
        PROVE  TypeInv'
    <2>1. asked[g] \in [type : Types, via : Resolvers]
      BY <1>5 DEF TypeOK, Located, EnterBuild
    <2>2. [type |-> asked[g].type, via |-> asked[g].via, next |-> 1] \in Frame
      BY <2>1 DEF Frame
    <2>3. CASE /\ ret' = [ret EXCEPT ![g] = "circular"]
               /\ Goto(g, "built") /\ UNCHANGED stacks
      BY <1>5, <2>1, <2>3 DEF TypeOK, Located, EnterBuild, Goto, Labels
    <2>4. CASE /\ stacks' = [stacks EXCEPT ![g] =
                    Append(@, [type |-> asked[g].type, via |-> asked[g].via, next |-> 1])]
               /\ Goto(g, "args") /\ UNCHANGED ret
      <3> DEFINE f == [type |-> asked[g].type, via |-> asked[g].via, next |-> 1]
      <3>1. Append(stacks[g], f) \in Seq(Frame) /\ Append(stacks[g], f) # << >>
        BY <2>2, AppendProperties DEF TypeOK
      <3>2. stacks' \in [Goroutines -> Seq(Frame)] /\ stacks'[g] # << >>
        BY <3>1, <2>4 DEF TypeOK
      <3>3. TypeOK'
        BY <1>5, <2>4, <3>2 DEF TypeOK, EnterBuild, Goto, Labels
      <3>4. Located'
        BY <1>5, <2>1, <2>4, <3>2 DEF TypeOK, Located, EnterBuild, Goto
      <3> QED
        BY <3>3, <3>4
    <2> QED
      BY <1>5, <2>3, <2>4 DEF EnterBuild
  <1>6. ASSUME NEW g \in Goroutines, AskNext(g)
        PROVE  TypeInv'
    <2>1. Top(g) \in Frame
      BY <1>6, PopProperties DEF AskNext, TypeOK, Located, Top
    <2>2. /\ AliasTarget(Needs(Top(g).type)[Top(g).next]) \in Types
          /\ Top(g).via \in Resolvers
      BY <1>6, <2>1, NeedsAreTypes DEF AskNext, Frame
    <2>3. TypeOK'
      BY <1>6, <2>2 DEF TypeOK, AskNext, Goto, Labels, Resolvers
    <2>4. Located'
      BY <1>6, <2>2 DEF TypeOK, Located, AskNext, Goto, Resolvers
    <2> QED
      BY <2>3, <2>4
  <1>7. ASSUME NEW g \in Goroutines, Construct(g)
        PROVE  TypeInv'
    <2>1. stacks[g] # << >>
      BY <1>7 DEF Construct, Located
    <2>2. PICK r \in {"ok", "err"} :
             /\ LeaveWith(g, r)
             /\ live' = LiveAfter(IF Top(g).type \in Scopeds THEN g ELSE Container,
                                  Top(g).type, r)
      BY <1>7 DEF Construct
    <2>3. live' \in [Owners -> [Types -> Int]]
      <3> DEFINE o == IF Top(g).type \in Scopeds THEN g ELSE Container
                 t == Top(g).type
      <3>1. o \in Owners
        BY DEF Owners
      <3>2. t \in Types
        <4>1. Top(g) \in Frame
          BY <2>1, PopProperties DEF TypeOK, Top
        <4> QED
          BY <4>1 DEF Frame
      <3> HIDE DEF o, t
      <3>3. LiveAfter(o, t, r) \in [Owners -> [Types -> Int]]
        BY <3>1, <3>2 DEF TypeOK, LiveAfter
      <3> QED
        BY <2>2, <3>3 DEF o, t
    <2> QED
      BY <1>7, <2>1, <2>2, <2>3, LeaveWithType DEF TypeOK, Construct
  <1>8. ASSUME NEW g \in Goroutines, Panic(g)
        PROVE  TypeInv'
    <2>1. TypeOK'
      BY <1>8 DEF TypeOK, Panic, Goto, Labels
    <2>2. Located'
      BY <1>8 DEF TypeOK, Located, Panic, Goto
    <2> QED
      BY <2>1, <2>2
  <1>9. ASSUME NEW g \in Goroutines, Publish(g)
        PROVE  TypeInv'
    <2>1. asked[g].type \in Types
      BY <1>9 DEF Located, Publish
    <2>2. WithInstance(asked[g].type) \in Seq(Types)
      BY <2>1 DEF TypeOK, WithInstance
    <2>3. TypeOK'
      BY <1>9, <2>1, <2>2 DEF TypeOK, Publish, BuildsWithout, Goto, Labels
    <2>4. Located'
      BY <1>9, <2>1 DEF TypeOK, Located, Publish, Goto
    <2> QED
      BY <2>3, <2>4
  <1>10. ASSUME NEW g \in Goroutines, CloseDone(g)
         PROVE  TypeInv'
    <2>1. TypeOK'
      BY <1>10 DEF TypeOK, CloseDone, Labels
    <2>2. Located'
      BY <1>10 DEF TypeOK, Located, CloseDone, Waking
    <2> QED
      BY <2>1, <2>2
  <1>11. ASSUME NEW g \in Goroutines, Wake(g)
         PROVE  TypeInv'
    BY <1>11 DEF TypeOK, Located, Wake, Goto, Labels
  <1>12. ASSUME NEW g \in Goroutines, Keep(g)
         PROVE  TypeInv'
    <2>1. asked[g].type \in Types
      BY <1>12 DEF Located, Keep
    <2>2. TypeOK'
      BY <1>12, <2>1 DEF TypeOK, Keep, Goto, Labels
    <2>3. Located'
      BY <1>12, <2>1 DEF TypeOK, Located, Keep, Goto
    <2> QED
      BY <2>2, <2>3
  <1>13. ASSUME NEW g \in Goroutines, Return(g)
         PROVE  TypeInv'
    <2>1. CASE stacks[g] = << >> /\ Goto(g, "idle")
               /\ asked' = [asked EXCEPT ![g] = NoAsk]
               /\ ret' = [ret EXCEPT ![g] = "none"] /\ UNCHANGED stacks
      BY <1>13, <2>1 DEF TypeOK, Located, Return, Goto, Labels
    <2>2. CASE stacks[g] # << >> /\ Advance(g) /\ Goto(g, "args")
               /\ ret' = [ret EXCEPT ![g] = "none"] /\ UNCHANGED asked
      <3>1. /\ Len(stacks[g]) \in 1..Len(stacks[g])
            /\ stacks[g][Len(stacks[g])] \in Frame
        BY <2>2, PopProperties DEF TypeOK
      <3>2. [stacks[g][Len(stacks[g])] EXCEPT !.next = @ + 1] \in Frame
        BY <3>1 DEF Frame
      <3>3. stacks' = [stacks EXCEPT ![g] =
                [stacks[g] EXCEPT ![Len(stacks[g])] =
                    [stacks[g][Len(stacks[g])] EXCEPT !.next = @ + 1]]]
        BY <2>2 DEF Advance
      <3>4. stacks' \in [Goroutines -> Seq(Frame)] /\ stacks'[g] # << >>
        <4>1. stacks[g] \in Seq(Frame)
          BY DEF TypeOK
        <4>2. [stacks[g] EXCEPT ![Len(stacks[g])] =
                 [stacks[g][Len(stacks[g])] EXCEPT !.next = @ + 1]] \in Seq(Frame)
          BY <3>1, <3>2, <4>1, ExceptSeq
        <4>3. Len([stacks[g] EXCEPT ![Len(stacks[g])] =
                 [stacks[g][Len(stacks[g])] EXCEPT !.next = @ + 1]]) = Len(stacks[g])
          BY <3>1, <3>2, <4>1, ExceptSeq
        <4>4. Len(stacks[g]) # 0
          BY <2>2, <4>1, EmptySeq
        <4> QED
          BY <3>3, <4>2, <4>3, <4>4 DEF TypeOK
      <3>5. TypeOK'
        BY <1>13, <2>2, <3>4 DEF TypeOK, Return, Goto, Labels
      <3>6. Located'
        BY <1>13, <2>2, <3>3, <3>4 DEF TypeOK, Located, Return, Goto
      <3> QED
        BY <3>5, <3>6
    <2>3. CASE stacks[g] # << >> /\ Fails(ret[g]) /\ LeaveWith(g, ret[g])
      BY <1>13, <2>3, LeaveWithType DEF TypeOK, Return
    <2> QED
      BY <1>13, <2>1, <2>2, <2>3 DEF Return
  <1>14. ASSUME NEW g \in Goroutines, CloseScope(g)
         PROVE  TypeInv'
    <2>1. live' \in [Owners -> [Types -> Int]]
      BY <1>14 DEF TypeOK, CloseScope, Owners
    <2>2. scope' \in [Goroutines -> Seq(Types)]
      BY <1>14 DEF TypeOK, CloseScope
    <2> QED
      BY <1>14, <2>1, <2>2 DEF TypeOK, Located, CloseScope
  <1>15. ASSUME NEW t \in LateGiven, RegisterServiceInstance(t)
         PROVE  TypeInv'
    <2>1. t \in Types
      BY ConstantsAssumption
    <2>2. WithInstance(t) \in Seq(Types)
      BY <2>1 DEF TypeOK, WithInstance
    <2> QED
      BY <1>15, <2>1, <2>2 DEF TypeOK, Located, RegisterServiceInstance
  <1>16. CASE UNCHANGED vars
    BY <1>16 DEF TypeOK, Located, vars
  <1> QED
    BY <1>1, <1>2, <1>3, <1>4, <1>5, <1>6, <1>7, <1>8, <1>9, <1>10, <1>11, <1>12, <1>13,
       <1>14, <1>15, <1>16 DEF Next, Step

\* Every variable of the container and of its goroutines keeps its type.
THEOREM TypeCorrect == Spec => []TypeOK
  <1>1. TypeInv => TypeOK
    BY DEF TypeInv
  <1> QED
    BY <1>1, TypeInit, TypeStep, PTL DEF Spec

(***************************************************************************)
(* The waits                                                               *)
(***************************************************************************)
\* A set of goroutines that all wait inside the set, were one to appear with
\* the wait of g for b, would leave such a set behind without g: its part in
\* the set that shows that b does not reach g.
LEMMA WaitStep == TypeInv /\ NoWaitCycle /\ [Next]_vars => NoWaitCycle'
  <1> SUFFICES ASSUME TypeInv, NoWaitCycle, [Next]_vars PROVE NoWaitCycle'
    OBVIOUS
  <1>1. CASE UNCHANGED waiting
    BY <1>1 DEF NoWaitCycle
  <1>2. ASSUME NEW g \in Goroutines, Wake(g)
        PROVE  NoWaitCycle'
    <2> SUFFICES ASSUME NEW S \in SUBSET Goroutines, S # {}
                 PROVE  \E h \in S : waiting'[h] = NoBuild \/ waiting'[h].gid \notin S
      BY DEF NoWaitCycle
    <2>1. PICK h \in S : waiting[h] = NoBuild \/ waiting[h].gid \notin S
      BY DEF NoWaitCycle
    <2>2. waiting'[h] = waiting[h] \/ waiting'[h] = NoBuild
      BY <1>2 DEF Wake, TypeInv, TypeOK
    <2> QED
      BY <2>1, <2>2
  <1>3. ASSUME NEW g \in Goroutines, ResolveSingleton(g), ~UNCHANGED waiting
        PROVE  NoWaitCycle'
    <2> DEFINE t == asked[g].type
               b == builds[t]
    <2>1. /\ ~waitsOn(b, g) /\ b # NoOne
          /\ waiting' = [waiting EXCEPT ![g] = [type |-> t, gid |-> b]]
      BY <1>3 DEF ResolveSingleton, InFlight
    <2>2. t \in Types /\ b \in Goroutines
      BY <1>3, <2>1 DEF TypeInv, TypeOK, Located, ResolveSingleton
    <2>3. PICK C \in SUBSET Goroutines : b \in C /\ ClosedUnderWaits(C) /\ g \notin C
      BY <2>1 DEF waitsOn
    <2> HIDE DEF t, b
    <2>4. waiting'[g].gid = b /\ \A h \in Goroutines \ {g} : waiting'[h] = waiting[h]
      BY <2>1 DEF TypeInv, TypeOK
    <2> SUFFICES ASSUME NEW S \in SUBSET Goroutines, S # {},
                        \A h \in S : waiting'[h] # NoBuild /\ waiting'[h].gid \in S
                 PROVE  FALSE
      BY DEF NoWaitCycle
    <2>5. CASE g \notin S
      BY <2>4, <2>5 DEF NoWaitCycle
    <2>6. CASE g \in S
      <3>1. b \in S \cap C
        BY <2>3, <2>4, <2>6
      <3>2. \A h \in S \cap C : waiting[h] # NoBuild /\ waiting[h].gid \in S \cap C
        BY <2>3, <2>4 DEF ClosedUnderWaits
      <3> QED
        BY <3>1, <3>2 DEF NoWaitCycle
    <2> QED
      BY <2>5, <2>6
  <1>4. ASSUME NEW g \in Goroutines,
               LookupHit(g) \/ LookupMiss(g) \/ EnterBuild(g) \/ AskNext(g)
                 \/ Construct(g) \/ Publish(g) \/ CloseDone(g) \/ Keep(g) \/ Return(g)
        PROVE  UNCHANGED waiting
    BY <1>4 DEF LookupHit, LookupMiss, EnterBuild, AskNext, Construct, Publish, CloseDone,
                Keep, Return
  <1>5. ASSUME NEW g \in Goroutines, Panic(g) \/ CloseScope(g)
        PROVE  UNCHANGED waiting
    BY <1>5 DEF Panic, CloseScope
  <1>6. ASSUME NEW g \in Goroutines, NEW n \in Names, NEW via \in Resolvers, Resolve(g, n, via)
        PROVE  UNCHANGED waiting
    BY <1>6 DEF Resolve
  <1>7. ASSUME NEW t \in LateGiven, RegisterServiceInstance(t)
        PROVE  UNCHANGED waiting
    BY <1>7 DEF RegisterServiceInstance
  <1>8. CASE UNCHANGED vars
    BY <1>1, <1>8 DEF vars
  <1> QED
    BY <1>1, <1>2, <1>3, <1>4, <1>5, <1>6, <1>7, <1>8 DEF Next, Step

\* The waits c.waiting records never form a cycle, entries of goroutines that
\* have been woken and not yet removed their own included.
THEOREM WaitsAcyclic == Spec => []NoWaitCycle
  <1>1. Init => NoWaitCycle
    BY DEF Init, NoWaitCycle
  <1> QED
    BY <1>1, TypeInit, TypeStep, WaitStep, PTL DEF Spec

(***************************************************************************)
(* The walk                                                                *)
(***************************************************************************)
\* k waits in a row, each on the next goroutine's build, lead from h to g.
Chain(s, k, h, g) ==
    /\ s \in [0..k -> Goroutines] /\ s[0] = h /\ s[k] = g
    /\ \A i \in 0..k - 1 : s[i] \in Waiters /\ waiting[s[i]].gid = s[i + 1]
\* What the walk answers after at most n steps: fewer than n waits lead to g.
Within(n, h, g) == \E k \in 0..n - 1 : \E s \in [0..k -> Goroutines] : Chain(s, k, h, g)

WaitsTyped == waiting \in [Goroutines -> [type : Types, gid : Goroutines] \cup {NoBuild}]

\* One turn of the walk's loop.
LEMMA WalkTurn ==
    ASSUME WaitsTyped, NEW n \in Nat, NEW h \in Goroutines, NEW g \in Goroutines
    PROVE  Within(n, h, g) <=>
             /\ n # 0
             /\ h = g \/ (h \in Waiters /\ Within(n - 1, waiting[h].gid, g))
  <1>1. CASE n = 0
    BY <1>1 DEF Within
  <1>2. CASE n # 0
    <2>1. ASSUME h = g PROVE Within(n, h, g)
      <3> DEFINE s == [i \in 0..0 |-> h]
      <3>1. Chain(s, 0, h, g) /\ 0 \in 0..n - 1 /\ s \in [0..0 -> Goroutines]
        BY <2>1, <1>2 DEF Chain
      <3> QED
        BY <3>1 DEF Within
    <2>2. ASSUME h \in Waiters, Within(n - 1, waiting[h].gid, g)
          PROVE  Within(n, h, g)
      <3>1. PICK k \in 0..n - 1 - 1 : \E s \in [0..k -> Goroutines] : Chain(s, k, waiting[h].gid, g)
        BY <2>2 DEF Within
      <3>0. PICK s \in [0..k -> Goroutines] : Chain(s, k, waiting[h].gid, g)
        BY <3>1
      <3> DEFINE r == [i \in 0..k + 1 |-> IF i = 0 THEN h ELSE s[i - 1]]
      <3>2. k + 1 \in 0..n - 1 /\ r \in [0..k + 1 -> Goroutines]
        BY <3>1, <1>2
      <3>3. r[0] = h /\ r[k + 1] = g /\ \A i \in 1..k + 1 : r[i] = s[i - 1]
        BY <3>0, <3>1, <1>2 DEF Chain
      <3>4. ASSUME NEW i \in 0..k + 1 - 1
            PROVE  r[i] \in Waiters /\ waiting[r[i]].gid = r[i + 1]
        <4>1. CASE i = 0
          <5>1. r[i] = h /\ r[i + 1] = s[0]
            BY <4>1, <3>1, <3>3
          <5> QED
            BY <5>1, <2>2, <3>0 DEF Chain
        <4>2. CASE i # 0
          <5>1. i - 1 \in 0..k - 1 /\ r[i] = s[i - 1] /\ r[i + 1] = s[i - 1 + 1]
            BY <4>2, <3>1, <3>3
          <5> QED
            BY <5>1, <3>0 DEF Chain
        <4> QED
          BY <4>1, <4>2
      <3> HIDE DEF r
      <3>5. Chain(r, k + 1, h, g)
        BY <3>2, <3>3, <3>4 DEF Chain
      <3> QED
        BY <3>2, <3>5 DEF Within
    <2>3. ASSUME Within(n, h, g), h # g
          PROVE  h \in Waiters /\ Within(n - 1, waiting[h].gid, g)
      <3>1. PICK k \in 0..n - 1 : \E s \in [0..k -> Goroutines] : Chain(s, k, h, g)
        BY <2>3 DEF Within
      <3>0. PICK s \in [0..k -> Goroutines] : Chain(s, k, h, g)
        BY <3>1
      <3>2. k # 0
        BY <2>3, <3>0 DEF Chain
      <3> DEFINE r == [i \in 0..k - 1 |-> s[i + 1]]
      <3>3. 0 \in 0..k - 1 /\ h \in Waiters /\ waiting[h].gid = s[0 + 1]
        BY <3>0, <3>1, <3>2 DEF Chain
      <3>4. k - 1 \in 0..n - 1 - 1 /\ r \in [0..k - 1 -> Goroutines]
        BY <3>1, <3>2
      <3>5. r[0] = waiting[h].gid /\ r[k - 1] = g
        BY <3>0, <3>1, <3>2, <3>3 DEF Chain
      <3>6. ASSUME NEW i \in 0..k - 1 - 1
            PROVE  r[i] \in Waiters /\ waiting[r[i]].gid = r[i + 1]
        <4>1. i + 1 \in 0..k - 1 /\ r[i] = s[i + 1] /\ r[i + 1] = s[i + 1 + 1]
          BY <3>1, <3>2
        <4> QED
          BY <4>1, <3>0 DEF Chain
      <3> QED
        BY <3>3, <3>4, <3>5, <3>6 DEF Chain, Within
    <2> QED
      BY <1>2, <2>1, <2>2, <2>3
  <1> QED
    BY <1>1, <1>2

\* What holds of some number does not hold of the one below some number.
LEMMA LeastNumber ==
    ASSUME NEW S \in SUBSET Nat, S # {}
    PROVE  \E m \in S : \A n \in S : m <= n
  <1>1. \E x \in S : \A y \in S : ~(<<y, x>> \in OpToRel(<, Nat))
    BY NatLessThanWellFounded, WFMin, Zenon
  <1>2. \A x, y \in Nat : <<y, x>> \in OpToRel(<, Nat) <=> y < x
    BY Zenon DEF OpToRel
  <1>3. PICK x \in S : \A y \in S : ~(<<y, x>> \in OpToRel(<, Nat))
    BY <1>1
  <1>4. \A y \in S : ~(y < x)
    BY <1>2, <1>3, Zenon
  <1>5. \A y \in S : x <= y
    BY <1>4
  <1> QED
    BY <1>5

\* So the recursion defines Within: there is a function that it holds of, and
\* the first number at which another such function differs has none below it.
LEMMA WalkIsWithin ==
    ASSUME WaitsTyped, NEW b \in Goroutines, NEW g \in Goroutines, NEW N \in Nat,
           Cardinality(Waiters) + 1 = N
    PROVE  waitsOnWalk(b, g) = Within(N, b, g)
  <1> DEFINE Turn(w, n) ==
                 IF n = 0 THEN [h \in Goroutines |-> FALSE]
                 ELSE [h \in Goroutines |->
                          h = g \/ (h \in Waiters /\ w[n - 1][waiting[h].gid])]
             within == [n \in Nat |-> [h \in Goroutines |-> Within(n, h, g)]]
             walk == CHOOSE w : w = [n \in Nat |-> Turn(w, n)]
  <1>1. waitsOnWalk(b, g) = walk[N][b]
    BY DEF waitsOnWalk
  <1>2. \A n \in Nat : within[n] = [h \in Goroutines |-> Within(n, h, g)]
    OBVIOUS
  <1>3. \A h \in Waiters : h \in Goroutines /\ waiting[h].gid \in Goroutines
    BY DEF WaitsTyped, Waiters
  <1>4. ASSUME NEW n \in Nat PROVE within[n] = Turn(within, n)
    <2>1. CASE n = 0
      <3>1. ASSUME NEW h \in Goroutines PROVE Within(0, h, g) = FALSE
        BY WalkTurn DEF Within
      <3> QED
        BY <2>1, <3>1
    <2>2. CASE n # 0
      <3>1. n - 1 \in Nat
        BY <2>2
      <3>2. within[n - 1] = [h \in Goroutines |-> Within(n - 1, h, g)]
        BY <3>1
      <3>3. ASSUME NEW h \in Goroutines
            PROVE  Within(n, h, g) = (h = g \/ (h \in Waiters /\ within[n - 1][waiting[h].gid]))
        <4>1. Within(n, h, g) \in BOOLEAN
          BY DEF Within
        <4>2. Within(n, h, g) <=> h = g \/ (h \in Waiters /\ Within(n - 1, waiting[h].gid, g))
          BY <2>2, WalkTurn
        <4>3. h \in Waiters => within[n - 1][waiting[h].gid] = Within(n - 1, waiting[h].gid, g)
          BY <3>2, <1>3
        <4> QED
          BY <4>1, <4>2, <4>3
      <3> HIDE DEF within
      <3>4. within[n] = [h \in Goroutines |-> Within(n, h, g)]
        BY <1>2
      <3> QED
        BY <3>3, <3>4, <2>2
    <2> QED
      BY <2>1, <2>2
  <1>5. within = [n \in Nat |-> Turn(within, n)]
    <2>1. within = [n \in Nat |-> within[n]]
      OBVIOUS
    <2> HIDE DEF within, Turn
    <2> QED
      BY <1>4, <2>1
  <1> HIDE DEF Turn
  <1>6. walk = [n \in Nat |-> Turn(walk, n)]
    <2> HIDE DEF within
    <2> QED
      BY <1>5
  <1> HIDE DEF walk, within
  <1>7. \A n \in Nat : walk[n] = Turn(walk, n)
    BY <1>6
  <1> DEFINE differs == {n \in Nat : walk[n] # within[n]}
  <1>8. differs = {}
    <2> SUFFICES ASSUME differs # {} PROVE FALSE
      OBVIOUS
    <2>1. PICK m \in differs : \A n \in differs : m <= n
      BY LeastNumber
    <2>2. m \in Nat /\ walk[m] # within[m]
      OBVIOUS
    <2>3. m # 0
      BY <2>2, <1>4, <1>7 DEF Turn
    <2>4. m - 1 \in Nat /\ ~(m <= m - 1)
      BY <2>2, <2>3
    <2>5. walk[m - 1] = within[m - 1]
      BY <2>1, <2>4
    <2>6. Turn(walk, m) = Turn(within, m)
      BY <2>3, <2>5 DEF Turn
    <2> QED
      BY <2>2, <2>6, <1>4, <1>7
  <1>9. walk[N] = within[N]
    BY <1>8
  <1>10. within[N][b] = Within(N, b, g)
    BY <1>2
  <1> QED
    BY <1>1, <1>9, <1>10


\* The waiters of which the walk has found, after n steps, that they wait for g.
FoundBy(n, g) == {h \in Waiters \ {g} : Within(n, h, g)}

\* Each step finds a waiter more, until one finds none: of fewer waiters than
\* steps, one step before the last finds none.
LEMMA WalkSettles ==
    ASSUME WaitsTyped, IsFiniteSet(Waiters), NEW g \in Goroutines
    PROVE  \E n \in 1..Cardinality(Waiters) + 1 : FoundBy(n, g) = FoundBy(n + 1, g)
  <1> DEFINE N == Cardinality(Waiters) + 1
  <1>1. N \in Nat \ {0}
    BY FS_CardinalityType
  <1>2. ASSUME NEW n \in Nat
        PROVE  /\ IsFiniteSet(FoundBy(n, g)) /\ Cardinality(FoundBy(n, g)) \in Nat
               /\ Cardinality(FoundBy(n, g)) <= Cardinality(Waiters)
    <2>1. FoundBy(n, g) \in SUBSET Waiters
      BY DEF FoundBy
    <2>2. IsFiniteSet(FoundBy(n, g)) /\ Cardinality(FoundBy(n, g)) <= Cardinality(Waiters)
      BY <2>1, FS_Subset
    <2> QED
      BY <2>2, FS_CardinalityType
  <1>3. ASSUME NEW n \in Nat PROVE FoundBy(n, g) \in SUBSET FoundBy(n + 1, g)
    BY DEF FoundBy, Within
  <1> DEFINE grows == \A n \in 1..N : FoundBy(n, g) # FoundBy(n + 1, g)
             small == {n \in Nat : n # 0 /\ n <= N + 1 /\ Cardinality(FoundBy(n, g)) < n - 1}
  <1>4. ASSUME grows PROVE small = {}
    <2> SUFFICES ASSUME small # {} PROVE FALSE
      OBVIOUS
    <2>1. PICK m \in small : \A n \in small : m <= n
      BY LeastNumber
    <2>2. m \in Nat /\ m # 0 /\ m <= N + 1 /\ Cardinality(FoundBy(m, g)) < m - 1
      OBVIOUS
    <2>3. m # 1
      BY <2>2, <1>2
    <2>4. m - 1 \in 1..N /\ m - 1 \in Nat /\ m - 1 + 1 = m
      BY <2>2, <2>3, <1>1
    <2>5. ~(Cardinality(FoundBy(m - 1, g)) < m - 1 - 1)
      <3>1. m - 1 \notin small
        BY <2>1, <2>4
      <3> QED
        BY <3>1, <2>4, <1>1
    <2>6. FoundBy(m - 1, g) \in SUBSET FoundBy(m, g) /\ FoundBy(m - 1, g) # FoundBy(m, g)
      BY <2>4, <1>3, <1>4
    <2>7. Cardinality(FoundBy(m - 1, g)) <= Cardinality(FoundBy(m, g))
          /\ Cardinality(FoundBy(m - 1, g)) # Cardinality(FoundBy(m, g))
      BY <2>2, <2>6, <1>2, FS_Subset
    <2>8. Cardinality(FoundBy(m - 1, g)) \in Nat /\ Cardinality(FoundBy(m, g)) \in Nat
      BY <2>2, <2>4, <1>2
    <2> QED
      BY <2>2, <2>5, <2>7, <2>8
  <1>5. ~grows
    <2> SUFFICES ASSUME grows PROVE FALSE
      OBVIOUS
    <2>1. N + 1 \in Nat /\ N + 1 # 0 /\ N + 1 \notin small
      BY <1>1, <1>4
    <2>2. ~(Cardinality(FoundBy(N + 1, g)) < N)
      BY <2>1, <1>1
    <2>3. Cardinality(FoundBy(N + 1, g)) <= Cardinality(Waiters)
          /\ Cardinality(FoundBy(N + 1, g)) \in Nat /\ Cardinality(Waiters) \in Nat
      BY <2>1, <1>2, FS_CardinalityType
    <2> QED
      BY <2>2, <2>3
  <1> QED
    BY <1>5

\* In every state c.waiting can be in, cycles or not, the walk's answer is
\* whether b waits for g.
LEMMA WalkDecidesWaits ==
    ASSUME WaitsTyped, IsFiniteSet(Waiters), NEW b \in Goroutines, NEW g \in Goroutines
    PROVE  waitsOnWalk(b, g) <=> waitsOn(b, g)
  <1> DEFINE N == Cardinality(Waiters) + 1
  <1>1. N \in Nat \ {0} /\ N = Cardinality(Waiters) + 1
    BY FS_CardinalityType
  <1> HIDE DEF N
  <1>2. waitsOnWalk(b, g) = Within(N, b, g)
    BY <1>1, WalkIsWithin
  <1>3. ASSUME Within(N, b, g), NEW S \in SUBSET Goroutines, b \in S, ClosedUnderWaits(S)
        PROVE  g \in S
    <2>1. PICK k \in 0..N - 1 : \E s \in [0..k -> Goroutines] : Chain(s, k, b, g)
      BY <1>3 DEF Within
    <2>2. PICK s \in [0..k -> Goroutines] : Chain(s, k, b, g)
      BY <2>1
    <2> DEFINE outside == {i \in Nat : i <= k /\ s[i] \notin S}
    <2>3. outside = {}
      <3> SUFFICES ASSUME outside # {} PROVE FALSE
        OBVIOUS
      <3>1. PICK m \in outside : \A n \in outside : m <= n
        BY LeastNumber
      <3>2. m \in Nat /\ m <= k /\ s[m] \notin S /\ k \in Nat
        BY <1>1
      <3>3. m # 0
        BY <3>2, <2>2, <1>3 DEF Chain
      <3>4. m - 1 \in Nat /\ m - 1 \in 0..k - 1 /\ m - 1 + 1 = m /\ m - 1 <= k /\ ~(m <= m - 1)
        BY <3>2, <3>3
      <3>5. s[m - 1] \in S
        BY <3>1, <3>4
      <3>6. s[m - 1] \in Waiters /\ waiting[s[m - 1]].gid = s[m]
        BY <3>4, <2>2 DEF Chain
      <3> QED
        BY <3>2, <3>5, <3>6, <1>3 DEF Waiters, ClosedUnderWaits
    <2>4. k \in Nat /\ s[k] = g
      BY <2>2, <1>1 DEF Chain
    <2> QED
      BY <2>3, <2>4
  <1>4. ASSUME ~Within(N, b, g) PROVE ~waitsOn(b, g)
    <2>1. PICK n \in 1..N : FoundBy(n, g) = FoundBy(n + 1, g)
      BY <1>1, WalkSettles
    <2>2. n \in Nat /\ n # 0 /\ n <= N /\ n + 1 \in Nat /\ n + 1 # 0 /\ n + 1 - 1 = n
      BY <1>1
    <2> DEFINE C == {h \in Goroutines : ~Within(n, h, g)}
    <2>3. b \in C
      BY <1>1, <1>4, <2>2 DEF Within
    <2>4. g \notin C
      BY <2>2, WalkTurn
    <2>5. ASSUME NEW h \in C, waiting[h] # NoBuild PROVE waiting[h].gid \in C
      <3>1. h \in Goroutines /\ ~Within(n, h, g) /\ h \in Waiters /\ waiting[h].gid \in Goroutines
        BY <2>5 DEF Waiters, WaitsTyped
      <3>2. h # g
        BY <2>4
      <3>3. ASSUME Within(n, waiting[h].gid, g) PROVE FALSE
        <4>1. Within(n + 1, h, g)
          BY <3>1, <3>3, <2>2, WalkTurn
        <4>2. h \in FoundBy(n + 1, g)
          BY <4>1, <3>1, <3>2 DEF FoundBy
        <4> QED
          BY <4>2, <2>1, <3>1 DEF FoundBy
      <3> QED
        BY <3>1, <3>3
    <2> QED
      BY <2>3, <2>4, <2>5 DEF waitsOn, ClosedUnderWaits
  <1> QED
    BY <1>2, <1>3, <1>4 DEF waitsOn

\* Only finitely many goroutines are ever waiting: each step adds at most one.
WaitersFinite == IsFiniteSet(Waiters)
LEMMA WaitersStep == TypeInv /\ WaitersFinite /\ [Next]_vars => WaitersFinite'
  <1> SUFFICES ASSUME WaitsTyped, WaitersFinite, [Next]_vars PROVE IsFiniteSet(Waiters')
    BY DEF WaitersFinite, WaitsTyped, TypeInv, TypeOK
  <1>1. ASSUME NEW g \in Goroutines,
               \/ UNCHANGED waiting
               \/ \E w : waiting' = [waiting EXCEPT ![g] = w]
        PROVE  IsFiniteSet(Waiters')
    <2>1. IsFiniteSet(Waiters \cup {g})
      BY FS_AddElement DEF WaitersFinite
    <2>2. Waiters' \in SUBSET (Waiters \cup {g})
      BY <1>1 DEF WaitsTyped, Waiters
    <2> QED
      BY <2>1, <2>2, FS_Subset
  <1>2. CASE UNCHANGED waiting
    BY <1>2 DEF WaitersFinite, Waiters
  <1>3. ASSUME NEW g \in Goroutines, ResolveSingleton(g) \/ Wake(g)
        PROVE  IsFiniteSet(Waiters')
    BY <1>1, <1>3 DEF ResolveSingleton, Wake
  <1>4. ASSUME NEW g \in Goroutines,
               LookupHit(g) \/ LookupMiss(g) \/ EnterBuild(g) \/ AskNext(g)
                 \/ Construct(g) \/ Publish(g) \/ CloseDone(g) \/ Keep(g) \/ Return(g)
        PROVE  UNCHANGED waiting
    BY <1>4 DEF LookupHit, LookupMiss, EnterBuild, AskNext, Construct, Publish, CloseDone,
                Keep, Return
  <1>5. ASSUME NEW g \in Goroutines, Panic(g) \/ CloseScope(g)
        PROVE  UNCHANGED waiting
    BY <1>5 DEF Panic, CloseScope
  <1>6. ASSUME NEW g \in Goroutines, NEW n \in Names, NEW via \in Resolvers, Resolve(g, n, via)
        PROVE  UNCHANGED waiting
    BY <1>6 DEF Resolve
  <1>7. ASSUME NEW t \in LateGiven, RegisterServiceInstance(t)
        PROVE  UNCHANGED waiting
    BY <1>7 DEF RegisterServiceInstance
  <1>8. CASE UNCHANGED vars
    BY <1>2, <1>8 DEF vars
  <1> QED
    BY <1>2, <1>3, <1>4, <1>5, <1>6, <1>7, <1>8 DEF Next, Step

\* The walk of waitsOn in di_guard.go, of at most len(c.waiting)+1 steps, tells
\* exactly whether the builder b of a singleton waits, through any number of
\* other goroutines' builds, for g: no cycle of waits is too long for it, and
\* it refuses none that is not there. Any number of goroutines may resolve.
THEOREM WalkDecides == Spec => []WalkIsReachability
  <1>1. Init => WaitersFinite
    <2> SUFFICES ASSUME Init PROVE IsFiniteSet(Waiters)
      BY DEF WaitersFinite
    <2>1. Waiters = {}
      BY DEF Init, Waiters
    <2> QED
      BY <2>1, FS_EmptySet
  <1>2. TypeInv /\ WaitersFinite => WalkIsReachability
    BY WalkDecidesWaits DEF TypeInv, TypeOK, WaitsTyped, WaitersFinite, WalkIsReachability
  <1> QED
    BY <1>1, <1>2, TypeInit, TypeStep, WaitersStep, PTL DEF Spec

(***************************************************************************)
(* The builders                                                            *)
(***************************************************************************)
\* Every singleton on a stack is in c.builds under that goroutine, and so is
\* the one a goroutine is about to enter or has just left, which is then not
\* on its stack.
StackOwned ==
    \A g \in Goroutines : \A i \in 1..Len(stacks[g]) :
        stacks[g][i].type \in Singletons => builds[stacks[g][i].type] = g
PendingOwned ==
    \A g \in Goroutines :
        pc[g] \in {"enter", "built"} /\ asked[g].type \in Singletons =>
            builds[asked[g].type] = g /\ ~OnStack(g, asked[g].type)
BuildInv == NoNestedBuild /\ StackOwned /\ PendingOwned

\* Steps that move a goroutine elsewhere.
LEMMA BuildFrame ==
    ASSUME BuildInv, UNCHANGED <<stacks, builds>>,
           \A h \in Goroutines : pc'[h] \in {"enter", "built"} /\ asked'[h].type \in Singletons
               => pc[h] \in {"enter", "built"} /\ asked'[h] = asked[h]
    PROVE  BuildInv'
  BY DEF BuildInv, NoNestedBuild, StackOwned, PendingOwned, OnStack

\* leaveBuild leaves what it popped pending under the same goroutine.
LEMMA LeaveKeepsBuilds ==
    ASSUME TypeInv, BuildInv, NEW g \in Goroutines, stacks[g] # << >>,
           NEW r, LeaveWith(g, r), UNCHANGED builds
    PROVE  BuildInv'
  <1> DEFINE s == stacks[g]
             n == Len(s)
  <1>1. /\ Len(Pop(s)) = n - 1 /\ n \in Nat \ {0}
        /\ \A i \in 1..n - 1 : Pop(s)[i] = s[i]
    BY PopProperties DEF TypeInv, TypeOK
  <1>2. stacks'[g] = Pop(s) /\ \A h \in Goroutines \ {g} : stacks'[h] = stacks[h]
    BY DEF LeaveWith, TypeInv, TypeOK
  <1>3. asked'[g].type = s[n].type /\ \A h \in Goroutines \ {g} : asked'[h] = asked[h]
    BY DEF LeaveWith, TypeInv, TypeOK, Top
  <1>4. \A h \in Goroutines \ {g} : pc'[h] = pc[h]
    BY DEF LeaveWith, Goto, TypeInv, TypeOK
  <1> HIDE DEF s, n
  <1>5. \A i \in 1..Len(stacks'[g]) : i \in 1..n /\ i # n /\ stacks'[g][i] = s[i]
    BY <1>1, <1>2
  <1>6. n \in 1..n
    BY <1>1
  <1>7. NoNestedBuild'
    BY <1>2, <1>5 DEF BuildInv, NoNestedBuild, s, n
  <1>8. StackOwned'
    BY <1>2, <1>5 DEF BuildInv, StackOwned, s, n
  <1>9. s[n].type \in Singletons => builds[s[n].type] = g
    BY <1>6 DEF BuildInv, StackOwned, s, n
  <1>10. \A i \in 1..Len(stacks'[g]) : stacks'[g][i].type # s[n].type
    BY <1>5, <1>6 DEF BuildInv, NoNestedBuild, s, n
  <1>11. PendingOwned'
    BY <1>2, <1>3, <1>4, <1>9, <1>10 DEF BuildInv, PendingOwned, OnStack
  <1> QED
    BY <1>7, <1>8, <1>11 DEF BuildInv

\* Every step keeps one builder per singleton.
LEMMA BuildStep == TypeInv /\ BuildInv /\ [Next]_vars => BuildInv'
  <1> SUFFICES ASSUME TypeInv, BuildInv, [Next]_vars PROVE BuildInv'
    OBVIOUS
  <1>1. ASSUME NEW g \in Goroutines, NEW n \in Names, NEW via \in Resolvers,
               Resolve(g, n, via)
        PROVE  BuildInv'
    BY <1>1, BuildFrame DEF Resolve, Goto, TypeInv, TypeOK
  <1>2. ASSUME NEW g \in Goroutines, LookupHit(g)
        PROVE  BuildInv'
    BY <1>2, BuildFrame DEF LookupHit, Answer, Goto, TypeInv, TypeOK
  <1>3. ASSUME NEW g \in Goroutines, LookupMiss(g)
        PROVE  BuildInv'
    <2>1. pc'[g] = "enter" => asked' = asked /\ asked[g].type \notin Singletons
      BY <1>3, ConstantsAssumption DEF LookupMiss, Answer, Goto, TypeInv, TypeOK
    <2>2. pc'[g] \in {"singleton", "enter", "return"}
      BY <1>3 DEF LookupMiss, Answer, Goto, TypeInv, TypeOK
    <2>3. \A h \in Goroutines \ {g} : pc'[h] = pc[h] /\ asked'[h] = asked[h]
      BY <1>3 DEF LookupMiss, Answer, Goto, TypeInv, TypeOK
    <2>4. UNCHANGED <<stacks, builds>>
      BY <1>3 DEF LookupMiss
    <2> QED
      BY <2>1, <2>2, <2>3, <2>4, BuildFrame
  <1>4. ASSUME NEW g \in Goroutines, ResolveSingleton(g)
        PROVE  BuildInv'
    <2> DEFINE t == asked[g].type
    <2>1. t \in Types
      BY <1>4 DEF TypeInv, Located, ResolveSingleton
    <2>2. CASE UNCHANGED builds /\ pc'[g] \in {"return", "blocked"}
      BY <1>4, <2>2, BuildFrame DEF ResolveSingleton, Answer, Goto, TypeInv, TypeOK
    <2>3. CASE ~InFlight(t) /\ builds' = [builds EXCEPT ![t] = g] /\ Goto(g, "enter")
      <3>1. builds[t] = NoOne
        BY <2>3 DEF InFlight
      <3>2. \A h \in Goroutines : h # NoOne
        BY ConstantsAssumption
      <3>3. builds'[t] = g /\ \A u \in Types \ {t} : builds'[u] = builds[u]
        BY <2>1, <2>3 DEF TypeInv, TypeOK
      <3>4. UNCHANGED <<stacks, asked>> /\ \A h \in Goroutines \ {g} : pc'[h] = pc[h]
        BY <1>4, <2>3 DEF ResolveSingleton, Goto, TypeInv, TypeOK
      <3> HIDE DEF t
      <3>5. Singletons \subseteq Types
        BY ConstantsAssumption
      <3>6. NoNestedBuild'
        BY <3>4 DEF BuildInv, NoNestedBuild
      <3>7. StackOwned'
        BY <3>1, <3>2, <3>3, <3>4, <3>5 DEF BuildInv, StackOwned
      <3>8. t \in Singletons => ~OnStack(g, t)
        BY <3>1, <3>2 DEF BuildInv, StackOwned, OnStack
      <3>9. PendingOwned'
        <4> SUFFICES ASSUME NEW h \in Goroutines, pc'[h] \in {"enter", "built"},
                            asked[h].type \in Singletons
                     PROVE  builds'[asked[h].type] = h /\ ~OnStack(h, asked[h].type)'
          BY <3>4 DEF PendingOwned
        <4>1. CASE h = g
          BY <3>3, <3>4, <3>8, <4>1 DEF OnStack, t
        <4>2. CASE h # g
          BY <3>1, <3>2, <3>3, <3>4, <3>5, <4>2 DEF BuildInv, PendingOwned, OnStack
        <4> QED
          BY <4>1, <4>2
      <3> QED
        BY <3>6, <3>7, <3>9 DEF BuildInv
    <2> QED
      BY <1>4, <2>2, <2>3 DEF ResolveSingleton, Answer, Goto, TypeInv, TypeOK
  <1>5. ASSUME NEW g \in Goroutines, EnterBuild(g)
        PROVE  BuildInv'
    <2> DEFINE t == asked[g].type
               f == [type |-> t, via |-> asked[g].via, next |-> 1]
               s == stacks[g]
    <2>1. CASE UNCHANGED stacks /\ Goto(g, "built")
      BY <1>5, <2>1, BuildFrame DEF EnterBuild, Goto, TypeInv, TypeOK
    <2>2. CASE ~cycleIn(g, t) /\ stacks' = [stacks EXCEPT ![g] = Append(@, f)] /\ Goto(g, "args")
      <3>1. f \in Frame /\ s \in Seq(Frame)
        <4>1. asked[g] \in [type : Types, via : Resolvers]
          BY <1>5 DEF TypeInv, Located, EnterBuild
        <4>2. f \in Frame
          BY <4>1 DEF Frame
        <4> QED
          BY <4>2 DEF TypeInv, TypeOK
      <3>2. /\ Len(Append(s, f)) = Len(s) + 1 /\ Append(s, f)[Len(s) + 1] = f
            /\ \A i \in 1..Len(s) : Append(s, f)[i] = s[i]
        BY <3>1, AppendProperties
      <3>3. stacks'[g] = Append(s, f) /\ \A h \in Goroutines \ {g} : stacks'[h] = stacks[h]
        BY <2>2 DEF TypeInv, TypeOK
      <3>4. \A i \in 1..Len(s) : s[i].type # t
        BY <2>2 DEF cycleIn, OnStack
      <3>5. t \in Singletons => builds[t] = g
        BY <1>5 DEF BuildInv, PendingOwned, EnterBuild
      <3>6. UNCHANGED <<builds, asked>> /\ \A h \in Goroutines \ {g} : pc'[h] = pc[h]
        BY <1>5, <2>2 DEF EnterBuild, Goto, TypeInv, TypeOK
      <3>7. pc'[g] = "args"
        BY <2>2 DEF Goto, TypeInv, TypeOK
      <3>8. f.type = t
        OBVIOUS
      <3> HIDE DEF f, s, t
      <3>9. \A i \in 1..Len(stacks'[g]) :
               \/ i \in 1..Len(s) /\ stacks'[g][i] = s[i]
               \/ i = Len(s) + 1 /\ stacks'[g][i] = f
        <4>1. Len(s) \in Nat
          BY <3>1
        <4> QED
          BY <3>2, <3>3, <4>1
      <3>10. NoNestedBuild'
        <4> SUFFICES ASSUME NEW h \in Goroutines,
                            NEW i \in 1..Len(stacks'[h]), NEW j \in 1..Len(stacks'[h]),
                            stacks'[h][i].type = stacks'[h][j].type
                     PROVE  i = j
          BY DEF NoNestedBuild
        <4>1. CASE h = g
          <5>1. CASE i \in 1..Len(s) /\ j \in 1..Len(s)
            <6>1. Len(s) \in Nat
              BY <3>1
            <6>2. stacks'[g][i] = s[i] /\ stacks'[g][j] = s[j]
              BY <3>9, <4>1, <5>1, <6>1
            <6> QED
              BY <4>1, <5>1, <6>2 DEF BuildInv, NoNestedBuild, s
          <5>2. CASE i \notin 1..Len(s)
            BY <3>4, <3>8, <3>9, <4>1, <5>2
          <5>3. CASE j \notin 1..Len(s)
            BY <3>4, <3>8, <3>9, <4>1, <5>3
          <5> QED
            BY <5>1, <5>2, <5>3
        <4>2. CASE h # g
          BY <3>3, <4>2 DEF BuildInv, NoNestedBuild
        <4> QED
          BY <4>1, <4>2
      <3>11. StackOwned'
        BY <3>3, <3>5, <3>6, <3>8, <3>9 DEF BuildInv, StackOwned, s
      <3>12. PendingOwned'
        BY <3>3, <3>6, <3>7 DEF BuildInv, PendingOwned, OnStack
      <3> QED
        BY <3>10, <3>11, <3>12 DEF BuildInv
    <2> QED
      BY <1>5, <2>1, <2>2 DEF EnterBuild
  <1>6. ASSUME NEW g \in Goroutines, AskNext(g)
        PROVE  BuildInv'
    BY <1>6, BuildFrame DEF AskNext, Goto, TypeInv, TypeOK
  <1>7. ASSUME NEW g \in Goroutines, Construct(g)
        PROVE  BuildInv'
    BY <1>7, LeaveKeepsBuilds DEF Construct, TypeInv, Located
  <1>8. ASSUME NEW g \in Goroutines, Panic(g)
        PROVE  BuildInv'
    <2>1. stacks'[g] = << >> /\ \A h \in Goroutines \ {g} : stacks'[h] = stacks[h]
      BY <1>8 DEF Panic, TypeInv, TypeOK
    <2>2. pc'[g] = "idle" /\ \A h \in Goroutines \ {g} : pc'[h] = pc[h] /\ asked'[h] = asked[h]
      BY <1>8 DEF Panic, Goto, TypeInv, TypeOK
    <2>3. UNCHANGED builds
      BY <1>8 DEF Panic
    <2>4. \A i \in 1..Len(stacks'[g]) : FALSE
      BY <2>1
    <2> QED
      BY <2>1, <2>2, <2>3, <2>4 DEF BuildInv, NoNestedBuild, StackOwned, PendingOwned, OnStack
  <1>9. ASSUME NEW g \in Goroutines, Publish(g)
        PROVE  BuildInv'
    <2> DEFINE t == asked[g].type
    <2>1. t \in Singletons /\ builds[t] = g /\ ~OnStack(g, t)
      BY <1>9 DEF BuildInv, PendingOwned, Publish
    <2>2. \A u \in Types \ {t} : builds'[u] = builds[u]
      BY <1>9 DEF Publish, BuildsWithout, TypeInv, TypeOK
    <2>3. /\ pc'[g] = "close" /\ \A h \in Goroutines \ {g} : pc'[h] = pc[h]
          /\ UNCHANGED <<stacks, asked>>
      BY <1>9 DEF Publish, Goto, TypeInv, TypeOK
    <2> HIDE DEF t
    <2>4. Singletons \subseteq Types
      BY ConstantsAssumption
    <2>5. NoNestedBuild'
      BY <2>3 DEF BuildInv, NoNestedBuild
    <2>6. StackOwned'
      BY <2>1, <2>2, <2>3, <2>4 DEF BuildInv, StackOwned, OnStack
    <2>7. PendingOwned'
      BY <2>1, <2>2, <2>3, <2>4 DEF BuildInv, PendingOwned, OnStack
    <2> QED
      BY <2>5, <2>6, <2>7 DEF BuildInv
  <1>10. ASSUME NEW g \in Goroutines, CloseDone(g)
         PROVE  BuildInv'
    BY <1>10, BuildFrame DEF CloseDone
  <1>11. ASSUME NEW g \in Goroutines, Wake(g) \/ Keep(g)
         PROVE  BuildInv'
    BY <1>11, BuildFrame DEF Wake, Keep, Goto, TypeInv, TypeOK
  <1>12. ASSUME NEW g \in Goroutines, Return(g)
         PROVE  BuildInv'
    <2>1. CASE UNCHANGED stacks /\ Goto(g, "idle") /\ asked' = [asked EXCEPT ![g] = NoAsk]
      BY <1>12, <2>1, BuildFrame DEF Return, Goto, TypeInv, TypeOK
    <2>2. CASE stacks[g] # << >> /\ Advance(g) /\ Goto(g, "args") /\ UNCHANGED asked
      <3> DEFINE s == stacks[g]
                 k == Len(s)
      <3>1. k \in 1..k /\ s \in Seq(Frame) /\ s[k] \in Frame
        BY <2>2, PopProperties DEF TypeInv, TypeOK
      <3>2. /\ stacks'[g] = [s EXCEPT ![k] = [s[k] EXCEPT !.next = @ + 1]]
            /\ \A h \in Goroutines \ {g} : stacks'[h] = stacks[h]
        BY <2>2 DEF Advance, TypeInv, TypeOK
      <3>3. [s[k] EXCEPT !.next = @ + 1] \in Frame /\ [s[k] EXCEPT !.next = @ + 1].type = s[k].type
        BY <3>1 DEF Frame
      <3>4. /\ Len(stacks'[g]) = Len(s)
            /\ \A i \in 1..Len(s) : stacks'[g][i].type = s[i].type
        BY <3>1, <3>2, <3>3, ExceptSeq
      <3>5. /\ pc'[g] = "args" /\ \A h \in Goroutines \ {g} : pc'[h] = pc[h]
            /\ UNCHANGED <<builds, asked>>
        BY <1>12, <2>2 DEF Return, Goto, TypeInv, TypeOK
      <3> HIDE DEF k
      <3>6. \A h \in Goroutines :
               /\ Len(stacks'[h]) = Len(stacks[h])
               /\ \A i \in 1..Len(stacks[h]) : stacks'[h][i].type = stacks[h][i].type
        <4>1. \A h \in Goroutines \ {g} : stacks'[h] = stacks[h]
          BY <3>2
        <4> QED
          BY <3>4, <4>1
      <3>7. NoNestedBuild' /\ StackOwned'
        BY <3>5, <3>6 DEF BuildInv, NoNestedBuild, StackOwned
      <3>8. PendingOwned'
        BY <3>2, <3>5 DEF BuildInv, PendingOwned, OnStack
      <3> QED
        BY <3>7, <3>8 DEF BuildInv
    <2>3. CASE stacks[g] # << >> /\ LeaveWith(g, ret[g])
      BY <1>12, <2>3, LeaveKeepsBuilds DEF Return
    <2> QED
      BY <1>12, <2>1, <2>2, <2>3 DEF Return
  <1>13. ASSUME NEW g \in Goroutines, CloseScope(g)
         PROVE  BuildInv'
    BY <1>13, BuildFrame DEF CloseScope
  <1>14. ASSUME NEW t \in LateGiven, RegisterServiceInstance(t)
         PROVE  BuildInv'
    BY <1>14, BuildFrame DEF RegisterServiceInstance
  <1>15. CASE UNCHANGED vars
    BY <1>15, BuildFrame DEF vars
  <1> QED
    BY <1>1, <1>2, <1>3, <1>4, <1>5, <1>6, <1>7, <1>8, <1>9, <1>10, <1>11, <1>12, <1>13,
       <1>14, <1>15 DEF Next, Step

\* One goroutine builds a singleton at a time, c.builds names it, and no
\* goroutine enters a constructor it is already inside.
THEOREM OneBuilderAtATime == Spec => [](OneBuilder /\ NoNestedBuild)
  <1>1. Init => BuildInv
    BY DEF Init, BuildInv, NoNestedBuild, StackOwned, PendingOwned, OnStack
  <1>2. BuildInv => OneBuilder /\ NoNestedBuild
    BY DEF BuildInv, StackOwned, OneBuilder, OnStack
  <1> QED
    BY <1>1, <1>2, TypeInit, TypeStep, BuildStep, PTL DEF Spec

(***************************************************************************)
(* The wake-ups                                                            *)
(***************************************************************************)
\* Steps that neither start nor end a wait.
LEMMA BlockedFrame ==
    ASSUME BlockedHasBuilder, UNCHANGED <<builds, waiting>>,
           \A h \in Goroutines : pc'[h] = "blocked" => pc[h] = "blocked",
           \A h \in Goroutines : pc[h] = "close" => pc'[h] = "close" /\ asked'[h] = asked[h],
           TypeInv
    PROVE  BlockedHasBuilder'
  <1> SUFFICES ASSUME NEW g \in Goroutines, pc'[g] = "blocked"
               PROVE  /\ waiting[g] # NoBuild
                      /\ \/ builds[waiting[g].type] = waiting[g].gid
                         \/ /\ pc'[waiting[g].gid] = "close"
                            /\ asked'[waiting[g].gid].type = waiting[g].type
    BY DEF BlockedHasBuilder
  <1>1. waiting[g] # NoBuild
    BY DEF BlockedHasBuilder
  <1>2. waiting[g].gid \in Goroutines
    BY <1>1 DEF TypeInv, TypeOK
  <1> QED
    BY <1>1, <1>2 DEF BlockedHasBuilder

\* Every step keeps a builder for those who wait.
LEMMA BlockedStep ==
    TypeInv /\ BuildInv /\ BlockedHasBuilder /\ [Next]_vars => BlockedHasBuilder'
  <1> SUFFICES ASSUME TypeInv, BuildInv, BlockedHasBuilder, [Next]_vars
               PROVE  BlockedHasBuilder'
    OBVIOUS
  <1>1. ASSUME NEW g \in Goroutines, NEW n \in Names, NEW via \in Resolvers,
               Resolve(g, n, via)
        PROVE  BlockedHasBuilder'
    BY <1>1, BlockedFrame DEF Resolve, Goto, TypeInv, TypeOK
  <1>2. ASSUME NEW g \in Goroutines,
               LookupHit(g) \/ LookupMiss(g) \/ AskNext(g) \/ Keep(g) \/ Panic(g)
        PROVE  BlockedHasBuilder'
    BY <1>2, BlockedFrame
       DEF LookupHit, LookupMiss, AskNext, Keep, Panic, Answer, Goto, TypeInv, TypeOK
  <1>3. ASSUME NEW g \in Goroutines, EnterBuild(g) \/ Construct(g) \/ Return(g)
        PROVE  BlockedHasBuilder'
    BY <1>3, BlockedFrame
       DEF EnterBuild, Construct, Return, LeaveWith, Advance, Goto, TypeInv, TypeOK
  <1>4. ASSUME NEW g \in Goroutines, ResolveSingleton(g)
        PROVE  BlockedHasBuilder'
    <2> DEFINE t == asked[g].type
    <2>1. t \in Types /\ pc[g] = "singleton"
      BY <1>4 DEF TypeInv, Located, ResolveSingleton
    <2>2. /\ UNCHANGED asked
          /\ \A h \in Goroutines \ {g} : pc'[h] = pc[h]
      BY <1>4 DEF ResolveSingleton, Answer, Goto, TypeInv, TypeOK
    <2>3. CASE UNCHANGED <<builds, waiting>> /\ pc'[g] = "return"
      BY <2>1, <2>2, <2>3, BlockedFrame
    <2>4. CASE /\ ~InFlight(t) /\ builds' = [builds EXCEPT ![t] = g] /\ UNCHANGED waiting
               /\ pc'[g] = "enter"
      <3> SUFFICES ASSUME NEW h \in Goroutines, pc'[h] = "blocked"
                   PROVE  /\ waiting[h] # NoBuild
                          /\ \/ builds'[waiting[h].type] = waiting[h].gid
                             \/ /\ pc'[waiting[h].gid] = "close"
                                /\ asked'[waiting[h].gid].type = waiting[h].type
        BY <2>4 DEF BlockedHasBuilder
      <3>1. pc[h] = "blocked" /\ waiting[h] # NoBuild
        BY <2>2, <2>4 DEF BlockedHasBuilder
      <3>2. waiting[h].gid \in Goroutines /\ waiting[h].type \in Types
        BY <3>1 DEF TypeInv, TypeOK
      <3>3. CASE builds[waiting[h].type] = waiting[h].gid
        <4>1. waiting[h].type # t
          BY <2>4, <3>2, <3>3, ConstantsAssumption DEF InFlight
        <4> QED
          BY <2>4, <3>1, <3>2, <3>3, <4>1 DEF TypeInv, TypeOK
      <3>4. CASE pc[waiting[h].gid] = "close" /\ asked[waiting[h].gid].type = waiting[h].type
        BY <2>1, <2>2, <3>1, <3>2, <3>4
      <3> QED
        BY <3>1, <3>3, <3>4 DEF BlockedHasBuilder
    <2>5. CASE /\ InFlight(t) /\ UNCHANGED builds
               /\ waiting' = [waiting EXCEPT ![g] = [type |-> t, gid |-> builds[t]]]
      <3>1. builds[t] \in Goroutines
        BY <2>1, <2>5 DEF InFlight, TypeInv, TypeOK
      <3>2. /\ waiting'[g] = [type |-> t, gid |-> builds[t]]
            /\ \A h \in Goroutines \ {g} : waiting'[h] = waiting[h]
        BY <2>5 DEF TypeInv, TypeOK
      <3>3. waiting'[g] # NoBuild
        BY <3>1, <3>2, ConstantsAssumption DEF NoBuild
      <3> SUFFICES ASSUME NEW h \in Goroutines, h # g, pc[h] = "blocked"
                   PROVE  /\ waiting[h] # NoBuild
                          /\ \/ builds[waiting[h].type] = waiting[h].gid
                             \/ /\ pc'[waiting[h].gid] = "close"
                                /\ asked[waiting[h].gid].type = waiting[h].type
        BY <2>2, <2>5, <3>2, <3>3 DEF BlockedHasBuilder
      <3>4. waiting[h] # NoBuild
        BY DEF BlockedHasBuilder
      <3>5. waiting[h].gid \in Goroutines
        BY <3>4 DEF TypeInv, TypeOK
      <3> QED
        BY <2>1, <2>2, <3>4, <3>5 DEF BlockedHasBuilder
    <2> QED
      BY <1>4, <2>3, <2>4, <2>5 DEF ResolveSingleton, Answer, Goto, TypeInv, TypeOK
  <1>5. ASSUME NEW g \in Goroutines, Publish(g)
        PROVE  BlockedHasBuilder'
    <2> DEFINE t == asked[g].type
    <2>1. t \in Singletons /\ t \in Types /\ builds[t] = g /\ pc[g] = "built"
      BY <1>5, ConstantsAssumption DEF BuildInv, PendingOwned, Publish
    <2>2. /\ \A u \in Types \ {t} : builds'[u] = builds[u]
          /\ UNCHANGED <<waiting, asked>>
          /\ pc'[g] = "close" /\ \A h \in Goroutines \ {g} : pc'[h] = pc[h]
      BY <1>5 DEF Publish, BuildsWithout, Goto, TypeInv, TypeOK
    <2> SUFFICES ASSUME NEW h \in Goroutines, pc[h] = "blocked", h # g
                 PROVE  /\ waiting[h] # NoBuild
                        /\ \/ builds'[waiting[h].type] = waiting[h].gid
                           \/ /\ pc'[waiting[h].gid] = "close"
                              /\ asked[waiting[h].gid].type = waiting[h].type
      BY <2>2 DEF BlockedHasBuilder
    <2>3. waiting[h] # NoBuild
      BY DEF BlockedHasBuilder
    <2>4. waiting[h].gid \in Goroutines /\ waiting[h].type \in Types
      BY <2>3 DEF TypeInv, TypeOK
    <2>5. CASE builds[waiting[h].type] = waiting[h].gid
      BY <2>1, <2>2, <2>3, <2>4, <2>5
    <2>6. CASE pc[waiting[h].gid] = "close" /\ asked[waiting[h].gid].type = waiting[h].type
      BY <2>1, <2>2, <2>3, <2>4, <2>6
    <2> QED
      BY <2>5, <2>6 DEF BlockedHasBuilder
  <1>6. ASSUME NEW g \in Goroutines, CloseDone(g)
        PROVE  BlockedHasBuilder'
    <2>1. pc[g] = "close" /\ UNCHANGED <<builds, waiting, asked>>
      BY <1>6 DEF CloseDone
    <2>2. \A h \in Goroutines : pc'[h] =
             IF h \in Waking(asked[g].type, g) THEN "woken"
             ELSE IF h = g THEN "return" ELSE pc[h]
      BY <1>6 DEF CloseDone
    <2> SUFFICES ASSUME NEW h \in Goroutines, pc'[h] = "blocked"
                 PROVE  /\ waiting[h] # NoBuild
                        /\ \/ builds[waiting[h].type] = waiting[h].gid
                           \/ /\ pc'[waiting[h].gid] = "close"
                              /\ asked[waiting[h].gid].type = waiting[h].type
      BY <2>1 DEF BlockedHasBuilder
    <2>3. pc[h] = "blocked" /\ h \notin Waking(asked[g].type, g)
      BY <2>2
    <2>4. waiting[h] # NoBuild
      BY <2>3 DEF BlockedHasBuilder
    <2>5. waiting[h] \in [type : Types, gid : Goroutines]
      BY <2>4 DEF TypeInv, TypeOK
    <2>6. CASE pc[waiting[h].gid] = "close" /\ asked[waiting[h].gid].type = waiting[h].type
      <3>1. waiting[h] # [type |-> asked[g].type, gid |-> g]
        BY <2>3 DEF Waking
      <3>2. waiting[h].gid # g
        BY <2>5, <2>6, <3>1
      <3>3. waiting[h].gid \notin Waking(asked[g].type, g)
        BY <2>6 DEF Waking
      <3> QED
        BY <2>2, <2>4, <2>5, <2>6, <3>2, <3>3
    <2> QED
      BY <2>3, <2>4, <2>6 DEF BlockedHasBuilder
  <1>7. ASSUME NEW g \in Goroutines, Wake(g)
        PROVE  BlockedHasBuilder'
    <2>1. /\ pc[g] = "woken" /\ pc'[g] = "return" /\ UNCHANGED <<builds, asked>>
          /\ \A h \in Goroutines \ {g} : pc'[h] = pc[h] /\ waiting'[h] = waiting[h]
      BY <1>7 DEF Wake, Goto, TypeInv, TypeOK
    <2> SUFFICES ASSUME NEW h \in Goroutines, pc[h] = "blocked", h # g
                 PROVE  /\ waiting[h] # NoBuild
                        /\ \/ builds[waiting[h].type] = waiting[h].gid
                           \/ /\ pc'[waiting[h].gid] = "close"
                              /\ asked[waiting[h].gid].type = waiting[h].type
      BY <2>1 DEF BlockedHasBuilder
    <2>2. waiting[h] # NoBuild
      BY DEF BlockedHasBuilder
    <2>3. waiting[h].gid \in Goroutines
      BY <2>2 DEF TypeInv, TypeOK
    <2> QED
      BY <2>1, <2>2, <2>3 DEF BlockedHasBuilder
  <1>8. ASSUME NEW g \in Goroutines, CloseScope(g)
        PROVE  BlockedHasBuilder'
    BY <1>8, BlockedFrame DEF CloseScope
  <1>9. ASSUME NEW t \in LateGiven, RegisterServiceInstance(t)
        PROVE  BlockedHasBuilder'
    BY <1>9, BlockedFrame DEF RegisterServiceInstance
  <1>10. CASE UNCHANGED vars
    BY <1>10, BlockedFrame DEF vars
  <1> QED
    BY <1>1, <1>2, <1>3, <1>4, <1>5, <1>6, <1>7, <1>8, <1>9, <1>10 DEF Next, Step

\* Whoever waits in awaitBuild waits for a build that is still in c.builds or
\* whose builder is about to close its channel: no wake-up is lost.
THEOREM NoLostWakeUp == Spec => []BlockedHasBuilder
  <1>1. Init => BuildInv
    BY DEF Init, BuildInv, NoNestedBuild, StackOwned, PendingOwned, OnStack
  <1>2. Init => BlockedHasBuilder
    BY DEF Init, BlockedHasBuilder
  <1> QED
    BY <1>1, <1>2, TypeInit, TypeStep, BuildStep, BlockedStep, PTL DEF Spec

(***************************************************************************)
(* The order in which instances are cached                                 *)
(***************************************************************************)
\* A value keeps the place it was registered at, so one that is registered
\* while its constructor runs must have no singletons to stand after.
LateGivenTakeNothing ==
    \A t \in LateGiven \cap Singletons :
        \A i \in 1..Len(Args[t]) : AliasTarget(Args[t][i]) \notin Singletons

\* The first k - 1 parameters of t are cached, those that are singletons.
ArgsCached(t, k) ==
    \A i \in 1..Len(Args[t]) : i < k /\ AliasTarget(Args[t][i]) \in Singletons => IsCached(AliasTarget(Args[t][i]))

\* A frame asks for what it needs next, and has the answer when it goes on.
Asking == {"lookup", "singleton", "enter", "built", "close", "blocked", "woken", "return"}
Asks(f, t) == f.next <= Len(Needs(f.type)) /\ t = AliasTarget(Needs(f.type)[f.next])
Nested(g) ==
    /\ pc[g] = "idle" => stacks[g] = << >>
    /\ pc[g] \in Asking /\ stacks[g] # << >> => Asks(Top(g), asked[g].type)
    /\ \A i \in 1..Len(stacks[g]) - 1 : Asks(stacks[g][i], stacks[g][i + 1].type)

\* What a goroutine was answered is in the cache: the parameters of what it
\* builds or has built, and the singleton it asked for.
Found(g) ==
    /\ \A i \in 1..Len(scope[g]) : scope[g][i] \in Scopeds
    /\ \A i \in 1..Len(stacks[g]) : ArgsCached(stacks[g][i].type, stacks[g][i].next)
    /\ pc[g] = "built" /\ ret[g] = "ok" => ArgsCached(asked[g].type, Len(Args[asked[g].type]) + 1)
    /\ pc[g] \in {"close", "woken", "return"} /\ ret[g] = "ok" /\ asked[g].type \in Singletons =>
           IsCached(asked[g].type)
    /\ pc[g] = "blocked" => waiting[g].type = asked[g].type

\* What is built was not there before the first resolution.
NotProvided(t) == \A i \in 1..Len(Provided) : Provided[i] # t
Built(g) ==
    /\ pc[g] \in {"singleton", "enter", "built"} => NotProvided(asked[g].type)
    /\ \A i \in 1..Len(stacks[g]) : NotProvided(stacks[g][i].type)

GivenIsCached ==
    /\ \A t \in Types : ~NotProvided(t) => IsCached(t)
    /\ \A t \in given : IsCached(t) /\ (NotProvided(t) => t \in LateGiven)

Proceeds(g) == Nested(g) /\ Found(g) /\ Built(g)
OrderInv == InstancesInDependencyOrder /\ GivenIsCached /\ \A g \in Goroutines : Proceeds(g)

\* A goroutine that does not move, while nothing leaves the cache.
Rests(h) ==
    /\ pc'[h] = pc[h] /\ asked'[h] = asked[h] /\ ret'[h] = ret[h]
    /\ stacks'[h] = stacks[h] /\ scope'[h] = scope[h] /\ waiting'[h] = waiting[h]
CacheGrows == \A t \in Types : IsCached(t) => IsCached(t)'

\* What a goroutine has found stays in the cache.
LEMMA RestsProceeds ==
    ASSUME NEW h \in Goroutines, Proceeds(h), Rests(h), CacheGrows
    PROVE  Proceeds(h)'
  <1>1. \A t, k : ArgsCached(t, k) => ArgsCached(t, k)'
    BY ConstantsAssumption DEF ArgsCached, CacheGrows
  <1>2. Nested(h)'
    BY DEF Proceeds, Nested, Rests, Top
  <1>3. Found(h)'
    BY <1>1, ConstantsAssumption DEF Proceeds, Found, Rests, CacheGrows
  <1>4. Built(h)'
    BY DEF Proceeds, Built, Rests
  <1> QED
    BY <1>2, <1>3, <1>4 DEF Proceeds

\* A step of one goroutine that leaves the cache alone.
LEMMA OneProceeds ==
    ASSUME OrderInv, NEW g \in Goroutines, \A h \in Goroutines \ {g} : Rests(h),
           UNCHANGED <<instances, given>>, Proceeds(g)'
    PROVE  OrderInv'
  <1>1. CacheGrows /\ InstancesInDependencyOrder' /\ GivenIsCached'
    BY DEF OrderInv, CacheGrows, IsCached, InstancesInDependencyOrder, GivenIsCached
  <1> QED
    BY <1>1, RestsProceeds DEF OrderInv

\* leaveBuild: what is left of the stack is as it was.
LEMMA LeaveProceeds ==
    ASSUME TypeInv, OrderInv, NEW g \in Goroutines, stacks[g] # << >>, NEW r, LeaveWith(g, r),
           r = "ok" => ArgsCached(Top(g).type, Len(Args[Top(g).type]) + 1),
           UNCHANGED <<instances, given, waiting, scope>>
    PROVE  OrderInv'
  <1> DEFINE s == stacks[g]
             n == Len(s)
  <1>1. /\ Len(Pop(s)) = n - 1 /\ n \in Nat \ {0} /\ Pop(s) \in Seq(Frame)
        /\ \A i \in 1..n - 1 : Pop(s)[i] = s[i]
    BY PopProperties DEF TypeInv, TypeOK
  <1>2. /\ stacks'[g] = Pop(s) /\ asked'[g].type = s[n].type /\ ret'[g] = r /\ pc'[g] = "built"
        /\ scope'[g] = scope[g]
        /\ \A h \in Goroutines \ {g} : Rests(h)
    BY DEF LeaveWith, Goto, TypeInv, TypeOK, Top, Rests
  <1>3. /\ \A i \in 1..n - 1 : Asks(s[i], s[i + 1].type)
        /\ \A i \in 1..n : ArgsCached(s[i].type, s[i].next) /\ NotProvided(s[i].type)
        /\ \A i \in 1..Len(scope[g]) : scope[g][i] \in Scopeds
        /\ r = "ok" => ArgsCached(s[n].type, Len(Args[s[n].type]) + 1)
    BY DEF OrderInv, Proceeds, Nested, Found, Built, Top
  <1> HIDE DEF s, n
  <1>4. Nested(g)'
    <2>1. Len(stacks'[g]) = n - 1 /\ \A i \in 1..n - 1 : stacks'[g][i] = s[i]
      BY <1>1, <1>2
    <2>2. stacks'[g] # << >> => n - 1 \in 1..n - 1 /\ n - 1 + 1 = n
      BY <1>1, <2>1, EmptySeq, <1>2
    <2>3. stacks'[g] # << >> => Asks(stacks'[g][Len(stacks'[g])], asked'[g].type)
      BY <1>2, <1>3, <2>1, <2>2
    <2>4. \A i \in 1..(n - 1) - 1 : i \in 1..n - 1 /\ i + 1 \in 1..n - 1
      BY <1>1
    <2>5. \A i \in 1..Len(stacks'[g]) - 1 : Asks(stacks'[g][i], stacks'[g][i + 1].type)
      BY <1>3, <2>1, <2>4
    <2> QED
      BY <1>2, <2>3, <2>5 DEF Nested, Top
  <1>5. \A t, k : ArgsCached(t, k) => ArgsCached(t, k)'
    BY DEF ArgsCached, IsCached
  <1>6. Found(g)'
    <2>1. \A i \in 1..Len(stacks'[g]) : i \in 1..n /\ stacks'[g][i] = s[i]
      BY <1>1, <1>2
    <2> QED
      BY <1>2, <1>3, <1>5, <2>1 DEF Found
  <1>7. Built(g)'
    <2>1. \A i \in 1..Len(stacks'[g]) : i \in 1..n /\ stacks'[g][i] = s[i]
      BY <1>1, <1>2
    <2>2. n \in 1..n
      BY <1>1
    <2> QED
      BY <1>2, <1>3, <2>1, <2>2 DEF Built
  <1> QED
    BY <1>2, <1>4, <1>6, <1>7, OneProceeds DEF Proceeds

\* The parameters are what a constructor needs first.
LEMMA ArgsAreNeeded ==
    ASSUME NEW t \in Types
    PROVE  /\ Len(Args[t]) \in Nat /\ Len(Needs(t)) \in Nat /\ Len(Args[t]) <= Len(Needs(t))
           /\ \A i \in 1..Len(Args[t]) : Needs(t)[i] = Args[t][i]
  <1>1. Args[t] \in Seq(Names) /\ Calls[t] \in Seq(Names)
    BY ConstantsAssumption DEF Names
  <1>2. PICK a \in Nat, b \in Nat : a = Len(Args[t]) /\ b = Len(Calls[t])
    BY <1>1
  <1>3. /\ Len(Needs(t)) = a + b
        /\ \A i \in 1..a + b : Needs(t)[i] = IF i <= a THEN Args[t][i] ELSE Calls[t][i - a]
    BY <1>1, <1>2, ConcatProperties DEF Needs
  <1>4. Len(Needs(t)) \in Nat /\ a <= Len(Needs(t))
    BY <1>3
  <1>5. \A i \in 1..a : i \in 1..a + b /\ i <= a
    OBVIOUS
  <1>6. \A i \in 1..a : Needs(t)[i] = Args[t][i]
    BY <1>3, <1>5
  <1> QED
    BY <1>2, <1>4, <1>6

\* c.instances.Set of a built singleton: its parameters are there.
LEMMA CachedInOrder ==
    ASSUME LateGivenTakeNothing, TypeInv, OrderInv, NEW t \in Singletons, NotProvided(t),
           ArgsCached(t, Len(Args[t]) + 1), instances' = WithInstance(t), given' = given \ {t}
    PROVE  CacheGrows /\ IsCached(t)' /\ InstancesInDependencyOrder'
  <1>1. t \in Types /\ instances \in Seq(Types)
    BY ConstantsAssumption DEF TypeInv, TypeOK
  <1>2. Args[t] \in Seq(Names)
    BY <1>1, ConstantsAssumption DEF Names
  <1>3. ASSUME NEW n \in SeqRange(Args[t]), AliasTarget(n) \in Singletons PROVE IsCached(AliasTarget(n))
    <2>1. PICK i \in 1..Len(Args[t]) : Args[t][i] = n
      BY DEF SeqRange
    <2> QED
      BY <1>2, <1>3, <2>1 DEF ArgsCached
  <1>4. CASE IsCached(t)
    <2>1. instances' = instances
      BY <1>4 DEF WithInstance
    <2>2. t \in given => \A n \in SeqRange(Args[t]) : AliasTarget(n) \notin Singletons
      BY DEF OrderInv, GivenIsCached, LateGivenTakeNothing, SeqRange
    <2> QED
      BY <1>4, <2>1, <2>2 DEF CacheGrows, IsCached, OrderInv, InstancesInDependencyOrder
  <1>5. CASE ~IsCached(t)
    <2> DEFINE n == Len(instances)
    <2>1. /\ n \in Nat /\ Len(instances') = n + 1 /\ instances'[n + 1] = t
          /\ \A i \in 1..n : instances'[i] = instances[i]
      BY <1>1, <1>5, AppendProperties DEF WithInstance
    <2> HIDE DEF n
    <2>2. \A i \in 1..n : i \in 1..n + 1 /\ i \in 1..(n + 1) - 1
      BY <2>1
    <2>3. CacheGrows /\ IsCached(t)'
      BY <2>1, <2>2 DEF CacheGrows, IsCached, n
    <2>4. \A u : \A i \in 1..n : (\E j \in 1..i - 1 : instances[j] = u) => \E j \in 1..i - 1 : instances'[j] = u
      BY <2>1
    <2>5. \A i \in 1..n : instances'[i] # t
      BY <1>5, <2>1 DEF IsCached, n
    <2>6. ASSUME NEW i \in 1..n + 1, instances'[i] \notin given', NEW m \in SeqRange(Args[instances'[i]]),
                 AliasTarget(m) \in Singletons
          PROVE  \E j \in 1..i - 1 : instances'[j] = AliasTarget(m)
      <3>1. CASE i = n + 1
        <4>1. IsCached(AliasTarget(m))
          BY <1>3, <2>1, <2>6, <3>1
        <4> QED
          BY <2>1, <2>2, <3>1, <4>1 DEF IsCached, n
      <3>2. CASE i \in 1..n
        <4>1. instances[i] \notin given /\ m \in SeqRange(Args[instances[i]])
          BY <2>1, <2>5, <2>6, <3>2
        <4> QED
          BY <2>4, <2>6, <3>2, <4>1 DEF OrderInv, InstancesInDependencyOrder, n
      <3> QED
        BY <2>1, <3>1, <3>2
    <2> QED
      BY <2>1, <2>3, <2>6 DEF InstancesInDependencyOrder
  <1> QED
    BY <1>4, <1>5

\* c.instances.Set of a registered value, which nothing has to precede.
LEMMA GivenInOrder ==
    ASSUME TypeInv, OrderInv, NEW t \in Types, instances' = WithInstance(t), given' = given \cup {t}
    PROVE  CacheGrows /\ IsCached(t)' /\ InstancesInDependencyOrder'
  <1>1. CASE IsCached(t)
    BY <1>1 DEF WithInstance, CacheGrows, IsCached, OrderInv, InstancesInDependencyOrder
  <1>2. CASE ~IsCached(t)
    <2> DEFINE n == Len(instances)
    <2>1. /\ n \in Nat /\ Len(instances') = n + 1 /\ instances'[n + 1] = t
          /\ \A i \in 1..n : instances'[i] = instances[i]
      BY <1>2, AppendProperties DEF WithInstance, TypeInv, TypeOK
    <2> HIDE DEF n
    <2>2. \A i \in 1..n : i \in 1..n + 1
      BY <2>1
    <2>3. CacheGrows /\ IsCached(t)'
      BY <2>1, <2>2 DEF CacheGrows, IsCached, n
    <2>4. \A u : \A i \in 1..n : (\E j \in 1..i - 1 : instances[j] = u) => \E j \in 1..i - 1 : instances'[j] = u
      BY <2>1
    <2>5. ASSUME NEW i \in 1..n + 1, instances'[i] \notin given', NEW m \in SeqRange(Args[instances'[i]]),
                 AliasTarget(m) \in Singletons
          PROVE  \E j \in 1..i - 1 : instances'[j] = AliasTarget(m)
      <3>1. i \in 1..n
        BY <2>1, <2>5
      <3>2. instances[i] \notin given /\ m \in SeqRange(Args[instances[i]])
        BY <2>1, <2>5, <3>1
      <3> QED
        BY <2>4, <2>5, <3>1, <3>2 DEF OrderInv, InstancesInDependencyOrder, n
    <2> QED
      BY <2>1, <2>3, <2>5 DEF InstancesInDependencyOrder
  <1> QED
    BY <1>1, <1>2

\* The frame on top has been answered and goes on.
LEMMA AdvanceProceeds ==
    ASSUME TypeInv, OrderInv, NEW g \in Goroutines, pc[g] = "return", stacks[g] # << >>,
           pc' = [pc EXCEPT ![g] = "args"], Advance(g), ret' = [ret EXCEPT ![g] = "none"],
           ret[g] = "ok" \/ Top(g).next > Len(Args[Top(g).type]),
           UNCHANGED <<asked, instances, given, waiting, scope>>
    PROVE  OrderInv'
  <1> DEFINE s == stacks[g]
             n == Len(s)
  <1>1. s \in Seq(Frame) /\ n \in Nat \ {0} /\ s[n] \in Frame
    BY PopProperties DEF TypeInv, TypeOK
  <1>2. s[n].type \in Types /\ s[n].next \in Nat
    BY <1>1 DEF Frame
  <1>3. /\ Len(stacks'[g]) = n /\ stacks'[g][n].type = s[n].type /\ stacks'[g][n].next = s[n].next + 1
        /\ \A i \in 1..n - 1 : stacks'[g][i] = s[i]
    <2>1. stacks'[g] = [s EXCEPT ![n].next = @ + 1]
      BY DEF Advance, TypeInv, TypeOK
    <2>2. s[n] = [type |-> s[n].type, via |-> s[n].via, next |-> s[n].next]
      BY <1>1 DEF Frame
    <2>3. DOMAIN s = 1..n /\ n \in 1..n
      BY <1>1
    <2>4. s[n].next + 1 \in Nat \ {0} /\ [s[n] EXCEPT !.next = @ + 1] \in Frame
      BY <1>1, <1>2 DEF Frame
    <2>5. [s EXCEPT ![n] = [s[n] EXCEPT !.next = @ + 1]] \in Seq(Frame) /\ Len([s EXCEPT ![n] = [s[n] EXCEPT !.next = @ + 1]]) = n
      BY <1>1, <2>3, <2>4, ExceptSeq
    <2> QED
      BY <1>1, <2>1, <2>2, <2>3, <2>5
  <1>4. \A h \in Goroutines \ {g} : Rests(h)
    BY DEF Advance, Rests, TypeInv, TypeOK
  <1>5. Asks(s[n], asked[g].type) /\ \A i \in 1..n - 1 : Asks(s[i], s[i + 1].type)
    BY DEF OrderInv, Proceeds, Nested, Asking, Top
  <1>6. /\ \A i \in 1..n : ArgsCached(s[i].type, s[i].next) /\ NotProvided(s[i].type)
        /\ ret[g] = "ok" /\ asked[g].type \in Singletons => IsCached(asked[g].type)
        /\ \A i \in 1..Len(scope[g]) : scope[g][i] \in Scopeds
    BY DEF OrderInv, Proceeds, Found, Built
  <1>7. ret[g] = "ok" \/ s[n].next > Len(Args[s[n].type])
    BY DEF Top
  <1> HIDE DEF s, n
  <1>8. Nested(g)'
    <2>1. pc'[g] = "args"
      BY DEF TypeInv, TypeOK
    <2>2. \A i \in 1..n - 1 : stacks'[g][i + 1].type = s[i + 1].type
      <3>1. \A i \in 1..n - 1 : i + 1 = n \/ i + 1 \in 1..n - 1
        BY <1>1
      <3> QED
        BY <1>3, <3>1
    <2>3. \A i \in 1..n - 1 : Asks(stacks'[g][i], stacks'[g][i + 1].type)
      BY <1>3, <1>5, <2>2
    <2>4. stacks'[g] # << >>
      BY <1>1, <1>3, EmptySeq
    <2> QED
      BY <1>3, <2>1, <2>3 DEF Nested, Asking
  <1>9. ArgsCached(s[n].type, s[n].next + 1)
    <2>1. ArgsCached(s[n].type, s[n].next)
      BY <1>1, <1>6
    <2>2. /\ Len(Args[s[n].type]) \in Nat
          /\ \A i \in 1..Len(Args[s[n].type]) : Needs(s[n].type)[i] = Args[s[n].type][i]
      BY <1>2, ArgsAreNeeded
    <2>3. ASSUME NEW i \in 1..Len(Args[s[n].type]), i < s[n].next + 1, AliasTarget(Args[s[n].type][i]) \in Singletons
          PROVE  IsCached(AliasTarget(Args[s[n].type][i]))
      <3>1. CASE i < s[n].next
        BY <2>1, <2>3, <3>1 DEF ArgsCached
      <3>2. CASE i = s[n].next
        BY <1>2, <1>5, <1>6, <1>7, <2>2, <2>3, <3>2 DEF Asks
      <3> QED
        BY <1>2, <2>2, <2>3, <3>1, <3>2
    <2> QED
      BY <2>3 DEF ArgsCached
  <1>10. \A t, k : ArgsCached(t, k) => ArgsCached(t, k)'
    BY DEF ArgsCached, IsCached
  <1>11. \A i \in 1..n : i = n \/ i \in 1..n - 1
    BY <1>1
  <1>12. \A i \in 1..n : \A t, k : t = stacks'[g][i].type /\ k = stacks'[g][i].next => ArgsCached(t, k)' /\ NotProvided(t)
    BY <1>3, <1>6, <1>9, <1>10, <1>11
  <1>13. Proceeds(g)'
    <2>1. pc'[g] = "args"
      BY DEF TypeInv, TypeOK
    <2> QED
      BY <1>3, <1>6, <1>8, <1>12, <2>1 DEF Proceeds, Found, Built
  <1> QED
    BY <1>4, <1>13, OneProceeds

\* Every step keeps the order.
LEMMA OrderStep == ASSUME LateGivenTakeNothing, TypeInv, OrderInv, [Next]_vars PROVE OrderInv'
  <1>0. \A h \in Goroutines : Proceeds(h)
    BY DEF OrderInv
  <1>1. ASSUME NEW g \in Goroutines, NEW n \in Names, NEW via \in Resolvers, Resolve(g, n, via)
        PROVE  OrderInv'
    <2>1. \A h \in Goroutines \ {g} : Rests(h)
      BY <1>1 DEF Resolve, Goto, Rests, TypeInv, TypeOK
    <2>2. pc[g] = "idle" /\ pc'[g] = "lookup" /\ UNCHANGED <<instances, given, stacks, scope, waiting, ret>>
      BY <1>1 DEF Resolve, Goto, TypeInv, TypeOK
    <2>3. Proceeds(g)'
      BY <1>0, <2>2 DEF Proceeds, Nested, Found, Built, ArgsCached, IsCached
    <2> QED
      BY <2>1, <2>2, <2>3, OneProceeds
  <1>2. ASSUME NEW g \in Goroutines, LookupHit(g) PROVE OrderInv'
    <2>1. \A h \in Goroutines \ {g} : Rests(h)
      BY <1>2 DEF LookupHit, Answer, Goto, Rests, TypeInv, TypeOK
    <2>2. /\ pc[g] = "lookup" /\ pc'[g] = "return" /\ ret'[g] = "ok"
          /\ UNCHANGED <<instances, given, stacks, scope, waiting, asked>>
      BY <1>2 DEF LookupHit, Answer, Goto, TypeInv, TypeOK
    <2>3. asked[g].type \in Singletons => IsCached(asked[g].type)
      BY <1>0, <1>2, ConstantsAssumption DEF LookupHit, InScope, Proceeds, Found
    <2>4. Proceeds(g)'
      BY <1>0, <2>2, <2>3 DEF Proceeds, Nested, Found, Built, ArgsCached, IsCached, Asking, Top
    <2> QED
      BY <2>1, <2>2, <2>4, OneProceeds
  <1>3. ASSUME NEW g \in Goroutines, LookupMiss(g) PROVE OrderInv'
    <2>1. \A h \in Goroutines \ {g} : Rests(h)
      BY <1>3 DEF LookupMiss, Answer, Goto, Rests, TypeInv, TypeOK
    <2>2. /\ pc[g] = "lookup" /\ pc'[g] \in {"singleton", "enter", "return"} /\ asked'[g].type = asked[g].type
          /\ pc'[g] = "return" => ret'[g] = "err"
          /\ UNCHANGED <<instances, given, stacks, scope, waiting>>
      <3>1. /\ asked[g] \in [type : Types, via : Resolvers]
            /\ asked \in [Goroutines -> [type : Types, via : Resolvers] \cup {NoAsk}]
            /\ pc \in [Goroutines -> Labels] /\ ret \in [Goroutines -> {"none", "ok", "err", "circular"}]
        BY <1>3 DEF LookupMiss, TypeInv, TypeOK, Located
      <3>2. UNCHANGED asked \/ asked' = [asked EXCEPT ![g].via = "container"]
        BY <1>3 DEF LookupMiss
      <3>3. asked'[g].type = asked[g].type
        BY <3>1, <3>2
      <3> QED
        BY <1>3, <3>1, <3>3 DEF LookupMiss, Answer, Goto
    <2>3. NotProvided(asked[g].type)
      BY <1>3 DEF LookupMiss, OrderInv, GivenIsCached, TypeInv, Located
    <2>4. Proceeds(g)'
      BY <1>0, <2>2, <2>3 DEF Proceeds, Nested, Found, Built, ArgsCached, IsCached, Asking, Top
    <2> QED
      BY <2>1, <2>2, <2>4, OneProceeds
  <1>4. ASSUME NEW g \in Goroutines, ResolveSingleton(g) PROVE OrderInv'
    <2>1. \A h \in Goroutines \ {g} : Rests(h)
      BY <1>4 DEF ResolveSingleton, Answer, Goto, Rests, TypeInv, TypeOK
    <2>2. /\ pc[g] = "singleton" /\ pc'[g] \in {"enter", "return", "blocked"}
          /\ pc'[g] = "return" /\ ret'[g] = "ok" => IsCached(asked[g].type)
          /\ pc'[g] = "blocked" => waiting'[g].type = asked[g].type
          /\ UNCHANGED <<instances, given, stacks, scope, asked>>
      BY <1>4 DEF ResolveSingleton, Answer, Goto, TypeInv, TypeOK
    <2>3. Proceeds(g)'
      BY <1>0, <2>2 DEF Proceeds, Nested, Found, Built, ArgsCached, IsCached, Asking, Top
    <2> QED
      BY <2>1, <2>2, <2>3, OneProceeds
  <1>5. ASSUME NEW g \in Goroutines, EnterBuild(g) PROVE OrderInv'
    <2>1. \A h \in Goroutines \ {g} : Rests(h)
      BY <1>5 DEF EnterBuild, Goto, Rests, TypeInv, TypeOK
    <2>2. pc[g] = "enter" /\ UNCHANGED <<instances, given, scope, waiting, asked>>
      BY <1>5 DEF EnterBuild
    <2>3. CASE pc'[g] = "built" /\ ret'[g] = "circular" /\ UNCHANGED stacks
      <3>1. Proceeds(g)'
        BY <1>0, <2>2, <2>3 DEF Proceeds, Nested, Found, Built, ArgsCached, IsCached, Asking, Top
      <3> QED
        BY <2>1, <2>2, <3>1, OneProceeds
    <2>4. CASE /\ pc'[g] = "args"
               /\ stacks' = [stacks EXCEPT ![g] = Append(@, [type |-> asked[g].type, via |-> asked[g].via, next |-> 1])]
      <3> DEFINE s == stacks[g]
                 n == Len(s)
                 f == [type |-> asked[g].type, via |-> asked[g].via, next |-> 1]
      <3>1. s \in Seq(Frame) /\ f \in Frame /\ stacks'[g] = Append(s, f)
        <4>1. asked[g] \in [type : Types, via : Resolvers] /\ stacks \in [Goroutines -> Seq(Frame)]
          BY <2>2 DEF TypeInv, TypeOK, Located
        <4>2. asked[g].type \in Types /\ asked[g].via \in Resolvers
          BY <4>1
        <4>3. f \in Frame
          BY <4>2 DEF Frame
        <4> QED
          BY <2>4, <4>1, <4>3
      <3>2. /\ n \in Nat /\ Len(stacks'[g]) = n + 1 /\ stacks'[g][n + 1] = f
            /\ \A i \in 1..n : stacks'[g][i] = s[i]
        BY <3>1, AppendProperties
      <3>3. n # 0 => Asks(s[n], f.type)
        BY <1>0, <2>2, <3>1, EmptySeq DEF Proceeds, Nested, Asking, Top
      <3>4. \A i \in 1..n - 1 : Asks(s[i], s[i + 1].type)
        BY <1>0 DEF Proceeds, Nested
      <3>5. f.next = 1 /\ f.type = asked[g].type /\ NotProvided(f.type)
        BY <1>0, <2>2 DEF Proceeds, Built
      <3> HIDE DEF s, n, f
      <3>6. \A i \in 1..(n + 1) - 1 : Asks(stacks'[g][i], stacks'[g][i + 1].type)
        <4>1. \A i \in 1..(n + 1) - 1 : i \in 1..n /\ (i = n \/ (i \in 1..n - 1 /\ i + 1 \in 1..n)) /\ (i = n => n # 0)
          BY <3>2
        <4> QED
          BY <3>2, <3>3, <3>4, <4>1
      <3>7. \A i \in 1..n + 1 : i \in 1..n \/ i = n + 1
        BY <3>2
      <3>8. \A i \in 1..n : ArgsCached(s[i].type, s[i].next) /\ NotProvided(s[i].type)
        BY <1>0 DEF Proceeds, Found, Built, s, n
      <3>9. ArgsCached(f.type, 1)
        BY DEF ArgsCached
      <3>10. \A t, k : ArgsCached(t, k) => ArgsCached(t, k)'
        BY <2>2 DEF ArgsCached, IsCached
      <3>11. \A i \in 1..n + 1 : \A t, k : t = stacks'[g][i].type /\ k = stacks'[g][i].next =>
                ArgsCached(t, k)' /\ NotProvided(t)
        BY <3>2, <3>5, <3>7, <3>8, <3>9, <3>10
      <3>12. Proceeds(g)'
        BY <1>0, <2>2, <2>4, <3>2, <3>6, <3>11 DEF Proceeds, Nested, Found, Built, Asking
      <3> QED
        BY <2>1, <2>2, <3>12, OneProceeds
    <2>5. \/ ret' = [ret EXCEPT ![g] = "circular"] /\ pc' = [pc EXCEPT ![g] = "built"] /\ UNCHANGED stacks
          \/ /\ pc' = [pc EXCEPT ![g] = "args"]
             /\ stacks' = [stacks EXCEPT ![g] = Append(@, [type |-> asked[g].type, via |-> asked[g].via, next |-> 1])]
      BY <1>5 DEF EnterBuild, Goto
    <2>6. pc \in [Goroutines -> Labels] /\ ret \in [Goroutines -> {"none", "ok", "err", "circular"}]
      BY DEF TypeInv, TypeOK
    <2> QED
      BY <2>3, <2>4, <2>5, <2>6
  <1>6. ASSUME NEW g \in Goroutines, AskNext(g) PROVE OrderInv'
    <2>1. \A h \in Goroutines \ {g} : Rests(h)
      BY <1>6 DEF AskNext, Goto, Rests, TypeInv, TypeOK
    <2>2. /\ pc[g] = "args" /\ pc'[g] = "lookup" /\ Asks(Top(g), asked'[g].type)
          /\ UNCHANGED <<instances, given, stacks, scope, waiting, ret>>
      BY <1>6 DEF AskNext, Goto, TypeInv, TypeOK, Asks
    <2>3. Proceeds(g)'
      BY <1>0, <2>2 DEF Proceeds, Nested, Found, Built, ArgsCached, IsCached, Asking, Top
    <2> QED
      BY <2>1, <2>2, <2>3, OneProceeds
  <1>7. ASSUME NEW g \in Goroutines, Construct(g) PROVE OrderInv'
    <2>1. stacks[g] # << >> /\ stacks[g] \in Seq(Frame)
      BY <1>7 DEF Construct, TypeInv, Located, TypeOK
    <2>2. Top(g) \in Frame
      BY <2>1, PopProperties DEF Top
    <2>3. Top(g).type \in Types /\ Top(g).next \in Nat
      BY <2>2 DEF Frame
    <2>4. Top(g).next > Len(Args[Top(g).type]) /\ Len(Args[Top(g).type]) \in Nat
      BY <1>7, <2>3, ArgsAreNeeded DEF Construct
    <2>5. ArgsCached(Top(g).type, Top(g).next)
      <3>1. Len(stacks[g]) \in 1..Len(stacks[g])
        BY <2>1, PopProperties
      <3> QED
        BY <1>0, <3>1 DEF Proceeds, Found, Top
    <2>6. ArgsCached(Top(g).type, Len(Args[Top(g).type]) + 1)
      BY <2>3, <2>4, <2>5 DEF ArgsCached
    <2> QED
      BY <1>7, <2>1, <2>6, LeaveProceeds DEF Construct
  <1>8. ASSUME NEW g \in Goroutines, Panic(g) PROVE OrderInv'
    <2>1. \A h \in Goroutines \ {g} : Rests(h)
      BY <1>8 DEF Panic, Goto, Rests, TypeInv, TypeOK
    <2>2. pc'[g] = "idle" /\ stacks'[g] = << >> /\ UNCHANGED <<instances, given, scope, waiting, ret>>
      BY <1>8 DEF Panic, Goto, TypeInv, TypeOK
    <2>3. Proceeds(g)'
      BY <1>0, <2>2 DEF Proceeds, Nested, Found, Built, Asking
    <2> QED
      BY <2>1, <2>2, <2>3, OneProceeds
  <1>9. ASSUME NEW g \in Goroutines, Publish(g) PROVE OrderInv'
    <2> DEFINE t == asked[g].type
    <2>1. \A h \in Goroutines \ {g} : Rests(h)
      BY <1>9 DEF Publish, Goto, Rests, TypeInv, TypeOK
    <2>2. /\ pc[g] = "built" /\ pc'[g] = "close" /\ t \in Singletons /\ t \in Types
          /\ UNCHANGED <<stacks, scope, waiting, asked, ret>>
      BY <1>9, ConstantsAssumption DEF Publish, Goto, TypeInv, TypeOK
    <2>3. NotProvided(t) /\ (ret[g] = "ok" => ArgsCached(t, Len(Args[t]) + 1))
      BY <1>0, <2>2 DEF Proceeds, Found, Built
    <2>4. CASE ret[g] # "ok"
      <3>1. UNCHANGED <<instances, given>>
        BY <1>9, <2>4 DEF Publish, Fails
      <3>2. Proceeds(g)'
        BY <1>0, <2>2, <2>4, <3>1 DEF Proceeds, Nested, Found, Built, ArgsCached, IsCached, Asking, Top
      <3> QED
        BY <2>1, <3>1, <3>2, OneProceeds
    <2>5. CASE ret[g] = "ok"
      <3>1. instances' = WithInstance(t) /\ given' = given \ {t}
        BY <1>9, <2>5 DEF Publish, Fails
      <3>2. CacheGrows /\ IsCached(t)' /\ InstancesInDependencyOrder'
        BY <2>2, <2>3, <2>5, <3>1, CachedInOrder
      <3>3. GivenIsCached'
        BY <3>1, <3>2 DEF GivenIsCached, OrderInv, CacheGrows, TypeInv, TypeOK
      <3>4. Proceeds(g)'
        <4>1. \A u, k : ArgsCached(u, k) => ArgsCached(u, k)'
          BY <3>2, ConstantsAssumption DEF ArgsCached, CacheGrows
        <4> QED
          BY <1>0, <2>2, <3>2, <4>1 DEF Proceeds, Nested, Found, Built, Asking, Top
      <3> QED
        BY <1>0, <2>1, <3>2, <3>3, <3>4, RestsProceeds DEF OrderInv
    <2> QED
      BY <2>4, <2>5
  <1>10. ASSUME NEW g \in Goroutines, CloseDone(g) PROVE OrderInv'
    <2>1. pc[g] = "close" /\ UNCHANGED <<instances, given, waiting, stacks, scope, asked>>
      BY <1>10 DEF CloseDone
    <2>2. ASSUME NEW h \in Goroutines, h \notin Waking(asked[g].type, g), h # g PROVE Rests(h)
      BY <1>10, <2>1, <2>2 DEF CloseDone, Rests
    <2>3. ASSUME NEW h \in Waking(asked[g].type, g) PROVE Proceeds(h)'
      <3>1. /\ h \in Goroutines /\ pc[h] = "blocked" /\ waiting[h].type = asked[g].type
            /\ pc'[h] = "woken" /\ ret'[h] = ret[g]
        BY <1>10, <2>3 DEF CloseDone, Waking
      <3>2. asked[h].type = asked[g].type
        BY <1>0, <3>1 DEF Proceeds, Found
      <3>3. ret[g] = "ok" /\ asked[g].type \in Singletons => IsCached(asked[g].type)
        BY <1>0, <2>1 DEF Proceeds, Found
      <3> QED
        BY <1>0, <2>1, <3>1, <3>2, <3>3 DEF Proceeds, Nested, Found, Built, ArgsCached, IsCached, Asking, Top
    <2>4. Proceeds(g)'
      <3>1. pc'[g] = "return" /\ ret'[g] = ret[g]
        BY <1>10, <2>1 DEF CloseDone, Waking
      <3> QED
        BY <1>0, <2>1, <3>1 DEF Proceeds, Nested, Found, Built, ArgsCached, IsCached, Asking, Top
    <2>5. CacheGrows /\ InstancesInDependencyOrder' /\ GivenIsCached'
      BY <2>1 DEF OrderInv, CacheGrows, IsCached, InstancesInDependencyOrder, GivenIsCached
    <2> QED
      BY <1>0, <2>2, <2>3, <2>4, <2>5, RestsProceeds DEF OrderInv
  <1>11. ASSUME NEW g \in Goroutines, Wake(g) PROVE OrderInv'
    <2>1. \A h \in Goroutines \ {g} : Rests(h)
      BY <1>11 DEF Wake, Goto, Rests, TypeInv, TypeOK
    <2>2. pc[g] = "woken" /\ pc'[g] = "return" /\ UNCHANGED <<instances, given, stacks, scope, asked, ret>>
      BY <1>11 DEF Wake, Goto, TypeInv, TypeOK
    <2>3. Proceeds(g)'
      BY <1>0, <2>2 DEF Proceeds, Nested, Found, Built, ArgsCached, IsCached, Asking, Top
    <2> QED
      BY <2>1, <2>2, <2>3, OneProceeds
  <1>12. ASSUME NEW g \in Goroutines, Keep(g) PROVE OrderInv'
    <2>1. \A h \in Goroutines \ {g} : Rests(h)
      BY <1>12 DEF Keep, Goto, Rests, TypeInv, TypeOK
    <2>2. /\ pc[g] = "built" /\ pc'[g] = "return" /\ asked[g].type \notin Singletons
          /\ UNCHANGED <<instances, given, stacks, waiting, asked, ret>>
      BY <1>12 DEF Keep, Goto, TypeInv, TypeOK
    <2>3. \A i \in 1..Len(scope'[g]) : scope'[g][i] \in Scopeds
      <3>1. scope[g] \in Seq(Types) /\ \A i \in 1..Len(scope[g]) : scope[g][i] \in Scopeds
        BY <1>0 DEF Proceeds, Found, TypeInv, TypeOK
      <3>2. \/ scope'[g] = scope[g]
            \/ asked[g].type \in Scopeds /\ scope'[g] = Append(scope[g], asked[g].type)
        BY <1>12 DEF Keep, TypeInv, TypeOK
      <3>3. Scopeds \subseteq Types
        BY ConstantsAssumption
      <3> QED
        BY <3>1, <3>2, <3>3, AppendProperties
    <2>4. Proceeds(g)'
      BY <1>0, <2>2, <2>3 DEF Proceeds, Nested, Found, Built, ArgsCached, IsCached, Asking, Top
    <2> QED
      BY <2>1, <2>2, <2>4, OneProceeds
  <1>13. ASSUME NEW g \in Goroutines, Return(g) PROVE OrderInv'
    <2>1. CASE stacks[g] = << >> /\ pc' = [pc EXCEPT ![g] = "idle"] /\ UNCHANGED stacks
      <3>1. \A h \in Goroutines \ {g} : Rests(h)
        BY <1>13, <2>1 DEF Return, LeaveWith, Goto, Rests, TypeInv, TypeOK
      <3>2. pc'[g] = "idle" /\ UNCHANGED <<instances, given, stacks, scope, waiting>>
        BY <1>13, <2>1 DEF Return, TypeInv, TypeOK
      <3>3. Proceeds(g)'
        BY <1>0, <2>1, <3>2 DEF Proceeds, Nested, Found, Built, ArgsCached, IsCached, Asking, Top
      <3> QED
        BY <3>1, <3>2, <3>3, OneProceeds
    <2>2. CASE /\ stacks[g] # << >> /\ pc' = [pc EXCEPT ![g] = "args"] /\ Advance(g) /\ UNCHANGED asked
               /\ ret[g] = "ok" \/ Top(g).next > Len(Args[Top(g).type])
               /\ ret' = [ret EXCEPT ![g] = "none"]
      BY <1>13, <2>2, AdvanceProceeds DEF Return
    <2>3. CASE stacks[g] # << >> /\ ret[g] # "ok" /\ LeaveWith(g, ret[g])
      BY <1>13, <2>3, LeaveProceeds DEF Return
    <2> QED
      BY <1>13, <2>1, <2>2, <2>3 DEF Return, Goto, Fails
  <1>14. ASSUME NEW g \in Goroutines, CloseScope(g) PROVE OrderInv'
    <2>1. \A h \in Goroutines \ {g} : Rests(h)
      BY <1>14 DEF CloseScope, Rests, TypeInv, TypeOK
    <2>2. scope'[g] = << >> /\ UNCHANGED <<instances, given, stacks, waiting, pc, asked, ret>>
      BY <1>14 DEF CloseScope, TypeInv, TypeOK
    <2>3. \A i \in 1..Len(scope'[g]) : scope'[g][i] \in Scopeds
      BY <2>2
    <2>4. Proceeds(g)'
      BY <1>0, <2>2, <2>3 DEF Proceeds, Nested, Found, Built, ArgsCached, IsCached, Asking, Top
    <2> QED
      BY <2>1, <2>2, <2>4, OneProceeds
  <1>15. ASSUME NEW t \in LateGiven, RegisterServiceInstance(t) PROVE OrderInv'
    <2>1. \A h \in Goroutines : Rests(h)
      BY <1>15 DEF RegisterServiceInstance, Rests
    <2>2. instances' = WithInstance(t) /\ given' = given \cup {t} /\ t \in Types
      BY <1>15, ConstantsAssumption DEF RegisterServiceInstance
    <2>3. CacheGrows /\ IsCached(t)' /\ InstancesInDependencyOrder'
      BY <2>2, GivenInOrder
    <2>4. GivenIsCached'
      BY <2>2, <2>3, <1>15 DEF GivenIsCached, OrderInv, CacheGrows, TypeInv, TypeOK
    <2> QED
      BY <1>0, <2>1, <2>3, <2>4, RestsProceeds DEF OrderInv
  <1>16. CASE UNCHANGED vars
    <2>1. \A h \in Goroutines : Rests(h)
      BY <1>16 DEF vars, Rests
    <2>2. CacheGrows /\ InstancesInDependencyOrder' /\ GivenIsCached'
      BY <1>16 DEF vars, OrderInv, CacheGrows, IsCached, InstancesInDependencyOrder, GivenIsCached
    <2> QED
      BY <1>0, <2>1, <2>2, RestsProceeds DEF OrderInv
  <1> QED
    BY <1>1, <1>2, <1>3, <1>4, <1>5, <1>6, <1>7, <1>8, <1>9, <1>10, <1>11, <1>12, <1>13, <1>14, <1>15, <1>16
       DEF Next, Step

\* "this order is a valid initialization order: reversing it is safe for
\* shutdown" (service_registry.go, EachInstance): a constructed singleton
\* stands after the singletons among its parameters, in whatever order builds
\* finish, provided no value is registered for a type that has such parameters
\* while goroutines resolve.
THEOREM DependenciesComeFirst == ASSUME LateGivenTakeNothing PROVE Spec => []InstancesInDependencyOrder
  <1>1. Init => OrderInv
    <2> SUFFICES ASSUME Init PROVE OrderInv
      OBVIOUS
    <2>1. InstancesInDependencyOrder /\ GivenIsCached
      BY DEF Init, InstancesInDependencyOrder, GivenIsCached, NotProvided, IsCached, SeqRange
    <2>2. Len(<< >>) = 0 /\ \A i : i \notin 1..0 /\ i \notin 1..0 - 1
      OBVIOUS
    <2>3. \A g \in Goroutines : stacks[g] = << >> /\ scope[g] = << >> /\ pc[g] = "idle"
      BY DEF Init
    <2>4. \A g \in Goroutines : Proceeds(g)
      BY <2>2, <2>3 DEF Proceeds, Nested, Found, Built, Asking
    <2> QED
      BY <2>1, <2>4 DEF OrderInv
  <1>2. TypeInv /\ OrderInv /\ [Next]_vars => OrderInv'
    BY OrderStep
  <1>3. OrderInv => InstancesInDependencyOrder
    BY DEF OrderInv
  <1> QED
    BY <1>1, <1>2, <1>3, TypeInit, TypeStep, PTL DEF Spec

(***************************************************************************)
(* What has been initialized                                               *)
(***************************************************************************)
\* t is initialized and not yet kept, or still to be constructed.
Ready(g, t) == pc[g] = "built" /\ asked[g].type = t /\ ret[g] = "ok"
Underway(g, t) == OnStack(g, t) \/ (pc[g] = "enter" /\ asked[g].type = t)

\* Nothing that is underway has been initialized, and what is ready has been
\* initialized once.
SingletonLives(t) ==
    /\ t \notin given => live[Container][t] = IF IsCached(t) \/ \E g \in Goroutines : Ready(g, t) THEN 1 ELSE 0
    /\ \A g \in Goroutines : /\ Underway(g, t) => live[Container][t] = 0
                             /\ Ready(g, t) => live[Container][t] = 1
ScopedLives(g, t) ==
    /\ live[g][t] = IF InScope(g, t) \/ Ready(g, t) THEN 1 ELSE 0
    /\ Underway(g, t) => live[g][t] = 0

LiveInv ==
    /\ \A t \in given : IsCached(t)
    /\ \A g \in Goroutines : pc[g] = "singleton" => asked[g].type \in Singletons
    /\ \A t \in Singletons : SingletonLives(t)
    /\ \A g \in Goroutines, t \in Scopeds : ScopedLives(g, t)

\* A step that initializes, keeps and closes nothing.
LEMMA LiveFrame ==
    ASSUME LiveInv, UNCHANGED <<instances, given, scope, live>>,
           \A g \in Goroutines, t \in Types : Ready(g, t)' <=> Ready(g, t),
           \A g \in Goroutines, t \in Types : Underway(g, t)' =>
               \/ Underway(g, t)
               \/ /\ t \in Singletons => live[Container][t] = 0
                  /\ t \in Scopeds => live[g][t] = 0,
           \A g \in Goroutines : pc'[g] = "singleton" => asked'[g].type \in Singletons
    PROVE  LiveInv'
  <1>1. \A t \in given' : IsCached(t)'
    BY DEF LiveInv, IsCached
  <1>2. ASSUME NEW t \in Singletons PROVE SingletonLives(t)'
    <2>1. SingletonLives(t) /\ t \in Types
      BY ConstantsAssumption DEF LiveInv
    <2>2. IsCached(t)' <=> IsCached(t)
      BY DEF IsCached
    <2> QED
      BY <2>1, <2>2 DEF SingletonLives
  <1>3. ASSUME NEW g \in Goroutines, NEW t \in Scopeds PROVE ScopedLives(g, t)'
    <2>1. ScopedLives(g, t) /\ t \in Types
      BY ConstantsAssumption DEF LiveInv
    <2>2. InScope(g, t)' <=> InScope(g, t)
      BY DEF InScope
    <2> QED
      BY <2>1, <2>2 DEF ScopedLives
  <1> QED
    BY <1>1, <1>2, <1>3 DEF LiveInv

\* One goroutine moves, and its stack does not grow.
LEMMA OneLives ==
    ASSUME TypeInv, LiveInv, NEW g \in Goroutines,
           UNCHANGED <<instances, given, scope, live>>,
           \A h \in Goroutines \ {g} : pc'[h] = pc[h] /\ asked'[h] = asked[h] /\ ret'[h] = ret[h] /\ stacks'[h] = stacks[h],
           \A t \in Types : OnStack(g, t)' => Underway(g, t),
           pc'[g] \notin {"singleton", "enter"}, pc[g] # "built", pc'[g] = "built" => ret'[g] # "ok"
    PROVE  LiveInv'
  <1>1. \A h \in Goroutines, t \in Types : Ready(h, t)' <=> Ready(h, t)
    BY DEF Ready
  <1>2. \A h \in Goroutines, t \in Types : Underway(h, t)' => Underway(h, t)
    <2>1. \A h \in Goroutines \ {g}, t \in Types : Underway(h, t)' => Underway(h, t)
      BY DEF Underway, OnStack
    <2>2. \A t \in Types : Underway(g, t)' => Underway(g, t)
      BY DEF Underway
    <2> QED
      BY <2>1, <2>2
  <1>3. \A h \in Goroutines : pc'[h] = "singleton" => asked'[h].type \in Singletons
    BY DEF LiveInv
  <1> QED
    BY <1>1, <1>2, <1>3, LiveFrame

\* What leaveBuild pops is on the stack no more, and the rest was there.
LEMMA LeavesStack ==
    ASSUME TypeInv, BuildInv, NEW g \in Goroutines, stacks[g] # << >>, NEW r, LeaveWith(g, r)
    PROVE  /\ \A t \in Types : OnStack(g, t)' <=> OnStack(g, t) /\ t # Top(g).type
           /\ OnStack(g, Top(g).type) /\ Top(g).type \in Types
           /\ pc'[g] = "built" /\ asked'[g].type = Top(g).type /\ (r \in {"none", "ok", "err", "circular"} => ret'[g] = r)
           /\ \A h \in Goroutines \ {g} : pc'[h] = pc[h] /\ asked'[h] = asked[h] /\ ret'[h] = ret[h] /\ stacks'[h] = stacks[h]
  <1> DEFINE s == stacks[g]
             n == Len(s)
  <1>1. /\ Len(Pop(s)) = n - 1 /\ n \in Nat \ {0} /\ s[n] \in Frame
        /\ \A i \in 1..n - 1 : Pop(s)[i] = s[i]
    BY PopProperties DEF TypeInv, TypeOK
  <1>2. /\ stacks'[g] = Pop(s) /\ asked'[g].type = s[n].type /\ ret'[g] = r /\ pc'[g] = "built"
        /\ \A h \in Goroutines \ {g} : pc'[h] = pc[h] /\ asked'[h] = asked[h] /\ ret'[h] = ret[h] /\ stacks'[h] = stacks[h]
    BY DEF LeaveWith, Goto, TypeInv, TypeOK, Top
  <1>3. \A i, j \in 1..n : s[i].type = s[j].type => i = j
    BY DEF BuildInv, NoNestedBuild
  <1>4. s[n].type \in Types
    BY <1>1 DEF Frame
  <1>5. Top(g) = s[n]
    BY DEF Top
  <1>6. \A t : OnStack(g, t) <=> \E i \in 1..n : s[i].type = t
    BY DEF OnStack
  <1>7. \A t : OnStack(g, t)' <=> \E i \in 1..n - 1 : s[i].type = t
    BY <1>1, <1>2 DEF OnStack
  <1> HIDE DEF s, n
  <1>8. n \in 1..n /\ \A i \in 1..n : i \in 1..n - 1 \/ i = n
    BY <1>1
  <1>9. \A i \in 1..n - 1 : i \in 1..n /\ i # n
    BY <1>1
  <1> QED
    BY <1>2, <1>3, <1>4, <1>5, <1>6, <1>7, <1>8, <1>9

\* A frame that goes on is still the same type's.
LEMMA AdvanceKeepsTypes ==
    ASSUME TypeInv, NEW g \in Goroutines, stacks[g] # << >>, Advance(g)
    PROVE  Len(stacks'[g]) = Len(stacks[g]) /\ \A i \in 1..Len(stacks[g]) : stacks'[g][i].type = stacks[g][i].type
  <1> DEFINE s == stacks[g]
             n == Len(s)
  <1>1. s \in Seq(Frame) /\ n \in Nat \ {0} /\ s[n] \in Frame
    BY PopProperties DEF TypeInv, TypeOK
  <1>2. stacks'[g] = [s EXCEPT ![n].next = @ + 1] /\ n \in 1..n
    BY <1>1 DEF Advance, TypeInv, TypeOK
  <1>3. s[n].next \in Nat /\ s[n].next + 1 \in Nat \ {0}
    BY <1>1 DEF Frame
  <1>4. [s[n] EXCEPT !.next = @ + 1] \in Frame
    BY <1>1, <1>3 DEF Frame
  <1>5. /\ Len([s EXCEPT ![n] = [s[n] EXCEPT !.next = @ + 1]]) = n
        /\ \A i \in 1..n : [s EXCEPT ![n] = [s[n] EXCEPT !.next = @ + 1]][i] =
              IF i = n THEN [s[n] EXCEPT !.next = @ + 1] ELSE s[i]
    BY <1>1, <1>2, <1>4, ExceptSeq
  <1>6. [s[n] EXCEPT !.next = @ + 1].type = s[n].type
    BY <1>1 DEF Frame
  <1> QED
    BY <1>2, <1>5, <1>6

\* The constructor and Init return.
LEMMA ConstructLives ==
    ASSUME TypeInv, BuildInv, LiveInv, NEW g \in Goroutines, Construct(g)
    PROVE  LiveInv'
  <1> PICK t : t = Top(g).type
    OBVIOUS
  <1> DEFINE owner == IF t \in Scopeds THEN g ELSE Container
  <1>1. stacks[g] # << >> /\ pc[g] = "args" /\ UNCHANGED <<instances, given, scope>>
    BY DEF Construct, TypeInv, Located
  <1>2. PICK r \in {"ok", "err"} : LeaveWith(g, r) /\ live' = LiveAfter(owner, t, r)
    BY DEF Construct
  <1>3. /\ \A u \in Types : OnStack(g, u)' <=> OnStack(g, u) /\ u # t
        /\ OnStack(g, t) /\ t \in Types /\ pc'[g] = "built" /\ asked'[g].type = t /\ ret'[g] = r
        /\ \A h \in Goroutines \ {g} : pc'[h] = pc[h] /\ asked'[h] = asked[h] /\ ret'[h] = ret[h] /\ stacks'[h] = stacks[h]
    BY <1>1, <1>2, LeavesStack
  <1>4. CASE r = "err"
    <2>1. UNCHANGED live
      BY <1>2, <1>4 DEF LiveAfter
    <2> QED
      BY <1>1, <1>3, <1>4, <2>1, OneLives DEF Underway
  <1>5. CASE r = "ok"
    <2>1. /\ live \in [Owners -> [Types -> Int]] /\ Container \in Owners /\ g \in Owners /\ owner \in Owners
          /\ Container \notin Goroutines
      BY ConstantsAssumption DEF TypeInv, TypeOK, Owners, Container
    <2>2. live' = IF t \in Transients THEN live ELSE [live EXCEPT ![owner][t] = @ + 1]
      BY <1>2, <1>5 DEF LiveAfter
    <2>3. \A o \in Owners, u \in Types :
            live'[o][u] = IF t \notin Transients /\ o = owner /\ u = t THEN live[o][u] + 1 ELSE live[o][u]
      BY <1>3, <2>1, <2>2
    <2>4. Singletons \subseteq Types /\ Scopeds \subseteq Types /\ Singletons \cap Transients = {}
          /\ Singletons \cap Scopeds = {} /\ Transients \cap Scopeds = {}
      BY ConstantsAssumption
    <2>5. \A h \in Goroutines, u \in Types : Ready(h, u)' <=> Ready(h, u) \/ (h = g /\ u = t)
      BY <1>1, <1>3, <1>5 DEF Ready
    <2>6. \A h \in Goroutines, u \in Types : Underway(h, u)' => Underway(h, u) /\ ~(h = g /\ u = t)
      <3>1. \A u \in Types : Underway(g, u)' => Underway(g, u) /\ u # t
        BY <1>3 DEF Underway
      <3>2. \A h \in Goroutines \ {g}, u \in Types : Underway(h, u)' => Underway(h, u)
        BY <1>3 DEF Underway, OnStack
      <3> QED
        BY <3>1, <3>2
    <2>7. t \in Singletons => \A h \in Goroutines : Underway(h, t) => h = g
      BY <1>3 DEF BuildInv, StackOwned, PendingOwned, Underway, OnStack
    <2>8. Underway(g, t)
      BY <1>3 DEF Underway
    <2>9. ASSUME NEW u \in Singletons PROVE SingletonLives(u)'
      <3>1. IsCached(u)' <=> IsCached(u)
        BY <1>1 DEF IsCached
      <3>2. SingletonLives(u) /\ u \in Types
        BY <2>4 DEF LiveInv
      <3>3. CASE u = t
        <4>1. live[Container][u] = 0 /\ \A h \in Goroutines : ~Ready(h, u)
          BY <2>8, <3>2, <3>3 DEF SingletonLives
        <4>2. live'[Container][u] = 1 /\ Ready(g, u)' /\ \A h \in Goroutines : ~Underway(h, u)'
          BY <2>1, <2>3, <2>4, <2>5, <2>6, <2>7, <3>2, <3>3, <4>1
        <4> QED
          BY <4>2 DEF SingletonLives
      <3>4. CASE u # t
        <4>1. live'[Container][u] = live[Container][u]
          BY <2>1, <2>3, <3>2, <3>4
        <4>2. \A h \in Goroutines : (Ready(h, u)' <=> Ready(h, u)) /\ (Underway(h, u)' => Underway(h, u))
          BY <2>5, <2>6, <3>2, <3>4
        <4> QED
          BY <1>1, <3>1, <3>2, <4>1, <4>2 DEF SingletonLives
      <3> QED
        BY <3>3, <3>4
    <2>10. ASSUME NEW h \in Goroutines, NEW u \in Scopeds PROVE ScopedLives(h, u)'
      <3>1. InScope(h, u)' <=> InScope(h, u)
        BY <1>1 DEF InScope
      <3>2. ScopedLives(h, u) /\ u \in Types /\ h \in Owners /\ h # Container
        BY <2>1, <2>4 DEF LiveInv, Owners
      <3>3. CASE u = t /\ h = g
        <4>1. live'[g][t] = 1
          BY <2>3, <2>4, <2>8, <3>2, <3>3 DEF ScopedLives
        <4>2. Ready(g, t)' /\ ~Underway(g, t)'
          BY <1>3, <2>5, <2>6
        <4> QED
          BY <3>3, <4>1, <4>2 DEF ScopedLives
      <3>4. CASE ~(u = t /\ h = g)
        <4>1. live'[h][u] = live[h][u]
          BY <2>3, <3>2, <3>4
        <4> QED
          BY <2>5, <2>6, <3>1, <3>2, <3>4, <4>1 DEF ScopedLives
      <3> QED
        BY <3>3, <3>4
    <2>11. \A u \in given' : IsCached(u)'
      BY <1>1 DEF LiveInv, IsCached
    <2>12. \A h \in Goroutines : pc'[h] = "singleton" => asked'[h].type \in Singletons
      BY <1>3 DEF LiveInv
    <2> QED
      BY <2>9, <2>10, <2>11, <2>12 DEF LiveInv
  <1> QED
    BY <1>4, <1>5

\* A type that is cached stands in the cache next to what was there.
LEMMA CachedNext ==
    ASSUME TypeInv, NEW t \in Types, instances' = WithInstance(t)
    PROVE  \A u : IsCached(u)' <=> IsCached(u) \/ u = t
  <1>1. CASE IsCached(t)
    BY <1>1 DEF WithInstance, IsCached
  <1>2. CASE ~IsCached(t)
    <2> DEFINE n == Len(instances)
    <2>1. /\ n \in Nat /\ Len(instances') = n + 1 /\ instances'[n + 1] = t
          /\ \A i \in 1..n : instances'[i] = instances[i]
      BY <1>2, AppendProperties DEF WithInstance, TypeInv, TypeOK
    <2> HIDE DEF n
    <2>2. \A i : i \in 1..n + 1 <=> i \in 1..n \/ i = n + 1
      BY <2>1
    <2> QED
      BY <2>1, <2>2 DEF IsCached, n
  <1> QED
    BY <1>1, <1>2

\* A build ends.
LEMMA PublishLives ==
    ASSUME TypeInv, LiveInv, NEW g \in Goroutines, Publish(g)
    PROVE  LiveInv'
  <1> DEFINE t == asked[g].type
  <1>1. /\ pc[g] = "built" /\ pc'[g] = "close" /\ t \in Singletons /\ t \in Types /\ t \notin Scopeds
        /\ UNCHANGED <<stacks, scope, asked, ret, live>>
        /\ \A h \in Goroutines \ {g} : pc'[h] = pc[h]
    BY ConstantsAssumption DEF Publish, Goto, TypeInv, TypeOK
  <1>2. \A h \in Goroutines, u \in Types : Ready(h, u)' <=> Ready(h, u) /\ h # g
    BY <1>1 DEF Ready
  <1>3. \A u \in Types : Ready(g, u) <=> u = t /\ ret[g] = "ok"
    BY <1>1 DEF Ready
  <1>4. \A h \in Goroutines, u \in Types : Underway(h, u)' => Underway(h, u)
    BY <1>1 DEF Underway, OnStack
  <1>5. \A h \in Goroutines : pc'[h] = "singleton" => asked'[h].type \in Singletons
    BY <1>1 DEF LiveInv
  <1>6. CASE ret[g] # "ok"
    <2>1. UNCHANGED <<instances, given>>
      BY <1>6 DEF Publish, Fails
    <2> QED
      BY <1>1, <1>2, <1>3, <1>4, <1>5, <1>6, <2>1, LiveFrame
  <1>7. CASE ret[g] = "ok"
    <2>1. instances' = WithInstance(t) /\ given' = given \ {t}
      BY <1>7 DEF Publish, Fails
    <2>2. \A u : IsCached(u)' <=> IsCached(u) \/ u = t
      BY <1>1, <2>1, CachedNext
    <2>3. ASSUME NEW u \in Singletons PROVE SingletonLives(u)'
      <3>1. SingletonLives(u) /\ u \in Types
        BY ConstantsAssumption DEF LiveInv
      <3>2. CASE u = t
        <4>1. live'[Container][u] = 1 /\ IsCached(u)'
          BY <1>1, <1>3, <1>7, <2>2, <3>1, <3>2 DEF SingletonLives
        <4>2. \A h \in Goroutines : ~Underway(h, u)'
          BY <1>1, <1>4, <3>1, <4>1 DEF SingletonLives
        <4> QED
          BY <4>1, <4>2 DEF SingletonLives
      <3>3. CASE u # t
        <4>1. \A h \in Goroutines : Ready(h, u)' <=> Ready(h, u)
          BY <1>2, <1>3, <3>1, <3>3
        <4> QED
          BY <1>1, <1>4, <2>1, <2>2, <3>1, <3>3, <4>1 DEF SingletonLives
      <3> QED
        BY <3>2, <3>3
    <2>4. ASSUME NEW h \in Goroutines, NEW u \in Scopeds PROVE ScopedLives(h, u)'
      <3>1. ScopedLives(h, u) /\ u \in Types /\ u # t
        BY <1>1, ConstantsAssumption DEF LiveInv
      <3>2. InScope(h, u)' <=> InScope(h, u)
        BY <1>1 DEF InScope
      <3>3. Ready(h, u)' <=> Ready(h, u)
        BY <1>2, <1>3, <3>1
      <3> QED
        BY <1>1, <1>4, <3>1, <3>2, <3>3 DEF ScopedLives
    <2>5. \A u \in given' : IsCached(u)'
      BY <2>1, <2>2 DEF LiveInv
    <2> QED
      BY <1>5, <2>3, <2>4, <2>5 DEF LiveInv
  <1> QED
    BY <1>6, <1>7

\* A scoped value is kept, a transient one handed out.
LEMMA KeepLives ==
    ASSUME TypeInv, LiveInv, NEW g \in Goroutines, Keep(g)
    PROVE  LiveInv'
  <1> DEFINE t == asked[g].type
  <1>1. /\ pc[g] = "built" /\ pc'[g] = "return" /\ t \notin Singletons
        /\ UNCHANGED <<instances, given, stacks, asked, ret, live>>
        /\ \A h \in Goroutines \ {g} : pc'[h] = pc[h] /\ scope'[h] = scope[h]
    BY DEF Keep, Goto, TypeInv, TypeOK
  <1>2. scope'[g] = IF t \in Scopeds /\ ret[g] = "ok" THEN Append(scope[g], t) ELSE scope[g]
    BY DEF Keep, Fails, TypeInv, TypeOK
  <1>3. \A h \in Goroutines, u \in Types : Ready(h, u)' <=> Ready(h, u) /\ h # g
    BY <1>1 DEF Ready
  <1>4. \A u \in Types : Ready(g, u) <=> u = t /\ ret[g] = "ok"
    BY <1>1 DEF Ready
  <1>5. \A h \in Goroutines, u \in Types : Underway(h, u)' => Underway(h, u)
    BY <1>1 DEF Underway, OnStack
  <1>6. \A u : IsCached(u)' <=> IsCached(u)
    BY <1>1 DEF IsCached
  <1>7. \A u \in Scopeds : InScope(g, u)' <=> InScope(g, u) \/ (u = t /\ ret[g] = "ok")
    <2>1. CASE t \in Scopeds /\ ret[g] = "ok"
      <3>1. scope[g] \in Seq(Types) /\ t \in Types /\ scope'[g] = Append(scope[g], t)
        BY <1>2, <2>1, ConstantsAssumption DEF TypeInv, TypeOK
      <3> DEFINE n == Len(scope[g])
      <3>2. /\ n \in Nat /\ Len(scope'[g]) = n + 1 /\ scope'[g][n + 1] = t
            /\ \A i \in 1..n : scope'[g][i] = scope[g][i]
        BY <3>1, AppendProperties
      <3> HIDE DEF n
      <3>3. \A i : i \in 1..n + 1 <=> i \in 1..n \/ i = n + 1
        BY <3>2
      <3> QED
        BY <2>1, <3>2, <3>3 DEF InScope, n
    <2>2. CASE ~(t \in Scopeds /\ ret[g] = "ok")
      BY <1>2, <2>2 DEF InScope
    <2> QED
      BY <2>1, <2>2
  <1> HIDE DEF t
  <1>8. ASSUME NEW u \in Singletons PROVE SingletonLives(u)'
    <2>1. SingletonLives(u) /\ u \in Types /\ u # t
      BY <1>1, ConstantsAssumption DEF LiveInv
    <2>2. \A h \in Goroutines : Ready(h, u)' <=> Ready(h, u)
      BY <1>3, <1>4, <2>1
    <2> QED
      BY <1>1, <1>5, <1>6, <2>1, <2>2 DEF SingletonLives
  <1>9. ASSUME NEW h \in Goroutines, NEW u \in Scopeds PROVE ScopedLives(h, u)'
    <2>1. ScopedLives(h, u) /\ u \in Types
      BY ConstantsAssumption DEF LiveInv
    <2>2. CASE h = g
      BY <1>1, <1>3, <1>4, <1>5, <1>7, <2>1, <2>2 DEF ScopedLives
    <2>3. CASE h # g
      <3>1. InScope(h, u)' <=> InScope(h, u)
        BY <1>1, <2>3 DEF InScope
      <3> QED
        BY <1>1, <1>3, <1>5, <2>1, <2>3, <3>1 DEF ScopedLives
    <2> QED
      BY <2>2, <2>3
  <1>10. \A u \in given' : IsCached(u)'
    BY <1>1, <1>6 DEF LiveInv
  <1>11. \A h \in Goroutines : pc'[h] = "singleton" => asked'[h].type \in Singletons
    BY <1>1 DEF LiveInv
  <1> QED
    BY <1>8, <1>9, <1>10, <1>11 DEF LiveInv

\* Scope.Close closes what the scope holds and empties it.
LEMMA CloseScopeLives ==
    ASSUME TypeInv, LiveInv, NEW g \in Goroutines, CloseScope(g)
    PROVE  LiveInv'
  <1>1. /\ pc[g] = "idle" /\ scope'[g] = << >> /\ (\A h \in Goroutines \ {g} : scope'[h] = scope[h])
        /\ UNCHANGED <<instances, given, stacks, pc, asked, ret>>
    BY DEF CloseScope, TypeInv, TypeOK
  <1>2. /\ live \in [Owners -> [Types -> Int]] /\ Container \in Owners /\ g \in Owners /\ Container # g
        /\ Goroutines \subseteq Owners
    BY ConstantsAssumption DEF TypeInv, TypeOK, Owners, Container
  <1>3. /\ \A o \in Owners : o # g => live'[o] = live[o]
        /\ \A t \in Types : live'[g][t] = IF InScope(g, t) THEN live[g][t] - 1 ELSE live[g][t]
    BY <1>2 DEF CloseScope
  <1>4. \A h \in Goroutines, u \in Types : (Ready(h, u)' <=> Ready(h, u)) /\ (Underway(h, u)' <=> Underway(h, u))
    BY <1>1 DEF Ready, Underway, OnStack
  <1>5. \A u : IsCached(u)' <=> IsCached(u)
    BY <1>1 DEF IsCached
  <1>6. ASSUME NEW u \in Singletons PROVE SingletonLives(u)'
    <2>1. SingletonLives(u) /\ u \in Types
      BY ConstantsAssumption DEF LiveInv
    <2>2. live'[Container][u] = live[Container][u]
      BY <1>2, <1>3
    <2> QED
      BY <1>1, <1>4, <1>5, <2>1, <2>2 DEF SingletonLives
  <1>7. ASSUME NEW h \in Goroutines, NEW u \in Scopeds PROVE ScopedLives(h, u)'
    <2>1. ScopedLives(h, u) /\ u \in Types
      BY ConstantsAssumption DEF LiveInv
    <2>2. CASE h = g
      <3>1. ~Ready(g, u) /\ ~InScope(g, u)'
        <4>1. \A i : i \notin 1..Len(<< >>)
          OBVIOUS
        <4> QED
          BY <1>1, <4>1 DEF Ready, InScope
      <3>2. live'[g][u] = 0
        BY <1>3, <2>1, <2>2, <3>1 DEF ScopedLives
      <3> QED
        BY <1>4, <2>1, <2>2, <3>1, <3>2 DEF ScopedLives
    <2>3. CASE h # g
      <3>1. (InScope(h, u)' <=> InScope(h, u)) /\ live'[h] = live[h]
        BY <1>1, <1>2, <1>3, <2>3 DEF InScope
      <3> QED
        BY <1>4, <2>1, <3>1 DEF ScopedLives
    <2> QED
      BY <2>2, <2>3
  <1> QED
    BY <1>1, <1>5, <1>6, <1>7 DEF LiveInv

\* A value is registered: Init is not the container's to count.
LEMMA RegisterLives ==
    ASSUME TypeInv, LiveInv, NEW t \in LateGiven, RegisterServiceInstance(t)
    PROVE  LiveInv'
  <1>1. instances' = WithInstance(t) /\ given' = given \cup {t} /\ UNCHANGED <<stacks, scope, live, pc, asked, ret>>
    BY DEF RegisterServiceInstance
  <1>2. \A u : IsCached(u)' <=> IsCached(u) \/ u = t
    BY <1>1, CachedNext, ConstantsAssumption
  <1>3. \A h \in Goroutines, u \in Types :
          (Ready(h, u)' <=> Ready(h, u)) /\ (Underway(h, u)' <=> Underway(h, u)) /\ (InScope(h, u)' <=> InScope(h, u))
    BY <1>1 DEF Ready, Underway, OnStack, InScope
  <1>4. ASSUME NEW u \in Singletons PROVE SingletonLives(u)'
    <2>1. SingletonLives(u) /\ u \in Types
      BY ConstantsAssumption DEF LiveInv
    <2> QED
      BY <1>1, <1>2, <1>3, <2>1 DEF SingletonLives
  <1>5. ASSUME NEW h \in Goroutines, NEW u \in Scopeds PROVE ScopedLives(h, u)'
    <2>1. ScopedLives(h, u) /\ u \in Types
      BY ConstantsAssumption DEF LiveInv
    <2> QED
      BY <1>1, <1>3, <2>1 DEF ScopedLives
  <1> QED
    BY <1>1, <1>2, <1>4, <1>5 DEF LiveInv

\* Every step keeps what is live.
LEMMA LiveStep == TypeInv /\ BuildInv /\ LiveInv /\ [Next]_vars => LiveInv'
  <1> SUFFICES ASSUME TypeInv, BuildInv, LiveInv, [Next]_vars PROVE LiveInv'
    OBVIOUS
  <1>1. ASSUME NEW g \in Goroutines, NEW n \in Names, NEW via \in Resolvers, Resolve(g, n, via)
        PROVE  LiveInv'
    <2>1. /\ pc[g] = "idle" /\ pc'[g] = "lookup" /\ UNCHANGED <<instances, given, scope, live, stacks, ret>>
          /\ \A h \in Goroutines \ {g} : pc'[h] = pc[h] /\ asked'[h] = asked[h]
      BY <1>1 DEF Resolve, Goto, TypeInv, TypeOK
    <2> QED
      BY <2>1, OneLives DEF Underway, OnStack
  <1>2. ASSUME NEW g \in Goroutines, LookupHit(g) PROVE LiveInv'
    <2>1. /\ pc[g] = "lookup" /\ pc'[g] = "return" /\ UNCHANGED <<instances, given, scope, live, stacks, asked>>
          /\ \A h \in Goroutines \ {g} : pc'[h] = pc[h] /\ ret'[h] = ret[h]
      BY <1>2 DEF LookupHit, Answer, Goto, TypeInv, TypeOK
    <2> QED
      BY <2>1, OneLives DEF Underway, OnStack
  <1>3. ASSUME NEW g \in Goroutines, LookupMiss(g) PROVE LiveInv'
    <2> DEFINE t == asked[g].type
    <2>1. /\ asked[g] \in [type : Types, via : Resolvers]
          /\ asked \in [Goroutines -> [type : Types, via : Resolvers] \cup {NoAsk}]
          /\ pc \in [Goroutines -> Labels] /\ ret \in [Goroutines -> {"none", "ok", "err", "circular"}]
      BY <1>3 DEF LookupMiss, TypeInv, TypeOK, Located
    <2>2. asked'[g].type = t
      <3>1. UNCHANGED asked \/ asked' = [asked EXCEPT ![g].via = "container"]
        BY <1>3 DEF LookupMiss
      <3> QED
        BY <2>1, <3>1
    <2>3. /\ pc[g] = "lookup" /\ pc'[g] \in {"singleton", "enter", "return"}
          /\ pc'[g] = "singleton" => t \in Singletons
          /\ pc'[g] = "enter" => t \notin Singletons /\ (t \in Scopeds => ~InScope(g, t))
          /\ UNCHANGED <<instances, given, scope, live, stacks>>
          /\ \A h \in Goroutines \ {g} : pc'[h] = pc[h] /\ asked'[h] = asked[h] /\ ret'[h] = ret[h]
      BY <1>3, <2>1, ConstantsAssumption DEF LookupMiss, Answer, Goto
    <2>4. t \in Scopeds /\ ~InScope(g, t) => live[g][t] = 0
      BY <2>3 DEF LiveInv, ScopedLives, Ready
    <2>5. \A h \in Goroutines, u \in Types : Ready(h, u)' <=> Ready(h, u)
      BY <2>3 DEF Ready
    <2>6. \A h \in Goroutines, u \in Types : Underway(h, u)' =>
             Underway(h, u) \/ (h = g /\ u = t /\ pc'[g] = "enter")
      BY <2>2, <2>3 DEF Underway, OnStack
    <2>7. \A h \in Goroutines : pc'[h] = "singleton" => asked'[h].type \in Singletons
      BY <2>2, <2>3 DEF LiveInv
    <2> HIDE DEF t
    <2> QED
      BY <2>3, <2>4, <2>5, <2>6, <2>7, LiveFrame
  <1>4. ASSUME NEW g \in Goroutines, ResolveSingleton(g) PROVE LiveInv'
    <2> DEFINE t == asked[g].type
    <2>1. /\ pc[g] = "singleton" /\ pc'[g] \in {"enter", "return", "blocked"}
          /\ pc'[g] = "enter" => ~IsCached(t) /\ builds[t] = NoOne
          /\ UNCHANGED <<instances, given, scope, live, stacks, asked>>
          /\ \A h \in Goroutines \ {g} : pc'[h] = pc[h] /\ ret'[h] = ret[h]
      BY <1>4 DEF ResolveSingleton, InFlight, Answer, Goto, TypeInv, TypeOK
    <2>2. t \in Singletons /\ t \in Types /\ t \notin Scopeds
      BY <2>1, ConstantsAssumption DEF LiveInv
    <2>3. ~IsCached(t) /\ builds[t] = NoOne => live[Container][t] = 0
      <3>1. builds[t] = NoOne => \A h \in Goroutines : ~Ready(h, t)
        BY <2>2, ConstantsAssumption DEF BuildInv, PendingOwned, Ready
      <3>2. ~IsCached(t) => t \notin given
        BY DEF LiveInv
      <3> QED
        BY <2>2, <3>1, <3>2 DEF LiveInv, SingletonLives
    <2>4. \A h \in Goroutines, u \in Types : Ready(h, u)' <=> Ready(h, u)
      BY <2>1 DEF Ready
    <2>5. \A h \in Goroutines, u \in Types : Underway(h, u)' =>
             Underway(h, u) \/ (h = g /\ u = t /\ pc'[g] = "enter")
      BY <2>1 DEF Underway, OnStack
    <2>6. \A h \in Goroutines : pc'[h] = "singleton" => asked'[h].type \in Singletons
      BY <2>1 DEF LiveInv
    <2> HIDE DEF t
    <2> QED
      BY <2>1, <2>2, <2>3, <2>4, <2>5, <2>6, LiveFrame
  <1>5. ASSUME NEW g \in Goroutines, EnterBuild(g) PROVE LiveInv'
    <2> DEFINE f == [type |-> asked[g].type, via |-> asked[g].via, next |-> 1]
    <2>1. /\ pc[g] = "enter" /\ pc'[g] \in {"built", "args"} /\ (pc'[g] = "built" => ret'[g] = "circular")
          /\ UNCHANGED <<instances, given, scope, live, asked>>
          /\ \A h \in Goroutines \ {g} : pc'[h] = pc[h] /\ ret'[h] = ret[h] /\ stacks'[h] = stacks[h]
          /\ stacks'[g] = stacks[g] \/ stacks'[g] = Append(stacks[g], f)
      BY <1>5 DEF EnterBuild, Goto, TypeInv, TypeOK
    <2>2. stacks[g] \in Seq(Frame) /\ f \in Frame
      <3>1. asked[g] \in [type : Types, via : Resolvers] /\ stacks \in [Goroutines -> Seq(Frame)]
        BY <2>1 DEF TypeInv, TypeOK, Located
      <3>2. asked[g].type \in Types /\ asked[g].via \in Resolvers
        BY <3>1
      <3>3. f \in Frame
        BY <3>2 DEF Frame
      <3> QED
        BY <3>1, <3>3
    <2>3. f.type = asked[g].type
      OBVIOUS
    <2> HIDE DEF f
    <2>4. \A t \in Types : OnStack(g, t)' => OnStack(g, t) \/ t = asked[g].type
      <3>1. CASE stacks'[g] = stacks[g]
        BY <3>1 DEF OnStack
      <3>2. CASE stacks'[g] = Append(stacks[g], f)
        BY <2>2, <2>3, <3>2, AppendProperties DEF OnStack
      <3> QED
        BY <2>1, <3>1, <3>2
    <2>5. \A t \in Types : OnStack(g, t)' => Underway(g, t)
      BY <2>1, <2>4 DEF Underway
    <2> QED
      BY <2>1, <2>5, OneLives
  <1>6. ASSUME NEW g \in Goroutines, AskNext(g) PROVE LiveInv'
    <2>1. /\ pc[g] = "args" /\ pc'[g] = "lookup" /\ UNCHANGED <<instances, given, scope, live, stacks, ret>>
          /\ \A h \in Goroutines \ {g} : pc'[h] = pc[h] /\ asked'[h] = asked[h]
      BY <1>6 DEF AskNext, Goto, TypeInv, TypeOK
    <2> QED
      BY <2>1, OneLives DEF Underway, OnStack
  <1>7. ASSUME NEW g \in Goroutines, Construct(g) PROVE LiveInv'
    BY <1>7, ConstructLives
  <1>8. ASSUME NEW g \in Goroutines, Panic(g) PROVE LiveInv'
    <2>1. /\ pc[g] = "args" /\ pc'[g] = "idle" /\ stacks'[g] = << >> /\ UNCHANGED <<instances, given, scope, live, ret>>
          /\ \A h \in Goroutines \ {g} : pc'[h] = pc[h] /\ asked'[h] = asked[h] /\ stacks'[h] = stacks[h]
      BY <1>8 DEF Panic, Goto, TypeInv, TypeOK
    <2>2. \A t : ~OnStack(g, t)'
      BY <2>1 DEF OnStack
    <2> QED
      BY <2>1, <2>2, OneLives
  <1>9. ASSUME NEW g \in Goroutines, Publish(g) PROVE LiveInv'
    BY <1>9, PublishLives
  <1>10. ASSUME NEW g \in Goroutines, CloseDone(g) PROVE LiveInv'
    <2>1. /\ pc[g] = "close" /\ UNCHANGED <<instances, given, scope, live, stacks, asked>>
          /\ \A h \in Goroutines : \/ pc'[h] = pc[h] /\ ret'[h] = ret[h]
                                   \/ pc[h] \in {"blocked", "close"} /\ pc'[h] \in {"woken", "return"}
      BY <1>10 DEF CloseDone, Waking
    <2>2. \A h \in Goroutines, t \in Types : Ready(h, t)' <=> Ready(h, t)
      BY <2>1 DEF Ready
    <2>3. \A h \in Goroutines, t \in Types : Underway(h, t)' => Underway(h, t)
      BY <2>1 DEF Underway, OnStack
    <2>4. \A h \in Goroutines : pc'[h] = "singleton" => asked'[h].type \in Singletons
      BY <2>1 DEF LiveInv
    <2> QED
      BY <2>1, <2>2, <2>3, <2>4, LiveFrame
  <1>11. ASSUME NEW g \in Goroutines, Wake(g) PROVE LiveInv'
    <2>1. /\ pc[g] = "woken" /\ pc'[g] = "return" /\ UNCHANGED <<instances, given, scope, live, stacks, asked, ret>>
          /\ \A h \in Goroutines \ {g} : pc'[h] = pc[h]
      BY <1>11 DEF Wake, Goto, TypeInv, TypeOK
    <2> QED
      BY <2>1, OneLives DEF Underway, OnStack
  <1>12. ASSUME NEW g \in Goroutines, Keep(g) PROVE LiveInv'
    BY <1>12, KeepLives
  <1>13. ASSUME NEW g \in Goroutines, Return(g) PROVE LiveInv'
    <2>1. CASE stacks[g] = << >> /\ pc' = [pc EXCEPT ![g] = "idle"] /\ UNCHANGED stacks
      <3>1. /\ pc[g] = "return" /\ pc'[g] = "idle" /\ UNCHANGED <<instances, given, scope, live, stacks>>
            /\ \A h \in Goroutines \ {g} : pc'[h] = pc[h] /\ asked'[h] = asked[h] /\ ret'[h] = ret[h]
        BY <1>13, <2>1 DEF Return, LeaveWith, TypeInv, TypeOK
      <3> QED
        BY <3>1, OneLives DEF Underway, OnStack
    <2>2. CASE /\ stacks[g] # << >> /\ Advance(g)
               /\ pc' = [pc EXCEPT ![g] = "args"] /\ ret' = [ret EXCEPT ![g] = "none"] /\ UNCHANGED asked
      <3>1. /\ pc[g] = "return" /\ pc'[g] = "args" /\ UNCHANGED <<instances, given, scope, live, asked>>
            /\ \A h \in Goroutines \ {g} : pc'[h] = pc[h] /\ ret'[h] = ret[h] /\ stacks'[h] = stacks[h]
        BY <1>13, <2>2 DEF Return, Advance, TypeInv, TypeOK
      <3>2. \A t \in Types : OnStack(g, t)' => OnStack(g, t)
        BY <2>2, AdvanceKeepsTypes DEF OnStack
      <3> QED
        BY <3>1, <3>2, OneLives DEF Underway
    <2>3. CASE stacks[g] # << >> /\ ret[g] # "ok" /\ LeaveWith(g, ret[g])
      <3>1. pc[g] = "return" /\ UNCHANGED <<instances, given, scope, live>> /\ ret[g] \in {"none", "ok", "err", "circular"}
        BY <1>13 DEF Return, TypeInv, TypeOK
      <3>2. /\ pc'[g] = "built" /\ ret'[g] # "ok" /\ (\A t \in Types : OnStack(g, t)' => Underway(g, t))
            /\ \A h \in Goroutines \ {g} : pc'[h] = pc[h] /\ asked'[h] = asked[h] /\ ret'[h] = ret[h] /\ stacks'[h] = stacks[h]
        BY <2>3, <3>1, LeavesStack DEF Underway
      <3> QED
        BY <3>1, <3>2, OneLives
    <2> QED
      BY <1>13, <2>1, <2>2, <2>3 DEF Return, Goto, Fails
  <1>14. ASSUME NEW g \in Goroutines, CloseScope(g) PROVE LiveInv'
    BY <1>14, CloseScopeLives
  <1>15. ASSUME NEW t \in LateGiven, RegisterServiceInstance(t) PROVE LiveInv'
    BY <1>15, RegisterLives
  <1>16. CASE UNCHANGED vars
    BY <1>16, LiveFrame DEF vars, Ready, Underway, OnStack, LiveInv
  <1> QED
    BY <1>1, <1>2, <1>3, <1>4, <1>5, <1>6, <1>7, <1>8, <1>9, <1>10, <1>11, <1>12, <1>13, <1>14, <1>15, <1>16
       DEF Next, Step

\* Init runs to success once for a singleton and once in its scope for a scoped
\* service (service_registry.go, resolveSingleton, resolveType and invoke):
\* what is initialized and open is what is cached or about to be, however
\* lookups interleave, whatever fails or panics, and also while values are
\* registered for other types.
THEOREM InitializedOnce == Spec => []LiveIsKept
  <1>1. Init => LiveInv
    <2> SUFFICES ASSUME Init PROVE LiveInv
      OBVIOUS
    <2>1. /\ \A g \in Goroutines : pc[g] = "idle" /\ stacks[g] = << >> /\ scope[g] = << >>
          /\ \A t \in Types : live[Container][t] = 0 /\ \A g \in Goroutines : live[g][t] = 0
      BY DEF Init, Owners
    <2>2. \A t : IsCached(t) <=> t \in given
      BY DEF Init, IsCached, SeqRange
    <2>3. Singletons \subseteq Types /\ Scopeds \subseteq Types
      BY ConstantsAssumption
    <2>4. \A i : i \notin 1..Len(<< >>)
      OBVIOUS
    <2>5. \A g \in Goroutines, t \in Types : ~Ready(g, t) /\ ~Underway(g, t) /\ ~InScope(g, t)
      BY <2>1, <2>4 DEF Ready, Underway, OnStack, InScope
    <2> QED
      BY <2>1, <2>2, <2>3, <2>5 DEF LiveInv, SingletonLives, ScopedLives
  <1>2. LiveInv => LiveIsKept
    BY DEF LiveInv, SingletonLives, ScopedLives, LiveIsKept, Ready
  <1>3. Init => BuildInv
    BY DEF Init, BuildInv, NoNestedBuild, StackOwned, PendingOwned, OnStack
  <1> QED
    BY <1>1, <1>2, <1>3, TypeInit, TypeStep, BuildStep, LiveStep, PTL DEF Spec
=============================================================================
