--------------------------- MODULE Decisions_proofs ---------------------------
(***************************************************************************)
(* Proofs about what the core decides by health scores: Balancer, for      *)
(* every set of interfaces and scores, every routes a host can have and    *)
(* any number of setups, and Predictive, for every reading, window and     *)
(* threshold.  Both add up finite functions.                               *)
(***************************************************************************)
EXTENDS Balancer, Predictive, FiniteSetTheorems, SequenceTheorems, WellFoundedInduction,
        TLAPS

(* Sums over finite sets *)

\* A set of natural numbers has a least element.
LEMMA LeastNat ==
    ASSUME NEW T \in SUBSET Nat, T # {}
    PROVE  \E n \in T : \A m \in T : n <= m
  <1>1. PICK n \in T : \A m \in T : ~(<<m, n>> \in OpToRel(<, Nat))
    BY NatLessThanWellFounded, WFMin, Zenon
  <1>2. \A m \in T : ~(m < n)
    BY <1>1, Zenon DEF OpToRel
  <1> QED BY <1>2

\* The element that a sum over T takes first.
AnyOf(T) == CHOOSE i \in T : TRUE

\* Induction on finite sets, in the order in which a sum takes their elements.
LEMMA SubsetInduction ==
    ASSUME NEW S, IsFiniteSet(S), NEW G, {} \in G,
           \A T \in SUBSET S : T # {} /\ T \ {AnyOf(T)} \in G => T \in G
    PROVE  \A T \in SUBSET S : T \in G
  <1> SUFFICES ASSUME NEW T \in SUBSET S, T \notin G
               PROVE  FALSE
    OBVIOUS
  <1>1. \A U \in SUBSET S : IsFiniteSet(U) /\ Cardinality(U) \in Nat
    BY FS_Subset, FS_CardinalityType
  <1> DEFINE Sizes == {n \in Nat : \E U \in SUBSET S : U \notin G /\ Cardinality(U) = n}
  <1>2. Sizes # {}
    BY <1>1
  <1>3. PICK n \in Sizes : \A m \in Sizes : n <= m
    BY <1>2, LeastNat
  <1>4. PICK U \in SUBSET S : U \notin G /\ Cardinality(U) = n
    OBVIOUS
  <1>5. AnyOf(U) \in U
    BY <1>4 DEF AnyOf
  <1>6. Cardinality(U \ {AnyOf(U)}) = n - 1
    BY <1>1, <1>4, <1>5, FS_RemoveElement
  <1>7. U \ {AnyOf(U)} \in SUBSET S /\ U \ {AnyOf(U)} \notin G
    BY <1>4, <1>5
  <1>8. n - 1 \in Sizes
    BY <1>1, <1>6, <1>7
  <1> QED BY <1>3, <1>8

\* What SumFunctionOnSet(f, S) defines by recursion, for all T of a set of sets.
Adds(sum, f, All) ==
    sum = [T \in All |-> IF T = {} THEN 0 ELSE f[AnyOf(T)] + sum[T \ {AnyOf(T)}]]

Smaller(S, n) == {T \in SUBSET S : Cardinality(T) <= n}


LEMMA InductiveSet ==
    ASSUME NEW S \in SUBSET Nat, 0 \in S, \A n \in S : n + 1 \in S
    PROVE  S = Nat
  <1>1. SUFFICES ASSUME Nat \ S # {} PROVE FALSE
    OBVIOUS
  <1>2. PICK n \in Nat \ S : \A m \in Nat \ S : n <= m
    BY <1>1, LeastNat
  <1>3. n - 1 \in S
    BY <1>2
  <1> QED BY <1>2, <1>3

\* A set that is not empty is one larger than what is left of it.
LEMMA AnyOfIs ==
    ASSUME NEW S, IsFiniteSet(S), NEW T \in SUBSET S
    PROVE  /\ IsFiniteSet(T) /\ Cardinality(T) \in Nat
           /\ T = {} => Cardinality(T) = 0
           /\ T # {} => /\ AnyOf(T) \in T
                        /\ T \ {AnyOf(T)} \in SUBSET S
                        /\ Cardinality(T) = Cardinality(T \ {AnyOf(T)}) + 1
                        /\ Cardinality(T \ {AnyOf(T)}) \in Nat
  <1>1. IsFiniteSet(T) /\ Cardinality(T) \in Nat
    BY FS_Subset, FS_CardinalityType
  <1>2. T = {} => Cardinality(T) = 0
    BY FS_EmptySet
  <1>3. CASE T # {}
    <2>1. AnyOf(T) \in T
      BY <1>3 DEF AnyOf
    <2>2. /\ IsFiniteSet(T \ {AnyOf(T)})
          /\ Cardinality(T \ {AnyOf(T)}) = Cardinality(T) - 1
      BY <1>1, <2>1, FS_RemoveElement
    <2>3. Cardinality(T \ {AnyOf(T)}) \in Nat
      BY <2>2, FS_CardinalityType
    <2> QED BY <1>1, <1>3, <2>1, <2>2, <2>3
  <1> QED BY <1>1, <1>2, <1>3

LEMMA SumExists ==
    ASSUME NEW f, NEW S, IsFiniteSet(S)
    PROVE  \E sum : Adds(sum, f, SUBSET S)
  <1> DEFINE N == {n \in Nat : \E sum : Adds(sum, f, Smaller(S, n))}
  <1>1. 0 \in N
    <2> DEFINE none == [T \in Smaller(S, 0) |-> 0]
    <2>1. ASSUME NEW T \in Smaller(S, 0), T # {}
          PROVE  FALSE
      <3>1. T \in SUBSET S /\ Cardinality(T) <= 0
        BY DEF Smaller
      <3>2. Cardinality(T \ {AnyOf(T)}) \in Nat /\ Cardinality(T) = Cardinality(T \ {AnyOf(T)}) + 1
        BY <2>1, <3>1, AnyOfIs
      <3> QED BY <3>1, <3>2
    <2>2. Adds(none, f, Smaller(S, 0))
      BY <2>1 DEF Adds
    <2> QED BY <2>2
  <1>2. ASSUME NEW n \in N
        PROVE  n + 1 \in N
    <2>1. PICK sum : Adds(sum, f, Smaller(S, n))
      OBVIOUS
    <2> DEFINE longer == [T \in Smaller(S, n + 1) |->
                             IF T = {} THEN 0 ELSE f[AnyOf(T)] + sum[T \ {AnyOf(T)}]]
    <2>2. \A T \in Smaller(S, n) : T \in Smaller(S, n + 1) /\ longer[T] = sum[T]
      <3>1. Smaller(S, n) \subseteq Smaller(S, n + 1)
        <4>1. \A T \in SUBSET S : Cardinality(T) \in Nat
          BY AnyOfIs
        <4> QED BY <4>1 DEF Smaller
      <3> QED BY <2>1, <3>1 DEF Adds
    <2>3. \A T \in Smaller(S, n + 1) : T # {} => T \ {AnyOf(T)} \in Smaller(S, n)
      BY AnyOfIs DEF Smaller
    <2>4. \A T \in Smaller(S, n + 1) :
              T # {} => sum[T \ {AnyOf(T)}] = longer[T \ {AnyOf(T)}]
      BY <2>2, <2>3
    <2> DEFINE step(T) == IF T = {} THEN 0 ELSE f[AnyOf(T)] + longer[T \ {AnyOf(T)}]
    <2>5. \A T \in Smaller(S, n + 1) : longer[T] = step(T)
      BY <2>4
    <2>6. longer = [T \in Smaller(S, n + 1) |-> longer[T]]
      OBVIOUS
    <2> HIDE DEF longer
    <2>7. longer = [T \in Smaller(S, n + 1) |-> step(T)]
      BY <2>5, <2>6
    <2>8. Adds(longer, f, Smaller(S, n + 1))
      BY <2>7 DEF Adds
    <2> QED BY <2>8
  <1> HIDE DEF N
  <1>3. N = Nat
    BY <1>1, <1>2, InductiveSet DEF N
  <1>4. Cardinality(S) \in Nat /\ Smaller(S, Cardinality(S)) = SUBSET S
    <2>1. \A T \in SUBSET S : Cardinality(T) <= Cardinality(S)
      BY FS_Subset
    <2> QED BY <2>1, FS_CardinalityType DEF Smaller
  <1>5. \E sum : Adds(sum, f, Smaller(S, Cardinality(S)))
    BY <1>3, <1>4 DEF N
  <1> QED BY <1>4, <1>5

\* SumFunctionOnSet(f, S), with the sums over the subsets of S.
Summed(sum, f, S) ==
    /\ sum[S] = SumFunctionOnSet(f, S)
    /\ sum[{}] = 0
    /\ \A T \in SUBSET S : T # {} => sum[T] = f[AnyOf(T)] + sum[T \ {AnyOf(T)}]

LEMMA SumUnfolds ==
    ASSUME NEW f, NEW S, IsFiniteSet(S)
    PROVE  \E sum : Summed(sum, f, S)
  <1> DEFINE sum == CHOOSE sum : Adds(sum, f, SUBSET S)
  <1>1. Adds(sum, f, SUBSET S)
    BY SumExists
  <1>2. SumFunctionOnSet(f, S) = sum[S]
    BY DEF SumFunctionOnSet, FoldFunctionOnSet, MapThenFoldSet, Adds, AnyOf
  <1> HIDE DEF sum
  <1>3. sum[{}] = 0 /\ \A T \in SUBSET S :
                           T # {} => sum[T] = f[AnyOf(T)] + sum[T \ {AnyOf(T)}]
    BY <1>1 DEF Adds
  <1> QED BY <1>2, <1>3 DEF Summed

LEMMA SumType ==
    ASSUME NEW S, IsFiniteSet(S), NEW f, \A i \in S : f[i] \in Nat
    PROVE  /\ SumFunctionOnSet(f, S) \in Nat
           /\ \A i \in S : f[i] <= SumFunctionOnSet(f, S)
  <1>1. PICK sum : Summed(sum, f, S)
    BY SumUnfolds
  <1> DEFINE G == {T \in SUBSET S : sum[T] \in Nat /\ \A i \in T : f[i] <= sum[T]}
  <1>2. {} \in G
    BY <1>1 DEF Summed
  <1>3. ASSUME NEW T \in SUBSET S, T # {}, T \ {AnyOf(T)} \in G
        PROVE  T \in G
    <2> DEFINE i == AnyOf(T)
               U == T \ {i}
    <2>1. sum[T] = f[i] + sum[U] /\ i \in T
      BY <1>1, <1>3, AnyOfIs DEF Summed
    <2>2. f[i] \in Nat /\ sum[U] \in Nat /\ \A j \in U : f[j] <= sum[U] /\ f[j] \in Nat
      BY <1>3, <2>1
    <2>3. \A j \in T : j = i \/ j \in U
      OBVIOUS
    <2> HIDE DEF i, U
    <2>4. sum[T] \in Nat /\ \A j \in T : f[j] <= sum[T]
      BY <2>1, <2>2, <2>3
    <2> QED BY <2>4
  <1> HIDE DEF G
  <1>4. S \in G
    BY <1>2, <1>3, SubsetInduction
  <1> QED BY <1>1, <1>4 DEF G, Summed

LEMMA Distribute ==
    ASSUME NEW a \in Int, NEW b \in Int, NEW c \in Int
    PROVE  /\ a * (b + c) = a * b + a * c
           /\ a * b \in Int /\ a * c \in Int /\ b + c \in Int
  OBVIOUS

\* Where the multiples of two functions are close everywhere, so are those of their sums.
LEMMA SumClose ==
    ASSUME NEW S, IsFiniteSet(S), NEW f, NEW g, NEW a \in Int, NEW c \in Int,
           \A i \in S : /\ f[i] \in Int /\ g[i] \in Int
                        /\ a * f[i] - c <= c * g[i] /\ c * g[i] <= a * f[i] + c
    PROVE  /\ SumFunctionOnSet(f, S) \in Int /\ SumFunctionOnSet(g, S) \in Int
           /\ a * SumFunctionOnSet(f, S) - c * Cardinality(S) <= c * SumFunctionOnSet(g, S)
           /\ c * SumFunctionOnSet(g, S) <= a * SumFunctionOnSet(f, S) + c * Cardinality(S)
  <1>1. PICK sum : Summed(sum, f, S)
    BY SumUnfolds
  <1>2. PICK total : Summed(total, g, S)
    BY SumUnfolds
  <1> DEFINE Good(T) == /\ sum[T] \in Int /\ total[T] \in Int
                        /\ a * sum[T] - c * Cardinality(T) <= c * total[T]
                        /\ c * total[T] <= a * sum[T] + c * Cardinality(T)
             G == {T \in SUBSET S : Good(T)}
  <1>3. {} \in G
    <2>1. Cardinality({}) = 0
      BY FS_EmptySet
    <2> QED BY <1>1, <1>2, <2>1 DEF Summed
  <1>4. ASSUME NEW T \in SUBSET S, T # {}, T \ {AnyOf(T)} \in G
        PROVE  T \in G
    <2> DEFINE i == AnyOf(T)
               U == T \ {i}
               n == Cardinality(U)
    <2>1. /\ sum[T] = f[i] + sum[U] /\ total[T] = g[i] + total[U]
          /\ i \in S /\ Cardinality(T) = n + 1 /\ n \in Int
      <3>1. /\ AnyOf(T) \in T /\ Cardinality(T) = Cardinality(T \ {AnyOf(T)}) + 1
            /\ Cardinality(T \ {AnyOf(T)}) \in Nat
        BY <1>4, AnyOfIs
      <3>2. sum[T] = f[AnyOf(T)] + sum[T \ {AnyOf(T)}]
        BY <1>1, <1>4 DEF Summed
      <3>3. total[T] = g[AnyOf(T)] + total[T \ {AnyOf(T)}]
        BY <1>2, <1>4 DEF Summed
      <3> QED BY <1>4, <3>1, <3>2, <3>3
    <2>2. /\ sum[U] \in Int /\ total[U] \in Int
          /\ a * sum[U] - c * n <= c * total[U]
          /\ c * total[U] <= a * sum[U] + c * n
      BY <1>4
    <2>3. /\ f[i] \in Int /\ g[i] \in Int
          /\ a * f[i] - c <= c * g[i] /\ c * g[i] <= a * f[i] + c
      BY <2>1
    <2> HIDE DEF i, U, n
    <2>4. /\ a * sum[T] = a * f[i] + a * sum[U]
          /\ c * total[T] = c * g[i] + c * total[U]
          /\ c * Cardinality(T) = c * n + c
      BY <2>1, <2>2, <2>3, Distribute
    <2>5. a * f[i] \in Int /\ a * sum[U] \in Int /\ c * g[i] \in Int /\ c * total[U] \in Int
          /\ c * n \in Int
      BY <2>1, <2>2, <2>3, Distribute
    <2>6. sum[T] \in Int /\ total[T] \in Int
      BY <2>1, <2>2, <2>3
    <2>7. /\ a * sum[T] - c * Cardinality(T) <= c * total[T]
          /\ c * total[T] <= a * sum[T] + c * Cardinality(T)
      BY <2>2, <2>3, <2>4, <2>5
    <2> QED BY <2>6, <2>7
  <1> HIDE DEF G
  <1>5. S \in G
    BY <1>3, <1>4, SubsetInduction
  <1>6. Good(S)
    BY <1>5 DEF G
  <1> QED BY <1>1, <1>2, <1>6 DEF Summed

------------------------------------------------------------------------------
(* What the balancer configured *)

\* Whether a set of several hops is configured: setup_ecmp reported it, and no teardown
\* has begun since.
SetInForce == in_force # NoSet /\ Cardinality(DOMAIN in_force) > 1

RoutesTyped ==
    /\ DOMAIN routes \subseteq Nat
    /\ 0 \in DOMAIN routes /\ SetInForce => routes[0].first \in DOMAIN routes[0].hops

\* The set in force stands at the metric 0, below which there is nothing.
SetAtZero ==
    SetInForce => /\ 0 \in DOMAIN routes
                  /\ routes[0].hops = in_force
                  /\ call.op # "delete routes"

\* While a teardown that covers the set has not failed, the hop the kernel compares is
\* still to come, or the set is gone.
TeardownOnItsWay ==
    call.op = "delete routes" /\ call.ok /\ 0 \in DOMAIN routes =>
        routes[0].first \in call.todo

RouteInv == RoutesTyped /\ SetAtZero /\ TeardownOnItsWay

------------------------------------------------------------------------------
(* ECMP routes *)

LEMMA ZeroIsMin ==
    ASSUME NEW S \in SUBSET Nat, 0 \in S
    PROVE  Min(S) = 0
  <1>1. \E x \in S : \A y \in S : x <= y
    OBVIOUS
  <1>2. Min(S) \in S /\ \A y \in S : Min(S) <= y
    BY <1>1 DEF Min
  <1>3. Min(S) \in Nat /\ Min(S) <= 0
    BY <1>2
  <1> QED BY <1>3

LEMMA RouteInit == Init => RouteInv
  BY BalancerAssumption DEF Init, RouteInv, RoutesTyped, SetAtZero, TeardownOnItsWay,
     SetInForce, Idle

\* setup_ecmp of several hops writes the set at 0; of one hop, it leaves 0 alone and no
\* set is in force.
LEMMA SetupRoutes ==
    ASSUME RouteInv, SetupEcmp
    PROVE  RouteInv'
  <1>1. PICK first \in DOMAIN Generated :
            routes' = [m \in DOMAIN routes \cup {WrittenAt(Generated)} |->
                          IF m = WrittenAt(Generated)
                          THEN Route(Written(Generated), first) ELSE routes[m]]
    BY DEF SetupEcmp
  <1>2. in_force' = Written(Generated) /\ call' = call /\ call.op # "delete routes"
    BY DEF SetupEcmp, Idle
  <1>3. DOMAIN Written(Generated) = DOMAIN Generated
    BY DEF Written, Generated, Restrict
  <1>4. WrittenAt(Generated) \in {0, 100}
    BY DEF WrittenAt, Metric
  <1>5. SetInForce' => WrittenAt(Generated) = 0
    <2>1. DOMAIN in_force' = DOMAIN Generated
      BY <1>2, <1>3
    <2> QED BY <2>1 DEF SetInForce, WrittenAt
  <1>6. SetInForce' => /\ 0 \in DOMAIN routes'
                       /\ routes'[0] = Route(Written(Generated), first)
    BY <1>1, <1>5
  <1>7. SetAtZero'
    <2>1. SetInForce' => routes'[0].hops = Written(Generated)
      BY <1>6 DEF Route
    <2> QED BY <1>2, <1>6, <2>1 DEF SetAtZero
  <1>8. RoutesTyped'
    <2>1. DOMAIN routes' \subseteq Nat
      BY <1>1, <1>4 DEF RouteInv, RoutesTyped
    <2>2. SetInForce' => routes'[0].first = first /\ routes'[0].hops = Written(Generated)
      BY <1>6 DEF Route
    <2> QED BY <1>3, <2>1, <2>2 DEF RoutesTyped
  <1>9. TeardownOnItsWay'
    BY <1>2 DEF TeardownOnItsWay
  <1> QED BY <1>7, <1>8, <1>9 DEF RouteInv

\* A command of teardown_ecmp removes the lowest route of the hop it names.
LEMMA DeleteRoutes ==
    ASSUME RouteInv, NEW i, DeleteRoute(i) \/ DeleteRouteFails(i)
    PROVE  RouteInv'
  <1>1. /\ call.op = "delete routes" /\ ~SetInForce /\ UNCHANGED in_force
        /\ call'.op = call.op
    <2>1. call.op = "delete routes" /\ UNCHANGED in_force
      BY DEF DeleteRoute, DeleteRouteFails, auxiliary
    <2>2. call'.op = call.op
      <3>1. CASE DeleteRoute(i)
        BY <3>1 DEF DeleteRoute, Took
      <3>2. CASE DeleteRouteFails(i)
        BY <3>2 DEF DeleteRouteFails, Failed
      <3> QED BY <3>1, <3>2
    <2> QED BY <2>1, <2>2 DEF RouteInv, SetAtZero
  <1>2. ~SetInForce'
    BY <1>1 DEF SetInForce
  <1>3. DOMAIN routes' \subseteq DOMAIN routes
    BY DEF DeleteRoute, DeleteRouteFails, kernel, Restrict
  <1>4. TeardownOnItsWay'
    <2>1. CASE DeleteRoute(i)
      <3> SUFFICES ASSUME call'.ok, 0 \in DOMAIN routes'
                   PROVE  routes'[0].first \in call'.todo
        BY DEF TeardownOnItsWay
      <3>1. call'.todo = call.todo \ {i} /\ call'.ok = call.ok
        BY <2>1 DEF DeleteRoute, Took
      <3>2. 0 \in DOMAIN routes /\ routes'[0] = routes[0]
        BY <1>3, <2>1 DEF DeleteRoute, Restrict
      <3>3. routes[0].first \in call.todo
        BY <1>1, <3>1, <3>2 DEF RouteInv, TeardownOnItsWay
      <3>4. routes[0].first # i
        <4> SUFFICES ASSUME routes[0].first = i PROVE FALSE
          OBVIOUS
        <4>1. 0 \in DeletedBy(i) /\ DeletedBy(i) \in SUBSET Nat
          BY <3>2 DEF DeletedBy, RouteInv, RoutesTyped
        <4>2. Min(DeletedBy(i)) = 0
          BY <4>1, ZeroIsMin
        <4> QED BY <2>1, <4>1, <4>2 DEF DeleteRoute, Restrict
      <3> QED BY <3>1, <3>2, <3>3, <3>4
    <2>2. CASE DeleteRouteFails(i)
      BY <2>2 DEF DeleteRouteFails, Failed, TeardownOnItsWay
    <2> QED BY <2>1, <2>2
  <1> QED BY <1>1, <1>2, <1>3, <1>4 DEF RouteInv, RoutesTyped, SetAtZero

LEMMA RouteStep ==
    ASSUME RouteInv, [Next]_vars
    PROVE  RouteInv'
  <1>1. ASSUME NEW hops, TeardownEcmp(hops)
        PROVE  RouteInv'
    <2>1. /\ call'.todo = DOMAIN hops
          /\ call'.ok <=> SetInForce /\ DOMAIN in_force \subseteq DOMAIN hops
      BY <1>1 DEF TeardownEcmp, SetInForce
    <2>2. routes' = routes /\ ~SetInForce'
      BY <1>1 DEF TeardownEcmp, kernel, SetInForce
    <2>3. call'.ok /\ 0 \in DOMAIN routes' => routes'[0].first \in call'.todo
      BY <2>1, <2>2 DEF RouteInv, RoutesTyped, SetAtZero
    <2> QED BY <2>2, <2>3 DEF RouteInv, RoutesTyped, SetAtZero, TeardownOnItsWay, SetInForce
  <1>2. ASSUME UNCHANGED <<routes, in_force>>,
               call' = call \/ call'.op # "delete routes"
        PROVE  RouteInv'
    <2>1. SetInForce' = SetInForce
      BY <1>2 DEF SetInForce
    <2>2. RoutesTyped' /\ SetAtZero'
      BY <1>2, <2>1 DEF RouteInv, RoutesTyped, SetAtZero
    <2>3. TeardownOnItsWay'
      BY <1>2 DEF RouteInv, TeardownOnItsWay
    <2> QED BY <2>2, <2>3 DEF RouteInv
  <1>3. CASE Return \/ TeardownEcmpAborts \/ Crash
    <2>1. call' = Idle /\ UNCHANGED <<routes, in_force>>
      BY <1>3 DEF Return, TeardownEcmpAborts, Crash, kernel, auxiliary
    <2> QED BY <1>2, <2>1 DEF Idle
  <1>4. CASE \E S \in SUBSET Ifaces : \E health \in [S -> Scores] : ComputeWeights(health)
    BY <1>2, <1>4 DEF ComputeWeights, kernel, auxiliary
  <1>5. CASE SetupMarking \/ TeardownMarking
    <2>1. CASE SetupMarking
      <3>1. call'.op = "add rules"
        <4>1. PICK marks : call' = [op |-> "add rules", todo |-> marks, ok |-> TRUE]
          BY <2>1 DEF SetupMarking
        <4> QED BY <4>1
      <3>2. UNCHANGED <<routes, in_force>>
        BY <2>1 DEF SetupMarking
      <3> QED BY <1>2, <3>1, <3>2
    <2>2. CASE TeardownMarking
      <3>1. call' = [op |-> "delete rules", todo |-> 1 .. LastMark, ok |-> TRUE]
        BY <2>2 DEF TeardownMarking
      <3>2. UNCHANGED <<routes, in_force>>
        BY <2>2 DEF TeardownMarking, auxiliary
      <3> QED BY <1>2, <3>1, <3>2
    <2> QED BY <1>5, <2>1, <2>2
  <1>6. ASSUME NEW m, AddRule(m) \/ DeleteRule(m) \/ DeleteRuleFails(m)
        PROVE  RouteInv'
    <2>1. UNCHANGED <<routes, in_force>>
      BY <1>6 DEF AddRule, DeleteRule, DeleteRuleFails, kernel, auxiliary
    <2>2. call'.op = call.op /\ call.op # "delete routes"
      <3>1. CASE AddRule(m) \/ DeleteRule(m)
        <4>1. call.op # "delete routes" /\ call' = Took(m)
          BY <3>1 DEF AddRule, DeleteRule
        <4> QED BY <4>1 DEF Took
      <3>2. CASE DeleteRuleFails(m)
        BY <3>2 DEF DeleteRuleFails, Failed
      <3> QED BY <1>6, <3>1, <3>2
    <2> QED BY <1>2, <2>1, <2>2
  <1>7. CASE ApplyDscp \/ RemoveDscp \/ Rescan \/ UNCHANGED vars
    BY <1>2, <1>7 DEF ApplyDscp, RemoveDscp, Rescan, vars, kernel, auxiliary
  <1> QED BY <1>1, <1>3, <1>4, <1>5, <1>6, <1>7, SetupRoutes, DeleteRoutes DEF Next

LEMMA RoutesInvariant == Spec => []RouteInv
  BY RouteInit, RouteStep, PTL DEF Spec

\* setup_ecmp of several hops is what the host routes by, until it is torn down or set up
\* again, whatever routes there are besides.
THEOREM SetCorrect == Spec => []BalancedSetPreferred
  <1>1. RouteInv => BalancedSetPreferred
    BY ZeroIsMin DEF RouteInv, RoutesTyped, SetAtZero, SetInForce, BalancedSetPreferred
  <1> QED BY <1>1, RoutesInvariant, PTL

\* A teardown_ecmp that covers the set and is not disturbed removes it.
THEOREM TeardownCorrect == Spec => []TeardownRemovesSet
  <1>1. RouteInv => TeardownRemovesSet
    BY DEF RouteInv, TeardownOnItsWay, TeardownRemovesSet
  <1> QED BY <1>1, RoutesInvariant, PTL

------------------------------------------------------------------------------
(* Rules of packet marks *)

RulesTyped == mark_rules \in [Marks -> Nat] /\ not_undone \in Nat

\* A mark whose rule a setup has still to add has one rule less than there are setups.
AddsToCome ==
    call.op = "add rules" => \A m \in Marks \cap call.todo : mark_rules[m] < not_undone

\* A mark that an undisturbed teardown has dealt with has no rule, or one less than there
\* are setups.
DeletesDone ==
    call.op = "delete rules" /\ call.ok =>
        \A m \in Marks \ call.todo : mark_rules[m] = 0 \/ mark_rules[m] < not_undone

MarkInv == RulesTyped /\ RulesTakenBack /\ AddsToCome /\ DeletesDone

\* Marks are numbered by the interfaces, of which there are finitely many.
LEMMA MarksType == Cardinality(Ifaces) \in Nat /\ Marks \subseteq Nat \ {0}
  BY FS_CardinalityType, BalancerAssumption DEF Marks

LEMMA MarkInit == Init => MarkInv
  BY DEF Init, MarkInv, RulesTyped, RulesTakenBack, AddsToCome, DeletesDone, Idle

\* A command about one mark changes the rules of that mark only, by one.
LEMMA RuleSteps ==
    ASSUME MarkInv, NEW m, AddRule(m) \/ DeleteRule(m) \/ DeleteRuleFails(m)
    PROVE  MarkInv'
  <1>1. not_undone' = not_undone
    BY DEF AddRule, DeleteRule, DeleteRuleFails, auxiliary
  <1>2. CASE AddRule(m)
    <2>1. call.op = "add rules" /\ call' = Took(m) /\ m \in call.todo
      BY <1>2 DEF AddRule, NextMark
    <2>2. call'.op = "add rules" /\ call'.todo = call.todo \ {m}
      BY <2>1 DEF Took
    <2>3. /\ \A n \in Marks \ {m} : mark_rules'[n] = mark_rules[n]
          /\ mark_rules' \in [Marks -> Nat]
          /\ m \in Marks => mark_rules'[m] <= mark_rules[m] + 1
      <3>1. mark_rules \in [Marks -> Nat]
        BY DEF MarkInv, RulesTyped
      <3>2. mark_rules' = mark_rules \/ mark_rules' = [mark_rules EXCEPT ![m] = @ + 1]
        BY <1>2 DEF AddRule
      <3>3. CASE mark_rules' = mark_rules
        BY <3>1, <3>3
      <3>4. CASE mark_rules' = [mark_rules EXCEPT ![m] = @ + 1] /\ m \in Marks
        <4>1. mark_rules[m] + 1 \in Nat
          BY <3>1, <3>4
        <4> QED BY <3>1, <3>4, <4>1
      <3>5. CASE mark_rules' = [mark_rules EXCEPT ![m] = @ + 1] /\ m \notin Marks
        BY <3>1, <3>5
      <3> QED BY <3>2, <3>3, <3>4, <3>5
    <2>4. ASSUME m \in Marks
          PROVE  mark_rules'[m] <= not_undone
      <3>1. mark_rules[m] < not_undone
        BY <2>1, <2>4 DEF MarkInv, AddsToCome
      <3>2. mark_rules[m] \in Nat /\ mark_rules'[m] \in Nat /\ not_undone \in Nat
        BY <2>3, <2>4 DEF MarkInv, RulesTyped
      <3> QED BY <2>3, <2>4, <3>1, <3>2
    <2> QED BY <1>1, <2>1, <2>2, <2>3, <2>4 DEF MarkInv, RulesTyped, RulesTakenBack,
               AddsToCome, DeletesDone
  <1>3. CASE DeleteRule(m)
    <2>1. call.op = "delete rules" /\ call' = Took(m)
      BY <1>3 DEF DeleteRule
    <2>2. call'.op = "delete rules" /\ call'.todo = call.todo \ {m} /\ (call'.ok <=> call.ok)
      BY <2>1 DEF Took
    <2>3. /\ \A n \in Marks \ {m} : mark_rules'[n] = mark_rules[n]
          /\ mark_rules' \in [Marks -> Nat]
          /\ m \in Marks => \/ mark_rules'[m] = 0 /\ mark_rules[m] = 0
                            \/ mark_rules'[m] = mark_rules[m] - 1
      <3>1. mark_rules \in [Marks -> Nat]
        BY DEF MarkInv, RulesTyped
      <3>2. mark_rules' = IF m \in Marks /\ mark_rules[m] > 0
                          THEN [mark_rules EXCEPT ![m] = @ - 1] ELSE mark_rules
        BY <1>3 DEF DeleteRule
      <3>3. CASE m \in Marks /\ mark_rules[m] > 0
        <4>1. mark_rules[m] - 1 \in Nat
          BY <3>1, <3>3
        <4> QED BY <3>1, <3>2, <3>3, <4>1
      <3>4. CASE ~(m \in Marks /\ mark_rules[m] > 0)
        BY <3>1, <3>2, <3>4
      <3> QED BY <3>3, <3>4
    <2>4. m \in Marks => /\ mark_rules'[m] <= not_undone
                         /\ mark_rules'[m] = 0 \/ mark_rules'[m] < not_undone
      BY <2>3 DEF MarkInv, RulesTyped, RulesTakenBack
    <2> QED BY <1>1, <2>1, <2>2, <2>3, <2>4 DEF MarkInv, RulesTyped, RulesTakenBack,
               AddsToCome, DeletesDone
  <1>4. CASE DeleteRuleFails(m)
    <2>1. ~call'.ok /\ call'.op = "delete rules"
      <3>1. call.op = "delete rules" /\ call' = Failed(m)
        BY <1>4 DEF DeleteRuleFails
      <3> QED BY <3>1 DEF Failed
    <2>2. mark_rules' = mark_rules
      BY <1>4 DEF DeleteRuleFails, kernel
    <2> QED BY <1>1, <2>1, <2>2 DEF MarkInv, RulesTyped, RulesTakenBack, AddsToCome, DeletesDone
  <1> QED BY <1>2, <1>3, <1>4

\* A call begins with everything still to do; a teardown, with every mark.
LEMMA CallsBegin ==
    ASSUME MarkInv, Cardinality(Ifaces) <= LastMark, SetupMarking \/ TeardownMarking
    PROVE  MarkInv'
  <1>1. mark_rules' = mark_rules
    BY DEF SetupMarking, TeardownMarking
  <1>2. CASE SetupMarking
    <2>1. not_undone' = not_undone + 1
      BY <1>2 DEF SetupMarking
    <2>2. call'.op = "add rules"
      <3>1. PICK marks : call' = [op |-> "add rules", todo |-> marks, ok |-> TRUE]
        BY <1>2 DEF SetupMarking
      <3> QED BY <3>1
    <2>3. ASSUME NEW m \in Marks
          PROVE  mark_rules[m] <= not_undone' /\ mark_rules[m] < not_undone'
      <3>1. mark_rules[m] \in Nat /\ not_undone \in Nat /\ mark_rules[m] <= not_undone
        BY DEF MarkInv, RulesTyped, RulesTakenBack
      <3> QED BY <2>1, <3>1
    <2>4. RulesTyped' /\ RulesTakenBack' /\ AddsToCome'
      <3>1. RulesTyped'
        BY <1>1, <2>1 DEF MarkInv, RulesTyped
      <3> QED BY <1>1, <2>3, <3>1 DEF RulesTakenBack, AddsToCome, Marks
    <2>5. DeletesDone'
      BY <2>2 DEF DeletesDone
    <2> QED BY <2>4, <2>5 DEF MarkInv
  <1>3. CASE TeardownMarking
    <2>1. not_undone' = not_undone
      BY <1>3 DEF TeardownMarking, auxiliary
    <2>2. call'.op = "delete rules" /\ call'.todo = 1 .. LastMark
      <3>1. call' = [op |-> "delete rules", todo |-> 1 .. LastMark, ok |-> TRUE]
        BY <1>3 DEF TeardownMarking
      <3> QED BY <3>1
    <2>3. Marks \subseteq 1 .. LastMark
      BY MarksType, BalancerAssumption DEF Marks
    <2> QED BY <1>1, <2>1, <2>2, <2>3 DEF MarkInv, RulesTyped, RulesTakenBack, AddsToCome,
               DeletesDone
  <1> QED BY <1>2, <1>3

LEMMA MarkStep ==
    ASSUME MarkInv, Cardinality(Ifaces) <= LastMark, [Next]_vars
    PROVE  MarkInv'
  <1>1. CASE Return
    <2>1. call'.op = "idle"
      BY <1>1 DEF Return, Idle
    <2>2. mark_rules' = mark_rules /\ call.todo = {}
      BY <1>1 DEF Return, kernel
    <2>3. not_undone' = IF call.op = "delete rules" /\ call.ok /\ not_undone > 0
                        THEN not_undone - 1 ELSE not_undone
      BY <1>1 DEF Return
    <2>4. RulesTakenBack' /\ not_undone' \in Nat
      <3>1. CASE call.op = "delete rules" /\ call.ok /\ not_undone > 0
        <4>1. not_undone' = not_undone - 1 /\ not_undone > 0
          BY <2>3, <3>1
        <4>2. \A m \in Marks : mark_rules[m] = 0 \/ mark_rules[m] < not_undone
          BY <2>2, <3>1 DEF MarkInv, DeletesDone
        <4>3. ASSUME NEW m \in Marks
              PROVE  mark_rules[m] <= not_undone - 1
          <5>1. mark_rules[m] \in Nat /\ not_undone \in Nat
            BY DEF MarkInv, RulesTyped
          <5> QED BY <4>1, <4>2, <5>1
        <4> QED BY <2>2, <4>1, <4>3 DEF MarkInv, RulesTyped, RulesTakenBack
      <3>2. CASE ~(call.op = "delete rules" /\ call.ok /\ not_undone > 0)
        <4>1. not_undone' = not_undone
          BY <2>3, <3>2
        <4> QED BY <2>2, <4>1 DEF MarkInv, RulesTyped, RulesTakenBack
      <3> QED BY <3>1, <3>2
    <2> QED BY <2>1, <2>2, <2>4 DEF MarkInv, RulesTyped, AddsToCome, DeletesDone
  <1>2. ASSUME UNCHANGED <<mark_rules, not_undone>>,
               call' = call \/ call'.op \notin {"add rules", "delete rules"}
        PROVE  MarkInv'
    BY <1>2 DEF MarkInv, RulesTyped, RulesTakenBack, AddsToCome, DeletesDone
  <1>3. CASE \/ TeardownEcmpAborts \/ Crash
             \/ \E hops \in {Generated, in_force} \ {NoSet} : TeardownEcmp(hops)
    <2>1. UNCHANGED <<mark_rules, not_undone>>
      BY <1>3 DEF TeardownEcmpAborts, Crash, TeardownEcmp, kernel, auxiliary
    <2>2. call'.op \notin {"add rules", "delete rules"}
      <3>1. CASE TeardownEcmpAborts \/ Crash
        <4>1. call' = Idle
          BY <3>1 DEF TeardownEcmpAborts, Crash
        <4> QED BY <4>1 DEF Idle
      <3>2. ASSUME NEW hops, TeardownEcmp(hops)
            PROVE  call'.op = "delete routes"
        BY <3>2 DEF TeardownEcmp
      <3> QED BY <1>3, <3>1, <3>2
    <2> QED BY <1>2, <2>1, <2>2
  <1>4. ASSUME NEW i, DeleteRoute(i) \/ DeleteRouteFails(i)
        PROVE  MarkInv'
    <2>1. UNCHANGED <<mark_rules, not_undone>>
      BY <1>4 DEF DeleteRoute, DeleteRouteFails, kernel, auxiliary
    <2>2. call'.op = "delete routes"
      <3>1. CASE DeleteRoute(i)
        BY <3>1 DEF DeleteRoute, Took
      <3>2. CASE DeleteRouteFails(i)
        BY <3>2 DEF DeleteRouteFails, Failed
      <3> QED BY <1>4, <3>1, <3>2
    <2> QED BY <1>2, <2>1, <2>2
  <1>5. CASE \/ SetupEcmp \/ ApplyDscp \/ RemoveDscp \/ Rescan \/ UNCHANGED vars
             \/ \E S \in SUBSET Ifaces : \E health \in [S -> Scores] : ComputeWeights(health)
    <2>1. UNCHANGED <<mark_rules, not_undone, call>>
      BY <1>5 DEF SetupEcmp, ApplyDscp, RemoveDscp, Rescan, ComputeWeights, vars, kernel,
         auxiliary
    <2> QED BY <1>2, <2>1
  <1> QED BY <1>1, <1>3, <1>4, <1>5, CallsBegin, RuleSteps DEF Next

\* Every undisturbed teardown_balancing takes back one setup, provided the marks it loops
\* over are at least as many as the interfaces: the 16 of the code are a bound on them.
THEOREM RulesCorrect ==
    ASSUME Cardinality(Ifaces) <= LastMark
    PROVE  Spec => []RulesTakenBack
  <1>1. MarkInv => RulesTakenBack
    BY DEF MarkInv
  <1>2. MarkInv /\ [Next]_vars => MarkInv'
    BY MarkStep
  <1> QED BY <1>1, <1>2, MarkInit, PTL DEF Spec

------------------------------------------------------------------------------
(* Shares of the balanced traffic *)

LEMMA Quotient ==
    ASSUME NEW a \in Nat, NEW b \in Nat \ {0}
    PROVE  /\ a \div b \in Nat
           /\ b * (a \div b) <= a /\ a < b * (a \div b) + b
  OBVIOUS
LEMMA QuotientMonotone ==
    ASSUME NEW a \in Nat, NEW c \in Nat, NEW b \in Nat \ {0}, a <= c
    PROVE  a \div b <= c \div b
  OBVIOUS
LEMMA ProductNat ==
    ASSUME NEW a \in Nat, NEW b \in Nat
    PROVE  a * b \in Nat
  OBVIOUS

LEMMA ProductInt ==
    ASSUME NEW a \in Int, NEW b \in Int
    PROVE  a * b \in Int
  OBVIOUS

\* w is the score's part of 255, to within one part.
PartOf(w, score, total) ==
    /\ w \in Nat \ {0}
    /\ 510 * score - 2 * total <= (2 * total) * w
    /\ (2 * total) * w <= 510 * score + 2 * total
    /\ score <= total => w <= 255

LEMMA ShareClose ==
    ASSUME NEW score \in Nat, NEW total \in Nat \ {0}
    PROVE  PartOf(Share(score, total), score, total)
  <1> DEFINE a == 2 * 255 * score + total
             b == 2 * total
             parts == a \div b
  <1>1. a \in Nat /\ b \in Nat \ {0} /\ a = 510 * score + total
    OBVIOUS
  <1>2. parts \in Nat /\ b * parts <= a /\ a < b * parts + b
    <2> HIDE DEF a, b
    <2> QED BY <1>1, Quotient
  <1>3. Share(score, total) = IF parts < 1 THEN 1 ELSE parts
    BY DEF Share
  <1> HIDE DEF parts
  <1>4. b * parts \in Int
    BY <1>1, <1>2, ProductInt
  <1>5. CASE parts < 1
    <2>1. parts = 0 /\ Share(score, total) = 1
      BY <1>2, <1>3, <1>5
    <2>2. a < b
      BY <1>1, <1>2, <2>1
    <2>3. /\ 510 * score - 2 * total <= (2 * total) * 1
          /\ (2 * total) * 1 <= 510 * score + 2 * total
      BY <1>1, <2>2
    <2> QED BY <2>1, <2>3 DEF PartOf
  <1>6. CASE parts >= 1
    <2>1. Share(score, total) = parts
      BY <1>2, <1>3, <1>6
    <2>2. ASSUME score <= total, parts >= 256
          PROVE  FALSE
      <3>1. b * 256 <= b * parts
        BY <1>1, <1>2, <2>2
      <3>2. b * 256 <= 511 * total
        BY <1>1, <1>2, <1>4, <2>2, <3>1
      <3> QED BY <3>2
    <2>3. score <= total => parts <= 255
      BY <1>2, <2>2
    <2>4. 510 * score - 2 * total <= b * parts /\ b * parts <= 510 * score + 2 * total
      BY <1>1, <1>2, <1>4
    <2>5. parts \in Nat \ {0}
      BY <1>2, <1>6
    <2> QED BY <2>1, <2>3, <2>4, <2>5 DEF PartOf
  <1> QED BY <1>2, <1>5, <1>6

LEMMA ShareMonotone ==
    ASSUME NEW score \in Nat, NEW other \in Nat, NEW total \in Nat \ {0}, other <= score
    PROVE  Share(other, total) <= Share(score, total)
  <1> DEFINE a == 2 * 255 * score + total
             c == 2 * 255 * other + total
             b == 2 * total
  <1>1. a \in Nat /\ c \in Nat /\ c <= a /\ b \in Nat \ {0}
    OBVIOUS
  <1> HIDE DEF a, b, c
  <1>2. c \div b \in Nat /\ a \div b \in Nat /\ c \div b <= a \div b
    BY <1>1, Quotient, QuotientMonotone
  <1>3. /\ Share(score, total) = IF a \div b < 1 THEN 1 ELSE a \div b
        /\ Share(other, total) = IF c \div b < 1 THEN 1 ELSE c \div b
    BY DEF Share, a, b, c
  <1> QED BY <1>2, <1>3

LEMMA CancelFactor ==
    ASSUME NEW c \in Nat \ {0}, NEW a \in Int, NEW b \in Int, c * a <= c * b
    PROVE  a <= b
  <1>1. SUFFICES ASSUME b + 1 <= a PROVE FALSE
    OBVIOUS
  <1>2. c * (b + 1) <= c * a
    BY <1>1
  <1> QED BY <1>2

\* The sum of the scores of the interfaces that are viable, and what each gets of it.
LEMMA WeightsSet ==
    ASSUME NEW S \in SUBSET Ifaces, NEW health \in [S -> Scores], ComputeWeights(health)
    PROVE  LET V == Viable(health)
               total == SumFunctionOnSet(health, V)
           IN /\ V \subseteq S /\ IsFiniteSet(V)
              /\ \A i \in V : health[i] \in Nat /\ health[i] <= total
              /\ total \in Nat
              /\ \/ weights' = NoWeights
                 \/ /\ total # 0
                    /\ weights' = [i \in V |-> Share(health[i], total)]
  <1> DEFINE V == Viable(health)
             total == SumFunctionOnSet(health, V)
  <1>1. V \subseteq S /\ IsFiniteSet(V)
    BY FS_Subset, BalancerAssumption DEF Viable
  <1>2. \A i \in V : health[i] \in Nat
    BY <1>1, BalancerAssumption
  <1>3. total \in Nat /\ \A i \in V : health[i] <= total
    <2> HIDE DEF V
    <2> QED BY <1>1, <1>2, SumType
  <1>4. \/ weights' = NoWeights
        \/ total # 0 /\ weights' = [i \in V |-> Share(health[i], total)]
    BY DEF ComputeWeights
  <1> HIDE DEF V, total
  <1>5. \A i \in V : health[i] \in Nat /\ health[i] <= total
    BY <1>2, <1>3
  <1> QED BY <1>1, <1>3, <1>4, <1>5 DEF V, total

LEMMA FairStep ==
    ASSUME NEW S \in SUBSET Ifaces, NEW health \in [S -> Scores],
           ComputeWeights(health), weights' # NoWeights
    PROVE  /\ \A i \in DOMAIN weights' : weights'[i] > 0
           /\ \A i \in DOMAIN weights', j \in DOMAIN weights' :
                  health[i] >= health[j] => weights'[i] >= weights'[j]
           /\ SumFunction(weights') - 255 \in -Cardinality(S) .. Cardinality(S)
  <1> DEFINE V == Viable(health)
             total == SumFunctionOnSet(health, V)
             sum == SumFunctionOnSet(weights', V)
             c == 2 * total
  <1>1. /\ V \subseteq S /\ IsFiniteSet(V)
        /\ \A i \in V : health[i] \in Nat
        /\ total \in Nat \ {0}
        /\ weights' = [i \in V |-> Share(health[i], total)]
    BY WeightsSet
  <1> HIDE DEF V, total
  <1>2. \A i \in V : /\ weights'[i] \in Nat \ {0}
                     /\ 510 * health[i] - c <= c * weights'[i]
                     /\ c * weights'[i] <= 510 * health[i] + c
    <2> SUFFICES ASSUME NEW i \in V
                 PROVE  /\ weights'[i] \in Nat \ {0}
                        /\ 510 * health[i] - c <= c * weights'[i]
                        /\ c * weights'[i] <= 510 * health[i] + c
      OBVIOUS
    <2>1. weights'[i] = Share(health[i], total) /\ health[i] \in Nat
      BY <1>1
    <2>2. PartOf(weights'[i], health[i], total)
      BY <1>1, <2>1, ShareClose, Zenon
    <2> QED BY <2>2 DEF PartOf
  <1>3. \A i, j \in V : health[i] >= health[j] => weights'[i] >= weights'[j]
    <2> SUFFICES ASSUME NEW i \in V, NEW j \in V, health[i] >= health[j]
                 PROVE  weights'[i] >= weights'[j]
      OBVIOUS
    <2>1. Share(health[j], total) <= Share(health[i], total)
      BY <1>1, ShareMonotone
    <2> QED BY <1>1, <1>2, <2>1
  <1>4. c \in Nat \ {0} /\ 510 \in Int
    BY <1>1
  <1>5. /\ sum \in Int
        /\ 510 * total - c * Cardinality(V) <= c * sum
        /\ c * sum <= 510 * total + c * Cardinality(V)
    <2> HIDE DEF c
    <2>1. PICK a \in Int : a = 510
      OBVIOUS
    <2>2. \A i \in V : /\ health[i] \in Int /\ weights'[i] \in Int
                       /\ a * health[i] - c <= c * weights'[i]
                       /\ c * weights'[i] <= a * health[i] + c
      BY <1>1, <1>2, <2>1
    <2>3. c \in Int
      BY <1>4
    <2>4. /\ SumFunctionOnSet(health, V) \in Int /\ SumFunctionOnSet(weights', V) \in Int
          /\ a * SumFunctionOnSet(health, V) - c * Cardinality(V) <= c * SumFunctionOnSet(weights', V)
          /\ c * SumFunctionOnSet(weights', V) <= a * SumFunctionOnSet(health, V) + c * Cardinality(V)
      BY <1>1, <2>2, <2>3, SumClose, Zenon
    <2> QED BY <2>1, <2>4 DEF total
  <1>6. Cardinality(V) \in Nat /\ Cardinality(S) \in Nat /\ Cardinality(V) <= Cardinality(S)
    <2>1. IsFiniteSet(S)
      BY FS_Subset, BalancerAssumption
    <2> QED BY <1>1, <2>1, FS_Subset, FS_CardinalityType
  <1>7. 510 * total = c * 255
    BY <1>1
  <1> HIDE DEF sum, c
  <1>8. c * (255 - Cardinality(V)) <= c * sum /\ c * sum <= c * (255 + Cardinality(V))
    BY <1>4, <1>5, <1>6, <1>7
  <1>9. 255 - Cardinality(V) <= sum /\ sum <= 255 + Cardinality(V)
    BY <1>4, <1>5, <1>6, <1>8, CancelFactor
  <1>10. DOMAIN weights' = V /\ SumFunction(weights') = sum
    BY <1>1 DEF sum, SumFunction
  <1> QED BY <1>2, <1>3, <1>5, <1>6, <1>9, <1>10

\* compute_weights gives every viable interface a share, a healthier one never less, and
\* all of them the 255 parts, up to one part each: for any number of interfaces and scores.
THEOREM SharesCorrect == Spec => SharesFair
  <1>1. \A S \in SUBSET Ifaces : \A health \in [S -> Scores] :
            ComputeWeights(health) /\ weights' # NoWeights =>
                /\ \A i \in DOMAIN weights' : weights'[i] > 0
                /\ \A i \in DOMAIN weights', j \in DOMAIN weights' :
                       health[i] >= health[j] => weights'[i] >= weights'[j]
                /\ SumFunction(weights') - 255
                       \in -Cardinality(S) .. Cardinality(S)
    BY FairStep
  <1> QED BY <1>1, PTL DEF SharesFair

------------------------------------------------------------------------------
(* Types *)

\* Every route leaves by interfaces of the host, so that the scanner finds gateways of
\* such interfaces only.
TypeInv ==
    /\ TypeOK
    /\ \A m \in DOMAIN routes : DOMAIN routes[m].hops \subseteq Ifaces

LEMMA TypeInit == Init => TypeInv
  BY BalancerAssumption DEF Init, TypeInv, TypeOK, NoWeights, Idle

\* The weights of ComputeWeights are bytes.
LEMMA WeightTypes ==
    ASSUME TypeInv, NEW S \in SUBSET Ifaces, NEW health \in [S -> Scores],
           ComputeWeights(health)
    PROVE  TypeInv'
  <1> DEFINE V == Viable(health)
             total == SumFunctionOnSet(health, V)
  <1>1. /\ V \subseteq Ifaces
        /\ \A i \in V : health[i] \in Nat /\ health[i] <= total
        /\ total \in Nat
        /\ \/ weights' = NoWeights
           \/ total # 0 /\ weights' = [i \in V |-> Share(health[i], total)]
    BY WeightsSet
  <1> HIDE DEF V, total
  <1>2. DOMAIN weights' \subseteq Ifaces /\ \A i \in DOMAIN weights' : weights'[i] \in 1 .. 255
    <2>1. CASE weights' = NoWeights
      BY <2>1 DEF NoWeights
    <2>2. CASE total # 0 /\ weights' = [i \in V |-> Share(health[i], total)]
      <3>1. \A i \in V : /\ Share(health[i], total) \in Nat \ {0}
                         /\ Share(health[i], total) <= 255
        <4> SUFFICES ASSUME NEW i \in V
                     PROVE  /\ Share(health[i], total) \in Nat \ {0}
                            /\ Share(health[i], total) <= 255
          OBVIOUS
        <4>1. PICK score \in Nat : score = health[i] /\ score <= total
          BY <1>1
        <4>2. total \in Nat \ {0}
          BY <1>1, <2>2
        <4>3. PartOf(Share(score, total), score, total)
          BY <4>2, ShareClose, Zenon
        <4> QED BY <4>1, <4>3 DEF PartOf
      <3> QED BY <1>1, <2>2, <3>1
    <2> QED BY <1>1, <2>1, <2>2
  <1> QED BY <1>2 DEF ComputeWeights, kernel, auxiliary, TypeInv, TypeOK

LEMMA EcmpTypes ==
    ASSUME TypeInv, SetupEcmp
    PROVE  TypeInv'
  <1>1. PICK first \in DOMAIN Generated :
            routes' = [m \in DOMAIN routes \cup {WrittenAt(Generated)} |->
                          IF m = WrittenAt(Generated)
                          THEN Route(Written(Generated), first) ELSE routes[m]]
    BY DEF SetupEcmp
  <1>2. /\ DOMAIN Written(Generated) = DOMAIN Generated
        /\ DOMAIN Generated \subseteq Ifaces
    BY DEF Written, Generated, Restrict, TypeInv, TypeOK
  <1>3. WrittenAt(Generated) \in Nat
    BY DEF WrittenAt, Metric
  <1>4. /\ DOMAIN routes' \subseteq Nat
        /\ \A m \in DOMAIN routes' : /\ routes'[m].first \in DOMAIN routes'[m].hops
                                     /\ DOMAIN routes'[m].hops \subseteq Ifaces
    <2>1. /\ Route(Written(Generated), first).first = first
          /\ Route(Written(Generated), first).hops = Written(Generated)
      BY DEF Route
    <2> QED BY <1>1, <1>2, <1>3, <2>1 DEF TypeInv, TypeOK
  <1> QED BY <1>4 DEF SetupEcmp, balancer, TypeInv, TypeOK

\* The commands of a call, its end and its beginnings.
LEMMA CallTypes ==
    ASSUME TypeInv,
           \/ Return \/ TeardownEcmpAborts \/ SetupMarking \/ TeardownMarking
           \/ \E hops : TeardownEcmp(hops)
           \/ \E i : DeleteRoute(i) \/ DeleteRouteFails(i)
           \/ \E m : AddRule(m) \/ DeleteRule(m) \/ DeleteRuleFails(m)
    PROVE  TypeInv'
  <1>1. UNCHANGED <<mode, min_health, weights, gateways>>
    BY DEF Return, TeardownEcmpAborts, SetupMarking, TeardownMarking, TeardownEcmp,
       DeleteRoute, DeleteRouteFails, AddRule, DeleteRule, DeleteRuleFails, balancer
  <1>2. /\ call'.op \in {"idle", "add rules", "delete rules", "delete routes"}
        /\ call'.op = "idle" => call' = Idle
    <2>1. CASE Return \/ TeardownEcmpAborts
      <3>1. call' = Idle
        BY <2>1 DEF Return, TeardownEcmpAborts
      <3> QED BY <3>1 DEF Idle
    <2>2. CASE SetupMarking
      <3>1. call'.op = "add rules"
        <4>1. PICK marks : call' = [op |-> "add rules", todo |-> marks, ok |-> TRUE]
          BY <2>2 DEF SetupMarking
        <4> QED BY <4>1
      <3> QED BY <3>1
    <2>3. CASE TeardownMarking
      BY <2>3 DEF TeardownMarking
    <2>4. ASSUME NEW hops, TeardownEcmp(hops)
          PROVE  call'.op = "delete routes"
      BY <2>4 DEF TeardownEcmp
    <2>5. ASSUME NEW x, \/ DeleteRoute(x) \/ DeleteRouteFails(x)
                        \/ AddRule(x) \/ DeleteRule(x) \/ DeleteRuleFails(x)
          PROVE  /\ call'.op = call.op
                 /\ call.op \in {"add rules", "delete rules", "delete routes"}
      <3>1. call' = Took(x) \/ call' = Failed(x)
        BY <2>5 DEF DeleteRoute, DeleteRouteFails, AddRule, DeleteRule, DeleteRuleFails
      <3>2. call.op \in {"add rules", "delete rules", "delete routes"}
        BY <2>5 DEF DeleteRoute, DeleteRouteFails, AddRule, DeleteRule, DeleteRuleFails
      <3>3. Took(x).op = call.op /\ Failed(x).op = call.op
        BY DEF Took, Failed
      <3> QED BY <3>1, <3>2, <3>3
    <2> QED BY <2>1, <2>2, <2>3, <2>4, <2>5
  <1>3. /\ DOMAIN routes' \subseteq DOMAIN routes
        /\ \A m \in DOMAIN routes' : routes'[m] = routes[m]
    BY DEF Return, TeardownEcmpAborts, SetupMarking, TeardownMarking, TeardownEcmp,
       DeleteRoute, DeleteRouteFails, AddRule, DeleteRule, DeleteRuleFails, kernel, Restrict
  <1>4. table' \in {table, {}, table \cup {"prerouting", "output"}}
    BY DEF Return, TeardownEcmpAborts, SetupMarking, TeardownMarking, TeardownEcmp,
       DeleteRoute, DeleteRouteFails, AddRule, DeleteRule, DeleteRuleFails, kernel
  <1>5. mark_rules' \in [Marks -> Nat]
    <2>0. mark_rules \in [Marks -> Nat]
      BY DEF TypeInv, TypeOK
    <2>1. \/ mark_rules' = mark_rules
          \/ \E m : mark_rules' = [mark_rules EXCEPT ![m] = @ + 1]
          \/ \E m \in Marks : /\ mark_rules[m] > 0
                              /\ mark_rules' = [mark_rules EXCEPT ![m] = @ - 1]
      BY DEF Return, TeardownEcmpAborts, SetupMarking, TeardownMarking, TeardownEcmp,
         DeleteRoute, DeleteRouteFails, AddRule, DeleteRule, DeleteRuleFails, kernel
    <2>2. ASSUME NEW m, mark_rules' = [mark_rules EXCEPT ![m] = @ + 1]
          PROVE  mark_rules' \in [Marks -> Nat]
      <3>1. CASE m \in Marks
        <4>1. mark_rules[m] + 1 \in Nat
          BY <2>0, <3>1
        <4> QED BY <2>0, <2>2, <4>1
      <3>2. CASE m \notin Marks
        BY <2>0, <2>2, <3>2
      <3> QED BY <3>1, <3>2
    <2>3. ASSUME NEW m \in Marks, mark_rules[m] > 0,
                 mark_rules' = [mark_rules EXCEPT ![m] = @ - 1]
          PROVE  mark_rules' \in [Marks -> Nat]
      <3>1. mark_rules[m] - 1 \in Nat
        BY <2>0, <2>3
      <3> QED BY <2>0, <2>3, <3>1
    <2> QED BY <2>0, <2>1, <2>2, <2>3
  <1>6. not_undone' \in 0 .. MaxSetups
    <2>0. not_undone \in 0 .. MaxSetups /\ MaxSetups \in Nat
      BY BalancerAssumption DEF TypeInv, TypeOK
    <2>1. \/ not_undone' = not_undone
          \/ not_undone > 0 /\ not_undone' = not_undone - 1
          \/ not_undone < MaxSetups /\ not_undone' = not_undone + 1
      BY DEF Return, TeardownEcmpAborts, SetupMarking, TeardownMarking, TeardownEcmp,
         DeleteRoute, DeleteRouteFails, AddRule, DeleteRule, DeleteRuleFails, auxiliary
    <2> QED BY <2>0, <2>1
  <1>7. /\ DOMAIN routes' \subseteq Nat
        /\ \A m \in DOMAIN routes' : /\ routes'[m].first \in DOMAIN routes'[m].hops
                                     /\ DOMAIN routes'[m].hops \subseteq Ifaces
    BY <1>3 DEF TypeInv, TypeOK
  <1>8. table' \subseteq {"prerouting", "output", "dscp_tagger"}
    BY <1>4 DEF TypeInv, TypeOK
  <1> QED BY <1>1, <1>2, <1>5, <1>6, <1>7, <1>8 DEF TypeInv, TypeOK

LEMMA TypeStep ==
    ASSUME TypeInv, [Next]_vars
    PROVE  TypeInv'
  <1>1. CASE ApplyDscp \/ RemoveDscp \/ UNCHANGED vars
    <2>1. /\ UNCHANGED <<mode, min_health, weights, gateways, routes, mark_rules, call,
                         in_force, not_undone>>
          /\ \/ table' = table \/ table' = {}
             \/ table' = table \cup {"dscp_tagger"}
      BY <1>1 DEF ApplyDscp, RemoveDscp, vars, balancer, kernel, auxiliary
    <2> QED BY <2>1 DEF TypeInv, TypeOK
  <1>2. CASE Rescan
    <2>1. gateways' \subseteq Ifaces
      BY <1>2 DEF Rescan, TypeInv
    <2> QED BY <1>2, <2>1 DEF Rescan, balancer, kernel, auxiliary, TypeInv, TypeOK
  <1>3. CASE Crash
    BY <1>3 DEF Crash, NoWeights, Idle, kernel, auxiliary, TypeInv, TypeOK
  <1> QED BY <1>1, <1>2, <1>3, WeightTypes, EcmpTypes, CallTypes DEF Next

\* Weights fit the byte they are written in, routes and gateways are of the host's
\* interfaces, and a call that has nothing left to say is idle.
THEOREM TypeCorrect == Spec => []TypeOK
  <1>1. TypeInv => TypeOK
    BY DEF TypeInv
  <1> QED BY <1>1, TypeInit, TypeStep, PTL DEF Spec

------------------------------------------------------------------------------
(* The regression *)

\* On S, h is a linear combination of f, g, k and 1.
Combines(h, S, a, f, b, g, c, k, e) ==
    \A i \in S : /\ f[i] \in Int /\ g[i] \in Int /\ k[i] \in Int
                 /\ h[i] = a * f[i] + b * g[i] + c * k[i] + e

\* A sum is linear in the function that is added up.
LEMMA SumLinear ==
    ASSUME NEW S, IsFiniteSet(S), NEW f, NEW g, NEW k, NEW h,
           NEW a \in Int, NEW b \in Int, NEW c \in Int, NEW e \in Int,
           Combines(h, S, a, f, b, g, c, k, e)
    PROVE  /\ SumFunctionOnSet(f, S) \in Int
           /\ SumFunctionOnSet(g, S) \in Int
           /\ SumFunctionOnSet(k, S) \in Int
           /\ SumFunctionOnSet(h, S) = a * SumFunctionOnSet(f, S) + b * SumFunctionOnSet(g, S)
                                           + c * SumFunctionOnSet(k, S) + e * Cardinality(S)
  <1>1. PICK F : Summed(F, f, S)
    BY SumUnfolds
  <1>2. PICK G : Summed(G, g, S)
    BY SumUnfolds
  <1>3. PICK K : Summed(K, k, S)
    BY SumUnfolds
  <1>4. PICK H : Summed(H, h, S)
    BY SumUnfolds
  <1> DEFINE Good(T) == /\ F[T] \in Int /\ G[T] \in Int /\ K[T] \in Int
                        /\ H[T] = a * F[T] + b * G[T] + c * K[T] + e * Cardinality(T)
             All == {T \in SUBSET S : Good(T)}
  <1>5. {} \in All
    <2>1. Cardinality({}) = 0
      BY FS_EmptySet
    <2>2. F[{}] = 0 /\ G[{}] = 0 /\ K[{}] = 0 /\ H[{}] = 0
      BY <1>1, <1>2, <1>3, <1>4 DEF Summed
    <2>3. 0 = a * 0 + b * 0 + c * 0 + e * 0
      OBVIOUS
    <2>4. H[{}] = a * F[{}] + b * G[{}] + c * K[{}] + e * Cardinality({})
      BY <2>1, <2>2, <2>3, Zenon
    <2>5. Good({})
      BY <2>2, <2>4
    <2> HIDE DEF Good
    <2> QED BY <2>5
  <1>6. ASSUME NEW T \in SUBSET S, T # {}, T \ {AnyOf(T)} \in All
        PROVE  T \in All
    <2> DEFINE i == AnyOf(T)
               U == T \ {i}
               n == Cardinality(U)
    <2>1. i \in S /\ Cardinality(T) = n + 1 /\ n \in Int
      <3>1. /\ AnyOf(T) \in T /\ Cardinality(T) = Cardinality(T \ {AnyOf(T)}) + 1
            /\ Cardinality(T \ {AnyOf(T)}) \in Nat
        BY <1>6, AnyOfIs
      <3> QED BY <1>6, <3>1
    <2>2. F[T] = f[i] + F[U] /\ G[T] = g[i] + G[U]
      <3>1. F[T] = f[AnyOf(T)] + F[T \ {AnyOf(T)}]
        BY <1>1, <1>6 DEF Summed
      <3>2. G[T] = g[AnyOf(T)] + G[T \ {AnyOf(T)}]
        BY <1>2, <1>6 DEF Summed
      <3> QED BY <3>1, <3>2
    <2>3. K[T] = k[i] + K[U] /\ H[T] = h[i] + H[U]
      <3>1. K[T] = k[AnyOf(T)] + K[T \ {AnyOf(T)}]
        BY <1>3, <1>6 DEF Summed
      <3>2. H[T] = h[AnyOf(T)] + H[T \ {AnyOf(T)}]
        BY <1>4, <1>6 DEF Summed
      <3> QED BY <3>1, <3>2
    <2>4. Good(U)
      BY <1>6
    <2>5. /\ f[i] \in Int /\ g[i] \in Int /\ k[i] \in Int
          /\ h[i] = a * f[i] + b * g[i] + c * k[i] + e
      BY <2>1 DEF Combines
    <2> HIDE DEF i, U, n
    <2>6. /\ a * F[T] = a * f[i] + a * F[U] /\ a * f[i] \in Int /\ a * F[U] \in Int
          /\ b * G[T] = b * g[i] + b * G[U] /\ b * g[i] \in Int /\ b * G[U] \in Int
          /\ c * K[T] = c * k[i] + c * K[U] /\ c * k[i] \in Int /\ c * K[U] \in Int
      BY <2>2, <2>3, <2>4, <2>5, Distribute
    <2>7. e * Cardinality(T) = e * n + e /\ e * n \in Int
      BY <2>1, Distribute
    <2>8. F[T] \in Int /\ G[T] \in Int /\ K[T] \in Int
      BY <2>2, <2>3, <2>4, <2>5
    <2>9. H[T] = a * F[T] + b * G[T] + c * K[T] + e * Cardinality(T)
      <3>1. H[U] = a * F[U] + b * G[U] + c * K[U] + e * n
        BY <2>4 DEF n
      <3> DEFINE a1 == a * f[i]
                 a2 == a * F[U]
                 b1 == b * g[i]
                 b2 == b * G[U]
                 c1 == c * k[i]
                 c2 == c * K[U]
                 e2 == e * n
      <3>2. /\ a1 \in Int /\ a2 \in Int /\ b1 \in Int /\ b2 \in Int /\ c1 \in Int
            /\ c2 \in Int /\ e2 \in Int
        BY <2>6, <2>7
      <3>3. H[T] = (a1 + b1 + c1 + e) + (a2 + b2 + c2 + e2)
        BY <2>3, <2>5, <3>1
      <3>4. a * F[T] = a1 + a2 /\ b * G[T] = b1 + b2 /\ c * K[T] = c1 + c2
        BY <2>6
      <3>5. e * Cardinality(T) = e2 + e
        BY <2>7
      <3> HIDE DEF a1, a2, b1, b2, c1, c2, e2
      <3> QED BY <3>2, <3>3, <3>4, <3>5
    <2> QED BY <2>8, <2>9
  <1> HIDE DEF All
  <1>7. S \in All
    BY <1>5, <1>6, SubsetInduction
  <1>8. Good(S)
    BY <1>7 DEF All
  <1> QED BY <1>1, <1>2, <1>3, <1>4, <1>8 DEF Summed

LEMMA SumInt ==
    ASSUME NEW S, IsFiniteSet(S), NEW f, \A i \in S : f[i] \in Int
    PROVE  SumFunctionOnSet(f, S) \in Int
  <1>1. PICK sum : Summed(sum, f, S)
    BY SumUnfolds
  <1> DEFINE All == {T \in SUBSET S : sum[T] \in Int}
  <1>2. {} \in All
    BY <1>1 DEF Summed
  <1>3. ASSUME NEW T \in SUBSET S, T # {}, T \ {AnyOf(T)} \in All
        PROVE  T \in All
    <2>1. sum[T] = f[AnyOf(T)] + sum[T \ {AnyOf(T)}]
      BY <1>1, <1>3 DEF Summed
    <2>2. f[AnyOf(T)] \in Int
      BY <1>3, AnyOfIs
    <2> QED BY <1>3, <2>1, <2>2
  <1> HIDE DEF All
  <1>4. S \in All
    BY <1>2, <1>3, SubsetInduction
  <1> QED BY <1>1, <1>4 DEF All, Summed

\* The functions of a regression: times, and the products of times and values.
Times(p) == [i \in DOMAIN p |-> i - 1]
Weighted(p) == [i \in DOMAIN p |-> (i - 1) * p[i]]
TimesSquared(p) == [i \in DOMAIN p |-> (i - 1) * (i - 1)]
Squared(p) == [i \in DOMAIN p |-> p[i] * p[i]]

LEMMA PointTypes ==
    ASSUME NEW p \in Seq(Int)
    PROVE  /\ DOMAIN p = 1 .. Len(p) /\ Len(p) \in Nat
           /\ IsFiniteSet(DOMAIN p) /\ Cardinality(DOMAIN p) = Len(p)
           /\ \A i \in DOMAIN p : /\ p[i] \in Int
                                  /\ Times(p)[i] = i - 1 /\ Times(p)[i] \in Int
                                  /\ Weighted(p)[i] = (i - 1) * p[i] /\ Weighted(p)[i] \in Int
                                  /\ TimesSquared(p)[i] = (i - 1) * (i - 1)
                                  /\ TimesSquared(p)[i] \in Int
                                  /\ Squared(p)[i] = p[i] * p[i] /\ Squared(p)[i] \in Int
  <1>1. DOMAIN p = 1 .. Len(p) /\ Len(p) \in Nat /\ \A i \in DOMAIN p : p[i] \in Int
    OBVIOUS
  <1>2. IsFiniteSet(DOMAIN p) /\ Cardinality(DOMAIN p) = Len(p)
    <2>1. PICK n \in Int, one \in Int : n = Len(p) /\ one = 1 /\ n >= 0
      <3>1. Len(p) \in Int /\ Len(p) >= 0 /\ 1 \in Int
        BY <1>1
      <3> QED BY <3>1, Zenon
    <2>2. /\ IsFiniteSet(one .. n)
          /\ Cardinality(one .. n) = IF one > n THEN 0 ELSE n - one + 1
      BY FS_Interval, Zenon
    <2>3. (IF one > n THEN 0 ELSE n - one + 1) = n
      BY <2>1
    <2>4. DOMAIN p = one .. n
      BY <1>1, <2>1, Zenon
    <2> QED BY <2>1, <2>2, <2>3, <2>4, Zenon
  <1>3. ASSUME NEW i \in DOMAIN p
        PROVE  i \in Int /\ p[i] \in Int /\ i - 1 \in Int /\ (i - 1) * p[i] \in Int
               /\ (i - 1) * (i - 1) \in Int /\ p[i] * p[i] \in Int
    BY <1>1, ProductInt
  <1> QED BY <1>1, <1>2, <1>3 DEF Times, Weighted, TimesSquared, Squared

LEMMA SumTypes ==
    ASSUME NEW p \in Seq(Int)
    PROVE  /\ SumX(p) = SumFunctionOnSet(Times(p), DOMAIN p) /\ SumX(p) \in Int
           /\ SumY(p) = SumFunctionOnSet(p, DOMAIN p) /\ SumY(p) \in Int
           /\ SumXY(p) = SumFunctionOnSet(Weighted(p), DOMAIN p) /\ SumXY(p) \in Int
           /\ SumX2(p) = SumFunctionOnSet(TimesSquared(p), DOMAIN p) /\ SumX2(p) \in Int
           /\ SumY2(p) = SumFunctionOnSet(Squared(p), DOMAIN p) /\ SumY2(p) \in Int
           /\ Denominator(p) \in Int /\ Rise(p) \in Int /\ Spread(p) \in Int
           /\ Explained(p) \in Int /\ Total(p) \in Int
  <1>1. /\ SumX(p) = SumFunctionOnSet(Times(p), DOMAIN p)
        /\ SumY(p) = SumFunctionOnSet(p, DOMAIN p)
        /\ SumXY(p) = SumFunctionOnSet(Weighted(p), DOMAIN p)
        /\ SumX2(p) = SumFunctionOnSet(TimesSquared(p), DOMAIN p)
        /\ SumY2(p) = SumFunctionOnSet(Squared(p), DOMAIN p)
    BY DEF SumX, SumY, SumXY, SumX2, SumY2, Times, Weighted, TimesSquared, Squared,
       SumFunction
  <1>2. ASSUME NEW f, \A i \in DOMAIN p : f[i] \in Int
        PROVE  SumFunctionOnSet(f, DOMAIN p) \in Int
    <2>1. IsFiniteSet(DOMAIN p)
      BY PointTypes
    <2> QED BY <1>2, <2>1, SumInt
  <1>3. /\ SumX(p) \in Int /\ SumY(p) \in Int /\ SumXY(p) \in Int
        /\ SumX2(p) \in Int /\ SumY2(p) \in Int
    BY <1>1, <1>2, PointTypes
  <1>4. /\ Len(p) * SumX2(p) \in Int /\ SumX(p) * SumX(p) \in Int
        /\ Len(p) * SumXY(p) \in Int /\ SumX(p) * SumY(p) \in Int
        /\ Len(p) * SumY2(p) \in Int /\ SumY(p) * SumY(p) \in Int
    BY <1>3, PointTypes, ProductInt
  <1>5. Denominator(p) \in Int /\ Rise(p) \in Int /\ Spread(p) \in Int
    BY <1>4 DEF Denominator, Rise, Spread
  <1>6. Explained(p) \in Int /\ Total(p) \in Int
    BY <1>5, ProductInt DEF Explained, Total
  <1> QED BY <1>1, <1>3, <1>5, <1>6

\* The algebra of the residuals e = a * v + b * t + c, of value v at time t.
LEMMA ResidualForm ==
    ASSUME NEW n \in Int, NEW d \in Int, NEW r \in Int, NEW x \in Int, NEW y \in Int,
           NEW v \in Int, NEW t \in Int
    PROVE  d * n * v - n * r * t - (d * y - r * x)
               = (d * n) * v + (-(n * r)) * t + (-(d * y - r * x))
  OBVIOUS

LEMMA ResidualTimes ==
    ASSUME NEW a \in Int, NEW b \in Int, NEW c \in Int, NEW v \in Int, NEW t \in Int,
           NEW u \in Int
    PROVE  u * (a * v + b * t + c) = a * (u * v) + b * (u * t) + c * u
  OBVIOUS

LEMMA ProductSwap ==
    ASSUME NEW u \in Int, NEW v \in Int
    PROVE  u * v = v * u
  OBVIOUS

LEMMA FirstIdentity ==
    ASSUME NEW n \in Int, NEW d \in Int, NEW r \in Int, NEW x \in Int, NEW y \in Int
    PROVE  (d * n) * y + (-(n * r)) * x + (-(d * y - r * x)) * n = 0
  OBVIOUS
LEMMA SecondIdentity ==
    ASSUME NEW n \in Int, NEW x \in Int, NEW y \in Int, NEW xy \in Int, NEW xx \in Int,
           NEW d \in Int, NEW r \in Int, d = n * xx - x * x, r = n * xy - x * y
    PROVE  (d * n) * xy + (-(n * r)) * xx + (-(d * y - r * x)) * x = 0
  <1>1. (d * n) * xy + (-(n * r)) * xx + (-(d * y - r * x)) * x
            = d * (n * xy - x * y) - r * (n * xx - x * x)
    OBVIOUS
  <1> QED BY <1>1
LEMMA ThirdIdentity ==
    ASSUME NEW n \in Int, NEW x \in Int, NEW y \in Int, NEW xy \in Int, NEW yy \in Int,
           NEW d \in Int, NEW r \in Int, r = n * xy - x * y
    PROVE  (d * n) * ((d * n) * yy + (-(n * r)) * xy + (-(d * y - r * x)) * y)
               = n * d * (d * (n * yy - y * y) - r * r)
  <1>1. (d * n) * yy + (-(n * r)) * xy + (-(d * y - r * x)) * y
            = d * (n * yy - y * y) - r * (n * xy - x * y)
    OBVIOUS
  <1> QED BY <1>1

\* Of any readings, whatever their number: the normal equations, and the sum of squares.
THEOREM LeastSquaresHolds ==
    ASSUME NEW p \in Seq(Int)
    PROVE  LeastSquares(p)
  <1>1. PICK zero \in Int : zero = 0
    OBVIOUS
  <1>2. PICK n \in Int, d \in Int, r \in Int, x \in Int, y \in Int :
            n = Len(p) /\ d = Denominator(p) /\ r = Rise(p) /\ x = SumX(p) /\ y = SumY(p)
    <2>1. /\ Len(p) \in Int /\ Denominator(p) \in Int /\ Rise(p) \in Int
          /\ SumX(p) \in Int /\ SumY(p) \in Int
      BY SumTypes, PointTypes
    <2> QED BY <2>1, Zenon
  <1>3. PICK xy \in Int, xx \in Int, yy \in Int :
            xy = SumXY(p) /\ xx = SumX2(p) /\ yy = SumY2(p)
    BY SumTypes
  <1>normal. d = n * xx - x * x /\ r = n * xy - x * y
    BY <1>2, <1>3 DEF Denominator, Rise
  <1>factors. PICK a \in Int, b \in Int, c \in Int :
            a = d * n /\ b = -(n * r) /\ c = -(d * y - r * x)
    <2>1. d * n \in Int /\ -(n * r) \in Int /\ -(d * y - r * x) \in Int
      OBVIOUS
    <2> QED BY <2>1
  <1> DEFINE D == DOMAIN p
             residual == [i \in D |-> d * n * p[i] - n * r * (i - 1) - (d * y - r * x)]
             by_time == [i \in D |-> (i - 1) * residual[i]]
             by_value == [i \in D |-> p[i] * residual[i]]
             squares == [i \in D |-> residual[i] * residual[i]]
  <1>4. IsFiniteSet(D) /\ Cardinality(D) = n
    BY <1>2, PointTypes
  <1>5. /\ x = SumFunctionOnSet(Times(p), D) /\ y = SumFunctionOnSet(p, D)
        /\ xy = SumFunctionOnSet(Weighted(p), D)
        /\ xx = SumFunctionOnSet(TimesSquared(p), D)
        /\ yy = SumFunctionOnSet(Squared(p), D)
    BY <1>2, <1>3, SumTypes
  <1>6. \A i \in D : /\ i \in Int /\ p[i] \in Int
                     /\ residual[i] = a * p[i] + b * (i - 1) + c
                     /\ residual[i] \in Int
    <2> SUFFICES ASSUME NEW i \in D
                 PROVE  /\ i \in Int /\ p[i] \in Int
                        /\ residual[i] = a * p[i] + b * (i - 1) + c
                        /\ residual[i] \in Int
      OBVIOUS
    <2>1. i \in Int /\ p[i] \in Int
      BY PointTypes
    <2>2. residual[i] = d * n * p[i] - n * r * (i - 1) - (d * y - r * x)
      OBVIOUS
    <2> HIDE DEF residual
    <2>3. d * n * p[i] - n * r * (i - 1) - (d * y - r * x) = a * p[i] + b * (i - 1) + c
      <3>1. i - 1 \in Int
        BY <2>1
      <3>2. PICK v \in Int, s \in Int : v = p[i] /\ s = i - 1
        BY <2>1, <3>1
      <3>3. d * n * v - n * r * s - (d * y - r * x) = a * v + b * s + c
        BY <1>factors, ResidualForm
      <3> QED BY <3>2, <3>3
    <2>4. a * p[i] + b * (i - 1) + c \in Int
      <3>1. PICK v \in Int, s \in Int : v = p[i] /\ s = i - 1
        BY <2>1
      <3>2. a * v + b * s + c \in Int
        OBVIOUS
      <3> QED BY <3>1, <3>2
    <2>5. residual[i] = a * p[i] + b * (i - 1) + c
      BY <2>2, <2>3, Zenon
    <2> QED BY <2>1, <2>4, <2>5, Zenon
  <1> HIDE DEF residual
  <1>7. SumFunctionOnSet(residual, D) = 0
    <2>1. Combines(residual, D, a, p, b, Times(p), zero, p, c)
      <3> SUFFICES ASSUME NEW i \in D
                   PROVE  residual[i] = a * p[i] + b * Times(p)[i] + zero * p[i] + c
        BY PointTypes DEF Combines
      <3>1. residual[i] = a * p[i] + b * (i - 1) + c /\ Times(p)[i] = i - 1
        BY <1>6, PointTypes
      <3>2. a * p[i] \in Int /\ b * (i - 1) \in Int /\ zero * p[i] = 0
        <4>1. PICK v \in Int, s \in Int : v = p[i] /\ s = i - 1
          BY <1>6
        <4>2. a * v \in Int /\ b * s \in Int /\ zero * v = 0
          BY <1>1
        <4> QED BY <4>1, <4>2
      <3> QED BY <3>1, <3>2
    <2>2. SumFunctionOnSet(residual, D)
              = a * SumFunctionOnSet(p, D) + b * SumFunctionOnSet(Times(p), D)
                    + zero * SumFunctionOnSet(p, D) + c * Cardinality(D)
      <3> HIDE DEF D
      <3> QED BY <1>1, <1>3, <1>4, <2>1, SumLinear
    <2>3. SumFunctionOnSet(residual, D) = a * y + b * x + c * n
      <3>1. a * y \in Int /\ b * x \in Int /\ c * n \in Int /\ zero * y = 0
        BY <1>1
      <3>2. SumFunctionOnSet(residual, D) = a * y + b * x + zero * y + c * n
        BY <1>4, <1>5, <2>2, Zenon
      <3> QED BY <3>1, <3>2
    <2>4. (d * n) * y + (-(n * r)) * x + (-(d * y - r * x)) * n = 0
      BY <1>normal, FirstIdentity
    <2> QED BY <1>factors, <2>3, <2>4
  <1>8. SumFunctionOnSet(by_time, D) = 0
    <2>1. Combines(by_time, D, a, Weighted(p), b, TimesSquared(p), c, Times(p), zero)
      <3> SUFFICES ASSUME NEW i \in D
                   PROVE  by_time[i] = a * Weighted(p)[i] + b * TimesSquared(p)[i]
                                           + c * Times(p)[i] + zero
        BY PointTypes DEF Combines
      <3>1. by_time[i] = (i - 1) * (a * p[i] + b * (i - 1) + c)
        BY <1>6
      <3>2. (i - 1) * (a * p[i] + b * (i - 1) + c)
                = a * ((i - 1) * p[i]) + b * ((i - 1) * (i - 1)) + c * (i - 1) + zero
        <4>1. i - 1 \in Int /\ p[i] \in Int
          BY <1>6
        <4>2. (i - 1) * (a * p[i] + b * (i - 1) + c)
                  = a * ((i - 1) * p[i]) + b * ((i - 1) * (i - 1)) + c * (i - 1)
          <5>1. PICK v \in Int, s \in Int : v = p[i] /\ s = i - 1
            BY <4>1, Zenon
          <5>2. s * (a * v + b * s + c) = a * (s * v) + b * (s * s) + c * s
            BY ResidualTimes
          <5> QED BY <5>1, <5>2
        <4>3. /\ a * ((i - 1) * p[i]) \in Int /\ b * ((i - 1) * (i - 1)) \in Int
              /\ c * (i - 1) \in Int
          BY <1>3, <4>1, ProductInt
        <4> QED BY <1>1, <4>2, <4>3
      <3> QED BY <3>1, <3>2, PointTypes
    <2> HIDE DEF by_time
    <2>2. SumFunctionOnSet(by_time, D)
              = a * xy + b * xx + c * x + zero * Cardinality(D)
      <3>1. SumFunctionOnSet(by_time, D)
                = a * SumFunctionOnSet(Weighted(p), D) + b * SumFunctionOnSet(TimesSquared(p), D)
                      + c * SumFunctionOnSet(Times(p), D) + zero * Cardinality(D)
        <4> HIDE DEF D
        <4> QED BY <1>1, <1>3, <1>4, <2>1, SumLinear
      <3> QED BY <1>5, <3>1
    <2>3. SumFunctionOnSet(by_time, D) = a * xy + b * xx + c * x
      <3>1. a * xy \in Int /\ b * xx \in Int /\ c * x \in Int /\ zero * n = 0
        <4>1. a * xy \in Int /\ b * xx \in Int /\ c * x \in Int
          BY ProductInt, Zenon
        <4> QED BY <1>1, <4>1
      <3> QED BY <1>4, <2>2, <3>1
    <2>4. (d * n) * xy + (-(n * r)) * xx + (-(d * y - r * x)) * x = 0
      BY <1>normal, SecondIdentity
    <2> QED BY <1>factors, <2>3, <2>4
  <1>9. /\ \A i \in D : by_value[i] \in Int
        /\ SumFunctionOnSet(by_value, D) = a * yy + b * xy + c * y
    <2>1. Combines(by_value, D, a, Squared(p), b, Weighted(p), c, p, zero)
      <3> SUFFICES ASSUME NEW i \in D
                   PROVE  by_value[i] = a * Squared(p)[i] + b * Weighted(p)[i]
                                            + c * p[i] + zero
        BY PointTypes DEF Combines
      <3>1. by_value[i] = p[i] * (a * p[i] + b * (i - 1) + c)
        BY <1>6
      <3>2. p[i] * (a * p[i] + b * (i - 1) + c)
                = a * (p[i] * p[i]) + b * ((i - 1) * p[i]) + c * p[i] + zero
        <4>1. i - 1 \in Int /\ p[i] \in Int
          BY <1>6
        <4>2. p[i] * (a * p[i] + b * (i - 1) + c)
                  = a * (p[i] * p[i]) + b * (p[i] * (i - 1)) + c * p[i]
          <5>1. PICK v \in Int, s \in Int : v = p[i] /\ s = i - 1
            BY <4>1, Zenon
          <5>2. v * (a * v + b * s + c) = a * (v * v) + b * (v * s) + c * v
            BY ResidualTimes
          <5> QED BY <5>1, <5>2
        <4>3. p[i] * (i - 1) = (i - 1) * p[i]
          BY <4>1, ProductSwap
        <4>4. /\ a * (p[i] * p[i]) \in Int /\ b * ((i - 1) * p[i]) \in Int
              /\ c * p[i] \in Int
          BY <1>3, <4>1, ProductInt
        <4> QED BY <1>1, <4>2, <4>3, <4>4
      <3> QED BY <3>1, <3>2, PointTypes
    <2>2. \A i \in D : by_value[i] \in Int
      <3> SUFFICES ASSUME NEW i \in D PROVE by_value[i] \in Int
        OBVIOUS
      <3>1. p[i] * residual[i] \in Int
        BY <1>6, ProductInt, Zenon
      <3> QED BY <3>1
    <2> HIDE DEF by_value
    <2>3. SumFunctionOnSet(by_value, D)
              = a * yy + b * xy + c * y + zero * Cardinality(D)
      <3>1. SumFunctionOnSet(by_value, D)
                = a * SumFunctionOnSet(Squared(p), D) + b * SumFunctionOnSet(Weighted(p), D)
                      + c * SumFunctionOnSet(p, D) + zero * Cardinality(D)
        <4> HIDE DEF D
        <4> QED BY <1>1, <1>3, <1>4, <2>1, SumLinear
      <3> QED BY <1>5, <3>1
    <2>4. a * yy \in Int /\ b * xy \in Int /\ c * y \in Int /\ zero * n = 0
      <3>1. a * yy \in Int /\ b * xy \in Int /\ c * y \in Int
        BY ProductInt, Zenon
      <3> QED BY <1>1, <3>1
    <2>5. SumFunctionOnSet(by_value, D) = a * yy + b * xy + c * y
      BY <1>4, <2>3, <2>4
    <2> QED BY <2>2, <2>5
  <1>10. \A i \in D : by_time[i] \in Int
    <2> SUFFICES ASSUME NEW i \in D PROVE by_time[i] \in Int
      OBVIOUS
    <2>1. i - 1 \in Int
      BY <1>6
    <2>2. (i - 1) * residual[i] \in Int
      BY <1>6, <2>1, ProductInt, Zenon
    <2> QED BY <2>2
  <1>11. SumFunctionOnSet(squares, D) = a * SumFunctionOnSet(by_value, D)
    <2>1. Combines(squares, D, a, by_value, b, by_time, c, residual, zero)
      <3> SUFFICES ASSUME NEW i \in D
                   PROVE  squares[i] = a * by_value[i] + b * by_time[i]
                                           + c * residual[i] + zero
        BY <1>6, <1>9, <1>10 DEF Combines
      <3>1. /\ squares[i] = residual[i] * residual[i]
            /\ by_value[i] = p[i] * residual[i]
            /\ by_time[i] = (i - 1) * residual[i]
        OBVIOUS
      <3>2. PICK e \in Int : e = residual[i]
        BY <1>6
      <3>3. e * (a * p[i] + b * (i - 1) + c)
                = a * (p[i] * e) + b * ((i - 1) * e) + c * e + zero
        <4>1. i - 1 \in Int /\ p[i] \in Int
          BY <1>6
        <4>2. e * (a * p[i] + b * (i - 1) + c) = a * (e * p[i]) + b * (e * (i - 1)) + c * e
          <5>1. PICK v \in Int, s \in Int : v = p[i] /\ s = i - 1
            BY <4>1
          <5>2. e * (a * v + b * s + c) = a * (e * v) + b * (e * s) + c * e
            OBVIOUS
          <5> QED BY <5>1, <5>2
        <4>3. e * p[i] = p[i] * e /\ e * (i - 1) = (i - 1) * e
          BY <3>2, <4>1, ProductSwap
        <4>4. /\ a * (p[i] * e) \in Int /\ b * ((i - 1) * e) \in Int /\ c * e \in Int
          BY <1>3, <3>2, <4>1, ProductInt
        <4> QED BY <1>1, <4>2, <4>3, <4>4
      <3> QED BY <1>6, <3>1, <3>2, <3>3
    <2> HIDE DEF squares, by_value, by_time
    <2>2. /\ SumFunctionOnSet(squares, D)
                 = a * SumFunctionOnSet(by_value, D) + b * SumFunctionOnSet(by_time, D)
                       + c * SumFunctionOnSet(residual, D) + zero * Cardinality(D)
          /\ SumFunctionOnSet(by_value, D) \in Int
      <3> HIDE DEF D
      <3> QED BY <1>1, <1>3, <1>4, <2>1, SumLinear
    <2>3. a * SumFunctionOnSet(by_value, D) \in Int /\ b * 0 = 0 /\ c * 0 = 0 /\ zero * n = 0
      <3>1. a * SumFunctionOnSet(by_value, D) \in Int
        BY <2>2, ProductInt, Zenon
      <3>2. b * 0 = 0 /\ c * 0 = 0 /\ zero * n = 0
        BY <1>1
      <3> QED BY <3>1, <3>2
    <2> QED BY <1>4, <1>7, <1>8, <2>2, <2>3
  <1>12. SumFunctionOnSet(squares, D) = n * d * (Total(p) - Explained(p))
    <2>1. Total(p) - Explained(p) = d * (n * yy - y * y) - r * r
      BY <1>2, <1>3 DEF Total, Explained, Spread
    <2>2. SumFunctionOnSet(squares, D) = a * (a * yy + b * xy + c * y)
      <3> HIDE DEF squares, by_value
      <3> QED BY <1>9, <1>11
    <2> HIDE DEF squares
    <2>3. (d * n) * ((d * n) * yy + (-(n * r)) * xy + (-(d * y - r * x)) * y)
              = n * d * (d * (n * yy - y * y) - r * r)
      BY <1>normal, ThirdIdentity
    <2> QED BY <1>factors, <2>1, <2>2, <2>3
  <1>13. /\ DOMAIN residual = D /\ DOMAIN by_time = D /\ DOMAIN squares = D
    BY DEF residual
  <1>14. /\ SumFunction(residual) = 0 /\ SumFunction(by_time) = 0
         /\ SumFunction(squares) = n * d * (Total(p) - Explained(p))
    <2> HIDE DEF squares, by_time, D
    <2> QED BY <1>7, <1>8, <1>12, <1>13 DEF SumFunction
  <1> QED BY <1>2, <1>14 DEF LeastSquares, residual, by_time, squares

LEMMA SquareNat ==
    ASSUME NEW a \in Int
    PROVE  a * a \in Nat /\ (a * a <= 0 => a = 0)
  <1>1. CASE a >= 0
    BY <1>1
  <1>2. CASE a < 0
    <2>1. PICK b \in Nat : b = -a /\ b > 0
      BY <1>2
    <2>2. b * b \in Nat /\ b * b > 0
      BY <2>1
    <2>3. a * a = b * b
      BY <2>1
    <2> QED BY <2>2, <2>3
  <1> QED BY <1>1, <1>2

\* The times of two readings differ, so the slope's denominator n * sum(x^2) - sum(x)^2
\* is positive and linear_regression, which divides by it, always has a slope.
THEOREM DenominatorPositive ==
    ASSUME NEW p \in Seq(Int), Len(p) >= 2
    PROVE  Denominator(p) > 0
  <1>1. PICK zero \in Int : zero = 0
    OBVIOUS
  <1>2. PICK n \in Int, d \in Int, x \in Int, xx \in Int :
            n = Len(p) /\ d = Denominator(p) /\ x = SumX(p) /\ xx = SumX2(p)
    BY SumTypes, PointTypes
  <1>3. n >= 2 /\ d = n * xx - x * x
    BY <1>2 DEF Denominator
  <1>4. PICK a \in Int, b \in Int, e \in Int :
            a = n * n /\ b = -(2 * n * x) /\ e = x * x
    <2>1. n * n \in Int /\ -(2 * n * x) \in Int /\ x * x \in Int
      OBVIOUS
    <2> QED BY <2>1
  <1> DEFINE D == DOMAIN p
             off == [i \in D |-> (n * (i - 1) - x) * (n * (i - 1) - x)]
  <1>5. \A i \in D : i \in Int /\ off[i] \in Nat
    <2> SUFFICES ASSUME NEW i \in D
                 PROVE  i \in Int /\ off[i] \in Nat
      OBVIOUS
    <2>1. i \in Int
      BY PointTypes
    <2>2. n * (i - 1) - x \in Int
      BY <2>1
    <2> QED BY <2>1, <2>2, SquareNat
  <1>6. Combines(off, D, a, TimesSquared(p), b, Times(p), zero, Times(p), e)
    <2> SUFFICES ASSUME NEW i \in D
                 PROVE  off[i] = a * TimesSquared(p)[i] + b * Times(p)[i]
                                     + zero * Times(p)[i] + e
      BY PointTypes DEF Combines
    <2>1. PICK t \in Int : t = i - 1
      BY <1>5
    <2>2. off[i] = (n * t - x) * (n * t - x)
      BY <2>1
    <2>3. (n * t - x) * (n * t - x) = a * (t * t) + b * t + zero * t + e
      BY <1>1, <1>4
    <2>4. TimesSquared(p)[i] = t * t /\ Times(p)[i] = t
      BY <2>1, PointTypes
    <2> QED BY <2>2, <2>3, <2>4
  <1>7. IsFiniteSet(D) /\ Cardinality(D) = n
    BY <1>2, PointTypes
  <1>8. SumFunctionOnSet(off, D) = n * d
    <2>1. SumFunctionOnSet(off, D)
              = a * SumFunctionOnSet(TimesSquared(p), D) + b * SumFunctionOnSet(Times(p), D)
                    + zero * SumFunctionOnSet(Times(p), D) + e * Cardinality(D)
      <3> HIDE DEF off, D
      <3> QED BY <1>1, <1>6, <1>7, SumLinear
    <2>2. SumFunctionOnSet(off, D) = a * xx + b * x + zero * x + e * n
      BY <1>2, <1>7, <2>1, SumTypes, Zenon
    <2>3. a * xx + b * x + zero * x + e * n = n * d
      BY <1>1, <1>3, <1>4
    <2> QED BY <2>2, <2>3
  <1>9. \A i \in D : off[i] <= n * d
    <2> HIDE DEF off, D
    <2> QED BY <1>5, <1>7, <1>8, SumType
  <1>10. 1 \in D /\ 2 \in D
    BY PointTypes
  <1>11. off[1] = x * x /\ off[2] = (n - x) * (n - x)
    <2>1. off[1] = (n * 0 - x) * (n * 0 - x) /\ off[2] = (n * 1 - x) * (n * 1 - x)
      BY <1>10
    <2>2. (n * 0 - x) * (n * 0 - x) = x * x /\ n * 1 - x = n - x
      OBVIOUS
    <2> QED BY <2>1, <2>2
  <1>12. x * x <= n * d /\ (n - x) * (n - x) <= n * d
    BY <1>9, <1>10, <1>11
  <1>13. SUFFICES ASSUME d <= 0 PROVE FALSE
    BY <1>2
  <1>14. n * d <= 0
    BY <1>3, <1>13
  <1>15. x * x <= 0 /\ (n - x) * (n - x) <= 0
    BY <1>12, <1>14
  <1>16. x = 0 /\ n - x = 0
    BY <1>15, SquareNat
  <1> QED BY <1>3, <1>16

\* The line explains no more than there is (Cauchy's inequality): the r_squared of
\* linear_regression, half of which is a trend's confidence, lies between 0 and 1.
THEOREM ExplainedBounded ==
    ASSUME NEW p \in Seq(Int), Len(p) >= 2
    PROVE  Explained(p) \in Nat /\ Explained(p) <= Total(p)
  <1>1. PICK n \in Int, d \in Int, r \in Int, x \in Int, y \in Int :
            n = Len(p) /\ d = Denominator(p) /\ r = Rise(p) /\ x = SumX(p) /\ y = SumY(p)
    <2>1. /\ Len(p) \in Int /\ Denominator(p) \in Int /\ Rise(p) \in Int
          /\ SumX(p) \in Int /\ SumY(p) \in Int
      BY SumTypes, PointTypes
    <2> QED BY <2>1, Zenon
  <1>2. n > 0 /\ d > 0
    BY <1>1, DenominatorPositive
  <1> DEFINE residual == [i \in DOMAIN p |-> d * n * p[i] - n * r * (i - 1) - (d * y - r * x)]
             squares == [i \in DOMAIN p |-> residual[i] * residual[i]]
  <1>3. SumFunction(squares) = n * d * (Total(p) - Explained(p))
    BY <1>1, LeastSquaresHolds DEF LeastSquares
  <1>4. \A i \in DOMAIN p : squares[i] \in Nat
    <2> SUFFICES ASSUME NEW i \in DOMAIN p
                 PROVE  squares[i] \in Nat
      OBVIOUS
    <2>1. PICK v \in Int, s \in Int : v = p[i] /\ s = i - 1
      BY PointTypes
    <2>2. residual[i] = d * n * v - n * r * s - (d * y - r * x)
      BY <2>1
    <2>3. d * n * v - n * r * s - (d * y - r * x) \in Int
      OBVIOUS
    <2> QED BY <2>2, <2>3, SquareNat
  <1>5. SumFunctionOnSet(squares, DOMAIN p) \in Nat
    <2>1. IsFiniteSet(DOMAIN p)
      BY PointTypes
    <2> HIDE DEF squares
    <2> QED BY <1>4, <2>1, SumType
  <1>6. n * d * (Total(p) - Explained(p)) >= 0
    <2>1. SumFunction(squares) = SumFunctionOnSet(squares, DOMAIN p)
      BY DEF SumFunction
    <2> QED BY <1>3, <1>5, <2>1
  <1>7. PICK total \in Int, explained \in Int : total = Total(p) /\ explained = Explained(p)
    BY SumTypes
  <1>8. explained <= total
    <2>1. SUFFICES ASSUME total - explained <= -1 PROVE FALSE
      OBVIOUS
    <2>2. n * d >= 1
      BY <1>2
    <2>3. PICK e \in Int, m \in Int : e = total - explained /\ m = n * d
      OBVIOUS
    <2>4. m * e <= -1
      BY <2>1, <2>2, <2>3
    <2>5. n * d * (Total(p) - Explained(p)) = m * e
      BY <1>7, <2>3
    <2> QED BY <1>6, <2>4, <2>5
  <1>9. Explained(p) \in Nat
    BY <1>1, SquareNat DEF Explained
  <1> QED BY <1>7, <1>8, <1>9

------------------------------------------------------------------------------
(* A slope that falls needs a reading that falls *)

\* Readings of which none is below the one before it.
Ascending(p) == \A i \in 2 .. Len(p) : p[i - 1] <= p[i]

LEMMA AscendingOrder ==
    ASSUME NEW p \in Seq(Int), Ascending(p)
    PROVE  \A i, j \in DOMAIN p : i <= j => p[i] <= p[j]
  <1> DEFINE N == {k \in Nat : \A i \in DOMAIN p : i + k \in DOMAIN p => p[i] <= p[i + k]}
  <1>1. DOMAIN p = 1 .. Len(p) /\ Len(p) \in Nat /\ \A i \in DOMAIN p : p[i] \in Int
    OBVIOUS
  <1>2. 0 \in N
    BY <1>1
  <1>3. ASSUME NEW k \in N
        PROVE  k + 1 \in N
    <2> SUFFICES ASSUME NEW i \in DOMAIN p, i + (k + 1) \in DOMAIN p
                 PROVE  p[i] <= p[i + (k + 1)]
      OBVIOUS
    <2>1. /\ i + k \in DOMAIN p /\ i + (k + 1) \in 2 .. Len(p)
          /\ (i + (k + 1)) - 1 = i + k
      <3>1. PICK n \in Nat : n = Len(p) /\ DOMAIN p = 1 .. n
        BY <1>1
      <3>2. i \in Int /\ k \in Int /\ i >= 1 /\ k >= 0 /\ i + (k + 1) <= n
        BY <3>1
      <3>3. i + k \in Int /\ i + (k + 1) \in Int /\ (i + (k + 1)) - 1 = i + k
        BY <3>2
      <3>4. i + k >= 1 /\ i + k <= n /\ i + (k + 1) >= 2
        BY <3>2
      <3>5. i + k \in 1 .. n /\ i + (k + 1) \in 2 .. n
        BY <3>2, <3>3, <3>4
      <3> QED BY <3>1, <3>3, <3>5
    <2>2. p[i] <= p[i + k]
      BY <2>1
    <2>3. p[i + k] <= p[i + (k + 1)]
      BY <2>1 DEF Ascending
    <2>4. p[i] \in Int /\ p[i + k] \in Int /\ p[i + (k + 1)] \in Int
      BY <1>1, <2>1
    <2> QED BY <2>2, <2>3, <2>4
  <1> HIDE DEF N
  <1>4. N = Nat
    BY <1>2, <1>3, InductiveSet DEF N
  <1> SUFFICES ASSUME NEW i \in DOMAIN p, NEW j \in DOMAIN p, i <= j
               PROVE  p[i] <= p[j]
    OBVIOUS
  <1>5. j - i \in Nat /\ i + (j - i) = j
    BY <1>1
  <1>6. j - i \in N
    BY <1>4, <1>5
  <1> QED BY <1>5, <1>6 DEF N

\* The products of all differences of times and of values.
Differences(p, i) ==
    [j \in DOMAIN p |-> ((i - 1) - (j - 1)) * (p[i] - p[j])]

LEMMA DifferencesNat ==
    ASSUME NEW p \in Seq(Int), Ascending(p), NEW i \in DOMAIN p, NEW j \in DOMAIN p
    PROVE  Differences(p, i)[j] \in Nat
  <1>1. PICK s \in Int, t \in Int, v \in Int, w \in Int :
            s = i - 1 /\ t = j - 1 /\ v = p[i] /\ w = p[j]
    <2>1. i - 1 \in Int /\ j - 1 \in Int /\ p[i] \in Int /\ p[j] \in Int
      BY PointTypes
    <2> QED BY <2>1, Zenon
  <1>2. Differences(p, i)[j] = (s - t) * (v - w)
    BY <1>1 DEF Differences
  <1>3. (s <= t /\ v <= w) \/ (t <= s /\ w <= v)
    <2>1. i \in Int /\ j \in Int
      BY PointTypes
    <2>2. CASE i <= j
      BY <1>1, <2>1, <2>2, AscendingOrder
    <2>3. CASE j <= i
      BY <1>1, <2>1, <2>3, AscendingOrder
    <2> QED BY <2>1, <2>2, <2>3
  <1>4. (s - t) * (v - w) \in Nat
    <2>1. CASE t <= s /\ w <= v
      <3>1. s - t \in Nat /\ v - w \in Nat
        BY <2>1
      <3> QED BY <3>1, ProductNat
    <2>2. CASE s <= t /\ v <= w
      <3>1. t - s \in Nat /\ w - v \in Nat
        BY <2>2
      <3>2. (s - t) * (v - w) = (t - s) * (w - v)
        OBVIOUS
      <3> QED BY <3>1, <3>2, ProductNat
    <2> QED BY <1>3, <2>1, <2>2
  <1> QED BY <1>2, <1>4

\* Chebyshev's inequality for sums: of ascending readings, the slope is not negative.
LEMMA AscendingRise ==
    ASSUME NEW p \in Seq(Int), Ascending(p)
    PROVE  Rise(p) >= 0
  <1>1. PICK one \in Int, zero \in Int : one = 1 /\ zero = 0
    OBVIOUS
  <1>2. PICK n \in Int, x \in Int, y \in Int, xy \in Int :
            n = Len(p) /\ x = SumX(p) /\ y = SumY(p) /\ xy = SumXY(p)
    <2>1. Len(p) \in Int /\ SumX(p) \in Int /\ SumY(p) \in Int /\ SumXY(p) \in Int
      BY SumTypes, PointTypes
    <2> QED BY <2>1, Zenon
  <1> DEFINE D == DOMAIN p
             outer == [i \in D |-> SumFunctionOnSet(Differences(p, i), D)]
  <1>3. IsFiniteSet(D) /\ Cardinality(D) = n
    BY <1>2, PointTypes
  <1>4. /\ x = SumFunctionOnSet(Times(p), D) /\ y = SumFunctionOnSet(p, D)
        /\ xy = SumFunctionOnSet(Weighted(p), D)
    BY <1>2, SumTypes
  <1>5. ASSUME NEW i \in D
        PROVE  /\ outer[i] \in Nat
               /\ outer[i] = n * Weighted(p)[i] + (-y) * Times(p)[i] + (-x) * p[i] + xy
    <2>1. PICK s \in Int, v \in Int, a \in Int, b \in Int, e \in Int :
              s = i - 1 /\ v = p[i] /\ a = -s /\ b = -v /\ e = s * v
      <3>1. PICK s \in Int, v \in Int : s = i - 1 /\ v = p[i]
        BY PointTypes
      <3>2. -s \in Int /\ -v \in Int /\ s * v \in Int
        OBVIOUS
      <3> QED BY <3>1, <3>2
    <2>2. Combines(Differences(p, i), D, one, Weighted(p), a, p, b, Times(p), e)
      <3> SUFFICES ASSUME NEW j \in D
                   PROVE  Differences(p, i)[j] = one * Weighted(p)[j] + a * p[j]
                                                     + b * Times(p)[j] + e
        BY PointTypes DEF Combines
      <3>1. PICK t \in Int, w \in Int : t = j - 1 /\ w = p[j]
        BY PointTypes
      <3>2. Differences(p, i)[j] = (s - t) * (v - w)
        BY <2>1, <3>1 DEF Differences
      <3>3. (s - t) * (v - w) = one * (t * w) + a * w + b * t + e
        <4>1. (s - t) * (v - w) = t * w + (-s) * w + (-v) * t + s * v
          OBVIOUS
        <4>2. one * (t * w) = t * w
          BY <1>1
        <4> QED BY <2>1, <4>1, <4>2
      <3>4. Weighted(p)[j] = t * w /\ Times(p)[j] = t
        BY <3>1, PointTypes
      <3> QED BY <3>1, <3>2, <3>3, <3>4
    <2>3. SumFunctionOnSet(Differences(p, i), D)
              = one * SumFunctionOnSet(Weighted(p), D) + a * SumFunctionOnSet(p, D)
                    + b * SumFunctionOnSet(Times(p), D) + e * Cardinality(D)
      <3> HIDE DEF D
      <3> QED BY <1>1, <1>3, <2>1, <2>2, SumLinear
    <2>4. outer[i] = one * xy + a * y + b * x + e * n
      BY <1>3, <1>4, <2>3
    <2>5. one * xy + a * y + b * x + e * n = n * (s * v) + (-y) * s + (-x) * v + xy
      <3>1. xy + (-s) * y + (-v) * x + (s * v) * n = n * (s * v) + (-y) * s + (-x) * v + xy
        OBVIOUS
      <3>2. one * xy = xy
        BY <1>1
      <3> QED BY <2>1, <3>1, <3>2
    <2>6. Weighted(p)[i] = s * v /\ Times(p)[i] = s
      BY <2>1, PointTypes
    <2>7. outer[i] \in Nat
      <3>1. \A j \in D : Differences(p, i)[j] \in Nat
        BY DifferencesNat
      <3>2. SumFunctionOnSet(Differences(p, i), D) \in Nat
        <4> HIDE DEF D
        <4> QED BY <1>3, <3>1, SumType
      <3> QED BY <3>2
    <2> HIDE DEF outer
    <2> QED BY <2>1, <2>4, <2>5, <2>6, <2>7
  <1> HIDE DEF outer
  <1>6. PICK b \in Int, c \in Int : b = -y /\ c = -x
    OBVIOUS
  <1>7. Combines(outer, D, n, Weighted(p), b, Times(p), c, p, xy)
    BY <1>5, <1>6, PointTypes DEF Combines
  <1>8. SumFunctionOnSet(outer, D) = n * xy + b * x + c * y + xy * n
    <2>1. SumFunctionOnSet(outer, D)
              = n * SumFunctionOnSet(Weighted(p), D) + b * SumFunctionOnSet(Times(p), D)
                    + c * SumFunctionOnSet(p, D) + xy * Cardinality(D)
      <3> HIDE DEF D
      <3> QED BY <1>3, <1>7, SumLinear
    <2> QED BY <1>3, <1>4, <2>1
  <1>9. SumFunctionOnSet(outer, D) \in Nat
    <2> HIDE DEF D
    <2> QED BY <1>3, <1>5, SumType
  <1>10. n * xy + b * x + c * y + xy * n = 2 * (n * xy - x * y)
    BY <1>6
  <1>11. Rise(p) = n * xy - x * y /\ n * xy - x * y \in Int
    BY <1>2 DEF Rise
  <1> QED BY <1>8, <1>9, <1>10, <1>11

\* Where linear_regression's slope falls, some reading is below the one before it: no
\* jump upwards, however placed, looks like a decline to analyze_trend.
THEOREM FallHasDescent ==
    ASSUME NEW p \in Seq(Int), NEW hundredths \in Nat, FallsFaster(p, hundredths)
    PROVE  \E i \in 2 .. Len(p) : p[i] < p[i - 1]
  <1>1. PICK r \in Int, d \in Int : r = Rise(p) /\ d = Denominator(p)
    BY SumTypes
  <1>2. Len(p) >= 3 /\ 100 * Unit * r < -5 * hundredths * d
    BY <1>1 DEF FallsFaster, HasLine
  <1>3. d > 0
    BY <1>1, <1>2, DenominatorPositive, PointTypes
  <1>4. r < 0
    <2>1. SUFFICES ASSUME r >= 0 PROVE FALSE
      OBVIOUS
    <2>2. PICK u \in Nat : u = Unit
      BY PredictiveAssumption
    <2>3. u * r \in Nat /\ hundredths * d \in Nat
      BY <1>3, <2>1, ProductNat
    <2>4. 100 * u * r = 100 * (u * r) /\ -5 * hundredths * d = -5 * (hundredths * d)
      OBVIOUS
    <2> QED BY <1>2, <2>2, <2>3, <2>4
  <1>5. ~Ascending(p)
    BY <1>1, <1>4, AscendingRise
  <1>6. PICK i \in 2 .. Len(p) : ~(p[i - 1] <= p[i])
    BY <1>5 DEF Ascending
  <1>7. p[i] \in Int /\ p[i - 1] \in Int
    OBVIOUS
  <1> QED BY <1>6, <1>7

------------------------------------------------------------------------------
(* The predictive engine *)

\* add_reading keeps no more readings than four recent windows, whatever the engine
\* has been told and cleared before.
THEOREM PredictiveTypeCorrect == PredictiveSpec => []PredictiveTypeOK
  <1>1. PredictiveInit => PredictiveTypeOK
    BY PredictiveAssumption DEF PredictiveInit, PredictiveTypeOK
  <1>2. PredictiveTypeOK /\ [PredictiveNext]_engine => PredictiveTypeOK'
    <2> SUFFICES ASSUME PredictiveTypeOK, [PredictiveNext]_engine
                 PROVE  PredictiveTypeOK'
      OBVIOUS
    <2>1. PICK w \in Nat : w = recent_window /\ w > 0
      BY PredictiveAssumption DEF PredictiveTypeOK
    <2>2. CASE UNCHANGED engine
      BY <2>2 DEF engine, PredictiveTypeOK
    <2>3. CASE Clear
      BY <2>1, <2>3 DEF Clear, PredictiveTypeOK
    <2>4. ASSUME NEW score \in Readings, AddReading(score)
          PROVE  PredictiveTypeOK'
      <3> DEFINE longer == Append(history, score)
      <3>1. longer \in Seq(Readings) /\ Len(longer) = Len(history) + 1 /\ longer # <<>>
        BY DEF PredictiveTypeOK
      <3>2. Tail(longer) \in Seq(Readings) /\ Len(Tail(longer)) = Len(longer) - 1
        BY <3>1
      <3>3. Len(history) \in Nat /\ Len(history) <= 4 * w
        BY <2>1 DEF PredictiveTypeOK
      <3>4. history' = (IF Len(longer) > 4 * w THEN Tail(longer) ELSE longer)
            /\ recent_window' = recent_window
        BY <2>1, <2>4 DEF AddReading
      <3> HIDE DEF longer
      <3> QED BY <2>1, <3>1, <3>2, <3>3, <3>4 DEF PredictiveTypeOK
    <2> QED BY <2>2, <2>3, <2>4 DEF PredictiveNext
  <1> QED BY <1>1, <1>2, PTL DEF PredictiveSpec

LEMMA HistoryInt ==
    ASSUME PredictiveTypeOK
    PROVE  history \in Seq(Int)
  <1>1. Readings \subseteq Int /\ history \in Seq(Readings)
    BY PredictiveAssumption DEF PredictiveTypeOK
  <1> QED BY <1>1, SeqMonotonic, Zenon

\* linear_regression's line through the readings kept is the one of least squares, and
\* its r_squared the share of the squares that the line explains.
THEOREM FitCorrect == PredictiveSpec => []FitIsLeastSquares
  <1>1. PredictiveTypeOK => FitIsLeastSquares
    BY HistoryInt, LeastSquaresHolds DEF FitIsLeastSquares
  <1> QED BY <1>1, PredictiveTypeCorrect, PTL

LEMMA LargerOf ==
    ASSUME NEW a \in Int, NEW b \in Int
    PROVE  Max({a, b}) \in {a, b} /\ Max({a, b}) >= a /\ Max({a, b}) >= b
  <1>1. \E x \in {a, b} : \A y \in {a, b} : x >= y
    <2>1. CASE a >= b
      BY <2>1
    <2>2. CASE b >= a
      BY <2>2
    <2> QED BY <2>1, <2>2
  <1> QED BY <1>1 DEF Max

LEMMA PartOfReadings ==
    ASSUME NEW p \in Seq(Int), NEW m \in Int, NEW n \in Int, m >= 1, n <= Len(p)
    PROVE  /\ SubSeq(p, m, n) \in Seq(Int)
           /\ m <= n => /\ Len(SubSeq(p, m, n)) = n - m + 1
                        /\ \A i \in 1 .. n - m + 1 : SubSeq(p, m, n)[i] = p[m + i - 1]
  OBVIOUS

LEMMA RecentInt ==
    ASSUME PredictiveTypeOK
    PROVE  Recent \in Seq(Int)
  <1>1. PICK w \in Nat, n \in Nat : w = recent_window /\ n = Len(history)
    <2>1. recent_window \in Nat
      BY PredictiveAssumption DEF PredictiveTypeOK
    <2>2. Len(history) \in Nat
      BY HistoryInt
    <2> QED BY <2>1, <2>2, Zenon
  <1>2. PICK m \in Int : m = Max({1, n - w + 1}) /\ m >= 1
    <2>1. PICK k \in Int, one \in Int : k = n - w + 1 /\ one = 1
      <3>1. n - w + 1 \in Int /\ 1 \in Int
        OBVIOUS
      <3> QED BY <3>1, Zenon
    <2>2. Max({one, k}) \in {one, k} /\ Max({one, k}) >= one
      BY <2>1, LargerOf, Zenon
    <2>3. Max({one, k}) \in Int /\ Max({one, k}) >= 1
      BY <2>1, <2>2
    <2> QED BY <2>1, <2>3, Zenon
  <1>3. Recent = SubSeq(history, m, n)
    BY <1>1, <1>2 DEF Recent
  <1>4. SubSeq(history, m, n) \in Seq(Int)
    <2>1. history \in Seq(Int) /\ n \in Int /\ n <= Len(history) /\ m >= 1
      BY <1>1, <1>2, HistoryInt
    <2> QED BY <2>1, PartOfReadings, Zenon
  <1> QED BY <1>3, <1>4

\* No indicator carries the threshold of six tenths alone.
LEMMA TwoIndicators ==
    ASSUME PredictiveTypeOK, ShouldAct, ActionTenths >= 6
    PROVE  \/ Degrading /\ Accelerating
           \/ (Degrading \/ Accelerating) /\ Anomaly(3)
  <1>1. PICK whole \in Int : whole = Whole /\ whole >= 1 /\ whole >= Total(Recent)
    <2>1. PICK total \in Int, one \in Int : total = Total(Recent) /\ one = 1
      BY RecentInt, SumTypes
    <2>2. /\ Max({one, total}) \in {one, total} /\ Max({one, total}) >= one
          /\ Max({one, total}) >= total
      BY LargerOf, Zenon
    <2>3. Max({one, total}) \in Int /\ Max({one, total}) >= 1
      BY <2>1, <2>2
    <2>4. Whole = Max({one, total})
      BY <2>1 DEF Whole
    <2> QED BY <2>1, <2>2, <2>3, <2>4, Zenon
  <1>2. PICK explained \in Int : explained = Explained(Recent)
    BY RecentInt, SumTypes
  <1>3. Degrading => explained <= whole
    <2> SUFFICES ASSUME Degrading PROVE explained <= whole
      OBVIOUS
    <2>1. Len(Recent) >= 2
      BY RecentInt DEF Degrading, FallsFaster, HasLine
    <2>2. Explained(Recent) <= Total(Recent) /\ Total(Recent) \in Int
      BY <2>1, RecentInt, ExplainedBounded, SumTypes
    <2> QED BY <1>1, <1>2, <2>2
  <1>4. PICK trend \in Int, fall \in Int, outlier \in Int :
            /\ trend = (IF Degrading THEN 5 * explained ELSE 0)
            /\ fall = (IF Accelerating THEN 3 * whole ELSE 0)
            /\ outlier = (IF Anomaly(3) THEN 4 * whole ELSE 0)
    <2>1. /\ (IF Degrading THEN 5 * explained ELSE 0) \in Int
          /\ (IF Accelerating THEN 3 * whole ELSE 0) \in Int
          /\ (IF Anomaly(3) THEN 4 * whole ELSE 0) \in Int
      OBVIOUS
    <2> QED BY <2>1, Zenon
  <1>5. Confidence = trend + fall + outlier
    BY <1>1, <1>2, <1>4 DEF Confidence
  <1>6. Confidence >= 6 * whole
    <2>1. PICK tenths \in Int : tenths = ActionTenths /\ tenths >= 6
      BY PredictiveAssumption
    <2>2. tenths * whole >= 6 * whole
      <3>1. (tenths - 6) * whole \in Nat
        BY <1>1, <2>1, ProductNat
      <3>2. (tenths - 6) * whole = tenths * whole - 6 * whole
        OBVIOUS
      <3> QED BY <3>1, <3>2
    <2>3. tenths * whole \in Int
      OBVIOUS
    <2> QED BY <1>1, <1>5, <2>1, <2>2, <2>3 DEF ShouldAct
  <1> QED BY <1>1, <1>3, <1>4, <1>5, <1>6

\* What falls, falls between two readings of the recent window.
LEMMA RecentDescent ==
    ASSUME PredictiveTypeOK, Degrading \/ Accelerating
    PROVE  \E i \in 2 .. Len(Recent) : Recent[i] < Recent[i - 1]
  <1>1. CASE Degrading
    BY <1>1, RecentInt, FallHasDescent DEF Degrading
  <1>2. CASE Accelerating
    <2> DEFINE second(mid, n) == SubSeq(Recent, mid + 1, n)
    <2>1. PICK n \in Nat : n = Len(Recent) /\ n >= 10
      BY <1>2, RecentInt DEF Accelerating
    <2>2. PICK mid \in Nat : mid = n \div 2 /\ mid < n
      BY <2>1
    <2>3. FallsFaster(second(mid, n), 2)
      BY <1>2, <2>1, <2>2 DEF Accelerating
    <2>4. /\ second(mid, n) \in Seq(Int)
          /\ Len(second(mid, n)) = n - mid
          /\ \A i \in 1 .. n - mid : second(mid, n)[i] = Recent[mid + i]
      <3>1. PICK m \in Int : m = mid + 1 /\ m <= n
        BY <2>1, <2>2
      <3>2. /\ SubSeq(Recent, m, n) \in Seq(Int)
            /\ Len(SubSeq(Recent, m, n)) = n - m + 1
            /\ \A i \in 1 .. n - m + 1 : SubSeq(Recent, m, n)[i] = Recent[m + i - 1]
        BY <2>1, <3>1, RecentInt, PartOfReadings
      <3>3. n - m + 1 = n - mid /\ \A i \in 1 .. n - mid : m + i - 1 = mid + i
        BY <3>1
      <3> QED BY <3>1, <3>2, <3>3
    <2>5. PICK i \in 2 .. Len(second(mid, n)) :
              second(mid, n)[i] < second(mid, n)[i - 1]
      <3> HIDE DEF second
      <3> QED BY <2>3, <2>4, FallHasDescent
    <2>6. /\ i \in 1 .. n - mid /\ i - 1 \in 1 .. n - mid
          /\ mid + i \in 2 .. n /\ mid + (i - 1) = (mid + i) - 1
      BY <2>2, <2>4, <2>5
    <2>7. Recent[mid + i] < Recent[(mid + i) - 1]
      <3>1. second(mid, n)[i] = Recent[mid + i]
            /\ second(mid, n)[i - 1] = Recent[mid + (i - 1)]
        BY <2>4, <2>6
      <3> QED BY <2>5, <2>6, <3>1
    <2> QED BY <2>1, <2>6, <2>7
  <1> QED BY <1>1, <1>2

\* analyze's should_act: two indicators speak, whichever way an anomaly goes, and a reading
\* of the recent window is below the one before it.
THEOREM DeclineCorrect == PredictiveSpec => []ActsOnConfirmedDecline
  <1>1. PredictiveTypeOK => ActsOnConfirmedDecline
    BY TwoIndicators, RecentDescent DEF ActsOnConfirmedDecline
  <1> QED BY <1>1, PredictiveTypeCorrect, PTL
==============================================================================
