-------------------------------- MODULE Balancer --------------------------------
(***************************************************************************)
(* Load balancing (netfusion-core/src/routing/balancer): weights computed  *)
(* from health scores, an ECMP default route, policy rules for packet      *)
(* marks, and the nftables table that DSCP tagging (qos/dscp.rs) shares.   *)
(* The balancer keeps its weights only; everything else lives in the       *)
(* kernel and outlives the process.  One caller makes one call at a time,  *)
(* with the gateways the interface scanner found in the kernel's routes.   *)
(***************************************************************************)
EXTENDS Integers, FiniteSets, FiniteSetsExt, Functions

CONSTANTS
    Ifaces,       \* interface names
    Scores,       \* overall health scores
    Modes,        \* BondMode: "ecmp" balances by routes, "weighted" by packet marks
    MinHealths,   \* the values of WeightedBalancer.min_health considered
    HostTables,   \* the default routes a host can have before any balancing
    LastMark,     \* teardown_balancing deletes the rules of marks 1 .. LastMark (16)
    MaxSetups,    \* bound: setups of packet marking that are not taken back
    NoSet         \* no ECMP set is in force

ASSUME BalancerAssumption ==
    /\ IsFiniteSet(Ifaces)
    /\ Scores \subseteq Nat
    /\ MinHealths \subseteq Nat
    /\ Modes \subseteq {"ecmp", "weighted"}
    /\ \A host \in HostTables :
           /\ DOMAIN host \subseteq Nat
           /\ \A m \in DOMAIN host : /\ DOMAIN host[m].hops \subseteq Ifaces
                                     /\ host[m].first \in DOMAIN host[m].hops
    /\ LastMark \in Nat /\ MaxSetups \in Nat

VARIABLES
    mode,        \* how the caller balances, fixed at start
    min_health,  \* WeightedBalancer.min_health, fixed at start
    weights,     \* WeightedBalancer.weights
    gateways,    \* interfaces whose gateway the last scan found
    routes,      \* the kernel's default routes, by metric
    table,       \* chains of the nftables table inet netfusion
    mark_rules,  \* number of `fwmark m table m` rules, per mark m
    call,        \* the call in progress and the commands it has still to run
    in_force,    \* history: the weights of the last ECMP set reported configured
    not_undone   \* history: marking setups that no later teardown took back

balancer == <<mode, min_health, weights>>
kernel == <<routes, table, mark_rules>>
auxiliary == <<in_force, not_undone>>
vars == <<balancer, gateways, kernel, call, auxiliary>>

\* A route: the weight of each of its hops, and the hop that was written first.
Route(hops, first) == [hops |-> hops, first |-> first]

NoWeights == [i \in {} |-> 0]
Idle == [op |-> "idle", todo |-> {}, ok |-> TRUE]
Marks == 1 .. Cardinality(Ifaces)

TypeOK ==
    /\ mode \in Modes
    /\ min_health \in MinHealths
    /\ DOMAIN weights \subseteq Ifaces /\ \A i \in DOMAIN weights : weights[i] \in 1 .. 255
    /\ gateways \subseteq Ifaces
    /\ DOMAIN routes \subseteq Nat
    /\ \A m \in DOMAIN routes : routes[m].first \in DOMAIN routes[m].hops
    /\ table \subseteq {"prerouting", "output", "dscp_tagger"}
    /\ mark_rules \in [Marks -> Nat]
    /\ call.op \in {"idle", "add rules", "delete rules", "delete routes"}
    /\ call.op = "idle" => call = Idle
    /\ not_undone \in 0 .. MaxSetups

Init ==
    /\ mode \in Modes
    /\ min_health \in MinHealths
    /\ weights = NoWeights
    /\ gateways = {}
    /\ routes \in HostTables
    /\ table = {}
    /\ mark_rules = [m \in Marks |-> 0]
    /\ call = Idle
    /\ in_force = NoSet
    /\ not_undone = 0

\* A command of the call is done, or has failed; the call goes on.
Took(step) == [op |-> call.op, todo |-> call.todo \ {step}, ok |-> call.ok]
Failed(step) == [op |-> call.op, todo |-> call.todo \ {step}, ok |-> FALSE]

\* The marks are taken in order.
NextMark(m) == m \in call.todo /\ \A n \in call.todo : m <= n

\* The last command of a call is done.
Return ==
    /\ call # Idle /\ call.todo = {}
    /\ call' = Idle
    /\ not_undone' = IF call.op = "delete rules" /\ call.ok /\ not_undone > 0
                     THEN not_undone - 1 ELSE not_undone
    /\ UNCHANGED <<balancer, gateways, kernel, in_force>>

------------------------------------------------------------------------------
(* Weights *)

Viable(health) == {i \in DOMAIN health : health[i] >= min_health}

\* Mutant: the clamp is missing.
Share_NoClamp(score, total) == (2 * 255 * score + total) \div (2 * total)

\* The share of a score in 255 parts, rounded, and at least one part.
Share(score, total) ==
    LET parts == (2 * 255 * score + total) \div (2 * total)
    IN IF parts < 1 THEN 1 ELSE parts

\* compute_weights: viable interfaces share by score; none, or none above zero, and
\* the weights are cleared.
ComputeWeights(health) ==
    LET total == SumFunctionOnSet(health, Viable(health))
    IN /\ call = Idle
       /\ weights' = IF total = 0 THEN NoWeights
                     ELSE [i \in Viable(health) |-> Share(health[i], total)]
       /\ UNCHANGED <<mode, min_health, gateways, kernel, call, auxiliary>>

\* generate_routes: the weighted interfaces that have a gateway, in any order.
Generated == Restrict(weights, DOMAIN weights \cap gateways)

------------------------------------------------------------------------------
(* ECMP *)

\* EcmpRoute.metric as generate_routes sets it.
Metric == 100

\* What setup_ecmp writes: one route has no weight, and a route without a metric
\* is at 0.
Written(hops) == IF Cardinality(DOMAIN hops) = 1 THEN [i \in DOMAIN hops |-> 1] ELSE hops

\* Mutant: the set of hops is written at the metric its routes carry.
WrittenAt_Metric(hops) == Metric

WrittenAt(hops) == IF Cardinality(DOMAIN hops) = 1 THEN Metric ELSE 0

\* setup_ecmp: `ip route replace`, which replaces the route of the same metric only.
\* No routes at all, or a command that fails, is an error that changes nothing.
SetupEcmp ==
    /\ mode = "ecmp" /\ call = Idle
    /\ Generated # NoWeights
    /\ \E first \in DOMAIN Generated :
           routes' = [m \in DOMAIN routes \cup {WrittenAt(Generated)} |->
                         IF m = WrittenAt(Generated)
                         THEN Route(Written(Generated), first) ELSE routes[m]]
    /\ in_force' = Written(Generated)
    /\ UNCHANGED <<balancer, gateways, table, mark_rules, call, not_undone>>

\* teardown_ecmp begins, with the routes that were set up or with routes generated
\* now.  ok: the call covers a set of several hops that is in force.
TeardownEcmp(hops) ==
    /\ mode = "ecmp" /\ call = Idle
    /\ hops # NoWeights
    /\ call' = [op |-> "delete routes", todo |-> DOMAIN hops,
                ok |-> /\ in_force # NoSet
                       /\ Cardinality(DOMAIN in_force) > 1
                       /\ DOMAIN in_force \subseteq DOMAIN hops]
    /\ in_force' = NoSet
    /\ UNCHANGED <<balancer, gateways, kernel, not_undone>>

\* Mutant: only routes of the metric 100 are deleted.
DeletedBy_Metric(i) == {m \in DOMAIN routes : m = Metric /\ routes[m].first = i}

\* `ip route del default via <gateway of i> dev i`: no metric is given, so any route
\* with that hop can be meant; of several hops the kernel compares the first.
DeletedBy(i) == {m \in DOMAIN routes : routes[m].first = i}

\* The lowest metric goes.  Nothing to delete is only logged.
DeleteRoute(i) ==
    /\ call.op = "delete routes" /\ i \in call.todo
    /\ routes' = IF DeletedBy(i) = {} THEN routes
                 ELSE Restrict(routes, DOMAIN routes \ {Min(DeletedBy(i))})
    /\ call' = Took(i)
    /\ UNCHANGED <<balancer, gateways, table, mark_rules, auxiliary>>

\* Any other failure is only logged as well.
DeleteRouteFails(i) ==
    /\ call.op = "delete routes" /\ i \in call.todo
    /\ call' = Failed(i)
    /\ UNCHANGED <<balancer, gateways, kernel, auxiliary>>

\* `ip` cannot be started: the rest of the routes is left.
TeardownEcmpAborts ==
    /\ call.op = "delete routes" /\ call.todo # {}
    /\ call' = Idle
    /\ UNCHANGED <<balancer, gateways, kernel, auxiliary>>

------------------------------------------------------------------------------
(* Packet marks and the nftables table *)

\* setup_weighted_balancing: fewer than two gateways, or weighted interfaces that
\* have one, and nothing is done.  The marks are the positions of those interfaces
\* in the hashed map of weights.  A ruleset that nft refuses is only logged.
SetupMarking ==
    /\ mode = "weighted" /\ call = Idle
    /\ not_undone < MaxSetups
    /\ Cardinality(gateways) > 1
    /\ Cardinality(DOMAIN Generated) > 1
    /\ \E marks \in kSubset(Cardinality(DOMAIN Generated), 1 .. Cardinality(DOMAIN weights)) :
           call' = [op |-> "add rules", todo |-> marks, ok |-> TRUE]
    /\ \E loaded \in BOOLEAN :
           table' = IF loaded THEN table \cup {"prerouting", "output"} ELSE table
    /\ not_undone' = not_undone + 1
    /\ UNCHANGED <<balancer, gateways, routes, mark_rules, in_force>>

\* `ip rule add` of the next mark, without looking whether it worked or whether the
\* rule exists.
AddRule(m) ==
    /\ call.op = "add rules" /\ NextMark(m)
    /\ call' = Took(m)
    /\ \E added \in BOOLEAN :
           mark_rules' = IF added THEN [mark_rules EXCEPT ![m] = @ + 1] ELSE mark_rules
    /\ UNCHANGED <<balancer, gateways, routes, table, auxiliary>>

\* Mutant: the loop stops before the last mark.
TeardownMarking_OffByOne ==
    /\ mode = "weighted" /\ call = Idle
    /\ call' = [op |-> "delete rules", todo |-> 1 .. LastMark - 1, ok |-> TRUE]
    /\ table' \in {{}, table}
    /\ UNCHANGED <<balancer, gateways, routes, mark_rules, auxiliary>>

\* teardown_balancing: the whole table goes, if nft can delete it, and then a rule
\* of each mark.
TeardownMarking ==
    /\ mode = "weighted" /\ call = Idle
    /\ call' = [op |-> "delete rules", todo |-> 1 .. LastMark, ok |-> TRUE]
    /\ table' \in {{}, table}
    /\ UNCHANGED <<balancer, gateways, routes, mark_rules, auxiliary>>

\* `ip rule del` of the next mark: one rule goes, if there is one.
DeleteRule(m) ==
    /\ call.op = "delete rules" /\ NextMark(m)
    /\ call' = Took(m)
    /\ mark_rules' = IF m \in Marks /\ mark_rules[m] > 0
                     THEN [mark_rules EXCEPT ![m] = @ - 1] ELSE mark_rules
    /\ UNCHANGED <<balancer, gateways, routes, table, auxiliary>>

\* The rule is there and stays.
DeleteRuleFails(m) ==
    /\ call.op = "delete rules" /\ NextMark(m)
    /\ m \in Marks /\ mark_rules[m] > 0
    /\ call' = Failed(m)
    /\ UNCHANGED <<balancer, gateways, kernel, auxiliary>>

\* apply_dscp of another component, which can come at any time; loading the script
\* adds its chain to the table.  A script that nft refuses is an error.
ApplyDscp ==
    /\ table' = table \cup {"dscp_tagger"}
    /\ UNCHANGED <<balancer, gateways, routes, mark_rules, call, auxiliary>>

\* remove_dscp deletes the same table as teardown_balancing; a failure is logged.
RemoveDscp ==
    /\ table' = {}
    /\ UNCHANGED <<balancer, gateways, routes, mark_rules, call, auxiliary>>

------------------------------------------------------------------------------

\* The scanner reads the gateways from the kernel's default routes: a route of
\* several hops has no interface of its own, so none of its gateways is seen.
Rescan ==
    /\ gateways' = UNION {DOMAIN routes[m].hops :
                             m \in {n \in DOMAIN routes :
                                       Cardinality(DOMAIN routes[n].hops) = 1}}
    /\ UNCHANGED <<balancer, kernel, call, auxiliary>>

\* The process dies, between two commands of a call or of different ones.
Crash ==
    /\ weights' = NoWeights /\ gateways' = {} /\ call' = Idle
    /\ UNCHANGED <<mode, min_health, kernel, auxiliary>>

Next ==
    \/ Return
    \/ \E S \in SUBSET Ifaces : \E health \in [S -> Scores] : ComputeWeights(health)
    \/ SetupEcmp
    \/ \E hops \in {Generated, in_force} \ {NoSet} : TeardownEcmp(hops)
    \/ \E i \in Ifaces : DeleteRoute(i) \/ DeleteRouteFails(i)
    \/ TeardownEcmpAborts
    \/ SetupMarking \/ TeardownMarking
    \/ \E m \in call.todo : AddRule(m) \/ DeleteRule(m) \/ DeleteRuleFails(m)
    \/ ApplyDscp \/ RemoveDscp
    \/ Rescan \/ Crash

Spec == Init /\ [][Next]_vars

------------------------------------------------------------------------------

\* What the weights are for: every viable interface gets traffic, a healthier one
\* never less than another, and together they share the 255 parts, up to one part for
\* each interface that rounding and the least weight can add or take.
SharesFair ==
    [][\A S \in SUBSET Ifaces : \A health \in [S -> Scores] :
           ComputeWeights(health) /\ weights' # NoWeights =>
               /\ \A i \in DOMAIN weights' : weights'[i] > 0
               /\ \A i \in DOMAIN weights', j \in DOMAIN weights' :
                      health[i] >= health[j] => weights'[i] >= weights'[j]
               /\ SumFunction(weights') - 255
                      \in -Cardinality(S) .. Cardinality(S)]_vars

\* After setup_ecmp of several hops, and until they are torn down or set up again, the
\* route of the lowest metric is that set with those weights: whatever routes the host
\* has, whatever sets were there before, through crashes and interleaved scans.
BalancedSetPreferred ==
    in_force # NoSet /\ Cardinality(DOMAIN in_force) > 1 =>
        routes[Min(DOMAIN routes)].hops = in_force

\* A teardown_ecmp that covers the set in force, none of whose commands fails for
\* another reason than a missing route, leaves no route at the set's metric.
TeardownRemovesSet ==
    call.op = "delete routes" /\ call.todo = {} /\ call.ok => 0 \notin DOMAIN routes

\* Each complete teardown takes back one setup: there are never more rules for a mark
\* than setups that no teardown followed, so a setup and a teardown, even with a
\* crash in the setup, leave no rule behind.
RulesTakenBack == \A m \in Marks : mark_rules[m] <= not_undone

==============================================================================
