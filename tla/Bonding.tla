------------------------------- MODULE Bonding -------------------------------
(***************************************************************************)
(* The bond manager (netfusion-core/src/bonding/manager.rs): bond groups   *)
(* in a map behind an async RwLock, and the kernel links and enslavements  *)
(* it makes with the ip command.  create_bond talks to the kernel without  *)
(* the lock and takes it only to insert; delete_bond holds it throughout;  *)
(* update_membership works on the map alone and never touches the kernel.  *)
(***************************************************************************)
EXTENDS Integers, Sequences, SequencesExt

CONSTANTS
    Bonds,    \* names of bond groups
    Ifaces,   \* network interfaces
    Members,  \* BondConfig.members of each group, a sequence
    LinkOf,   \* "netfusion" ++ name without its leading "bond": not injective
    Scores,   \* overall health scores
    Tasks,    \* concurrent callers of create_bond and delete_bond
    Nobody    \* no master, or no holder of the lock

ASSUME BondingAssumption ==
    /\ Members \in [Bonds -> Seq(Ifaces)]
    /\ \A n \in Bonds : IsInjective(Members[n])
    /\ Scores \subseteq Nat
    /\ Nobody \notin Tasks /\ DOMAIN LinkOf = Bonds

Links == {LinkOf[n] : n \in Bonds}

VARIABLES
    bonds,   \* BondManager.bonds
    lock,    \* the task that holds its write lock across await points
    links,   \* bond links that exist in the kernel
    master,  \* the link each interface is enslaved to in the kernel
    task     \* what each caller is doing

mgrVars == <<bonds, lock, links, master, task>>

Idle == [op |-> "idle"]

\* failed_members is never filled, so it is left out; name, mode and
\* bond_interface follow from the key.
BondState ==
    [active_members : Seq(Ifaces), standby_members : Seq(Ifaces),
     failover_active : BOOLEAN]

BondingTypeOK ==
    /\ DOMAIN bonds \subseteq Bonds
    /\ \A n \in DOMAIN bonds : bonds[n] \in BondState
    /\ lock \in Tasks \cup {Nobody}
    /\ links \subseteq Links
    /\ master \in [Ifaces -> Links \cup {Nobody}]
    /\ task \in [Tasks -> {Idle} \cup
                 [op : {"creating", "deleting"}, name : Bonds, rest : Seq(Ifaces)]]

BondingInit ==
    /\ bonds = << >>
    /\ lock = Nobody
    /\ links = {}
    /\ master = [i \in Ifaces |-> Nobody]
    /\ task = [t \in Tasks |-> Idle]

Insert(n, state) ==
    bonds' = [k \in DOMAIN bonds \cup {n} |-> IF k = n THEN state ELSE bonds[k]]

------------------------------------------------------------------------------
(* create_bond *)

\* Mutant: a failing ip link add is only warned about, like the other commands.
CreateBond_IgnoresExisting(t, n) ==
    /\ task[t] = Idle
    /\ links' = links \cup {LinkOf[n]}
    /\ task' = [task EXCEPT ![t] =
                    [op |-> "creating", name |-> n, rest |-> Members[n]]]
    /\ UNCHANGED <<bonds, lock, master>>

\* ip link add: refused while a link of that name exists, whoever made it.
CreateBond(t, n) ==
    /\ task[t] = Idle
    /\ LinkOf[n] \notin links
    /\ links' = links \cup {LinkOf[n]}
    /\ task' = [task EXCEPT ![t] =
                    [op |-> "creating", name |-> n, rest |-> Members[n]]]
    /\ UNCHANGED <<bonds, lock, master>>

\* ip link set m master link: takes m from any earlier master; a failure is only
\* warned about.
EnslaveNext(t) ==
    /\ task[t] # Idle /\ task[t].op = "creating" /\ task[t].rest # << >>
    /\ \/ master' = [master EXCEPT ![Head(task[t].rest)] = LinkOf[task[t].name]]
       \/ UNCHANGED master
    /\ task' = [task EXCEPT ![t].rest = Tail(@)]
    /\ UNCHANGED <<bonds, lock, links>>

\* Mutant: the map is keyed by the kernel name of the bond.
InsertBond_ByLinkName(t) ==
    /\ task[t] # Idle /\ task[t].op = "creating" /\ task[t].rest = << >>
    /\ lock = Nobody
    /\ Insert(LinkOf[task[t].name], [active_members |-> << >>,
                                     standby_members |-> Members[task[t].name],
                                     failover_active |-> FALSE])
    /\ task' = [task EXCEPT ![t] = Idle]
    /\ UNCHANGED <<lock, links, master>>

InsertBond(t) ==
    /\ task[t] # Idle /\ task[t].op = "creating" /\ task[t].rest = << >>
    /\ lock = Nobody
    /\ Insert(task[t].name, [active_members |-> << >>,
                             standby_members |-> Members[task[t].name],
                             failover_active |-> FALSE])
    /\ task' = [task EXCEPT ![t] = Idle]
    /\ UNCHANGED <<lock, links, master>>

------------------------------------------------------------------------------
(* delete_bond: the entry goes first, then the kernel state, under the lock *)

DeleteBond(t, n) ==
    /\ task[t] = Idle /\ lock = Nobody /\ n \in DOMAIN bonds
    /\ lock' = t
    /\ bonds' = [k \in DOMAIN bonds \ {n} |-> bonds[k]]
    /\ task' = [task EXCEPT ![t] =
                    [op |-> "deleting", name |-> n,
                     rest |-> bonds[n].active_members \o bonds[n].standby_members]]
    /\ UNCHANGED <<links, master>>

\* ip link set m nomaster: whatever m is enslaved to by now; failures are ignored.
ReleaseNext(t) ==
    /\ task[t] # Idle /\ task[t].op = "deleting" /\ task[t].rest # << >>
    /\ \/ master' = [master EXCEPT ![Head(task[t].rest)] = Nobody]
       \/ UNCHANGED master
    /\ task' = [task EXCEPT ![t].rest = Tail(@)]
    /\ UNCHANGED <<bonds, lock, links>>

\* ip link del: the kernel frees what is left in it; a failure is only warned about
\* and leaves a link that no bond owns.
DeleteLink(t) ==
    /\ task[t] # Idle /\ task[t].op = "deleting" /\ task[t].rest = << >>
    /\ \/ /\ links' = links \ {LinkOf[task[t].name]}
          /\ master' = [i \in Ifaces |-> IF master[i] = LinkOf[task[t].name]
                                         THEN Nobody ELSE master[i]]
       \/ UNCHANGED <<links, master>>
    /\ lock' = Nobody
    /\ task' = [task EXCEPT ![t] = Idle]
    /\ UNCHANGED bonds

------------------------------------------------------------------------------
(* update_membership *)

\* The members in the order they are scored, standby ones first.
InOrder(state) == state.standby_members \o state.active_members

\* The members that have a score, by their positions.
Scored(all, health) == {k \in DOMAIN all : all[k] \in DOMAIN health}

\* The stable descending sort puts the first of the highest-scored members first.
BestMember(all, health) ==
    all[CHOOSE k \in Scored(all, health) : \A j \in Scored(all, health) :
            \/ health[all[j]] < health[all[k]]
            \/ health[all[j]] = health[all[k]] /\ k <= j]

\* retain: the list s without any m.
Without(s, m) ==
    LET kept[k \in 0 .. Len(s)] ==
            IF k = 0 THEN << >>
            ELSE IF s[k] = m THEN kept[k - 1] ELSE Append(kept[k - 1], s[k])
    IN kept[Len(s)]

\* Mutant: the previous active member is not put back on the standby list.
WithActive_DropsPrevious(state, best) ==
    [active_members |-> <<best>>,
     standby_members |-> Without(state.standby_members, best),
     failover_active |-> TRUE]

\* best becomes the only active member; the one before it joins the standby list, on
\* which it never is already (MembersConserved), so that the code's test for it always
\* finds it missing.  failover_active is set and nothing ever clears it.
WithActive(state, best) ==
    [active_members |-> <<best>>,
     standby_members |-> Without(InOrder(state), best),
     failover_active |-> TRUE]

\* A call that finds no scored member, or the best one active already, changes
\* nothing and is not a step.
UpdateMembership(n, health) ==
    /\ lock = Nobody /\ n \in DOMAIN bonds
    /\ LET best == BestMember(InOrder(bonds[n]), health)
       IN /\ Scored(InOrder(bonds[n]), health) # {}
          /\ bonds[n].active_members # <<best>>
          /\ Insert(n, WithActive(bonds[n], best))
    /\ UNCHANGED <<lock, links, master, task>>

\* The process dies: the map and the callers are gone, the kernel state stays.
Crash ==
    /\ bonds' = << >>
    /\ lock' = Nobody
    /\ task' = [t \in Tasks |-> Idle]
    /\ UNCHANGED <<links, master>>

\* Health maps with a score for some of a bond's members.
HealthMaps(n) ==
    UNION {[S -> Scores] : S \in SUBSET ToSet(Members[n])}

BondingNext ==
    \/ \E t \in Tasks, n \in Bonds : CreateBond(t, n) \/ DeleteBond(t, n)
    \/ \E t \in Tasks : EnslaveNext(t) \/ InsertBond(t) \/ ReleaseNext(t)
                        \/ DeleteLink(t)
    \/ \E n \in Bonds : \E health \in HealthMaps(n) : UpdateMembership(n, health)

------------------------------------------------------------------------------

\* Failovers move members between the two lists and never lose or double one: the
\* group always consists of the configured members, at most one of them active.
MembersConserved ==
    \A n \in DOMAIN bonds :
        LET all == bonds[n].active_members \o bonds[n].standby_members
        IN /\ IsInjective(all)
           /\ ToSet(all) = ToSet(Members[n])
           /\ Len(bonds[n].active_members) <= 1

\* Creating tasks and bonds in the map, each by its name, own their kernel link:
\* it exists, and no other of them has it, even when two names give one link.
Owners(l) ==
    {<<"map", n>> : n \in {k \in DOMAIN bonds : LinkOf[k] = l}} \cup
    {<<"task", t>> : t \in {u \in Tasks : /\ task[u] # Idle
                                          /\ task[u].op = "creating"
                                          /\ LinkOf[task[u].name] = l}}

LinkOwned ==
    \A l \in Links : \A x, y \in Owners(l) : l \in links /\ x = y

==============================================================================
