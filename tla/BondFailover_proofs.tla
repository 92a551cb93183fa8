-------------------------- MODULE BondFailover_proofs --------------------------
(***************************************************************************)
(* Proofs about Bonding and BondFailover, for any bonds and members, any   *)
(* way to name links, any scores, callers, cooldown and threshold.         *)
(***************************************************************************)
EXTENDS BondFailover, SequenceTheorems, WellFoundedInduction, TLAPS

(* Induction on the natural numbers, for sets *)

\* A set of natural numbers has a least element.
LEMMA LeastNat ==
    ASSUME NEW T \in SUBSET Nat, T # {}
    PROVE  \E n \in T : \A m \in T : n <= m
  <1>1. PICK n \in T : \A m \in T : ~(<<m, n>> \in OpToRel(<, Nat))
    BY NatLessThanWellFounded, WFMin, Zenon
  <1>2. \A m \in T : ~(m < n)
    BY <1>1, Zenon DEF OpToRel
  <1> QED BY <1>2

LEMMA InductiveSet ==
    ASSUME NEW S \in SUBSET Nat, 0 \in S, \A n \in S : n + 1 \in S
    PROVE  S = Nat
  <1>1. SUFFICES ASSUME Nat \ S # {} PROVE FALSE
    OBVIOUS
  <1>2. PICK n \in Nat \ S : \A m \in Nat \ S : n <= m
    BY <1>1, LeastNat
  <1>3. n - 1 \in S
    BY <1>2
  <1> QED BY <1>2, <1>3

------------------------------------------------------------------------------
(* The member lists *)

\* What Without defines by recursion, up to position n.
Kept(kept, s, m, n) ==
    kept = [k \in 0 .. n |->
                IF k = 0 THEN << >>
                ELSE IF s[k] = m THEN kept[k - 1] ELSE Append(kept[k - 1], s[k])]

\* There is such a function.
LEMMA KeptExists ==
    ASSUME NEW s, NEW m
    PROVE  \A n \in Nat : \E kept : Kept(kept, s, m, n)
  <1> DEFINE S == {n \in Nat : \E kept : Kept(kept, s, m, n)}
  <1>1. 0 \in S
    <2>1. Kept([k \in 0 .. 0 |-> << >>], s, m, 0)
      BY DEF Kept
    <2> QED BY <2>1
  <1>2. ASSUME NEW n \in S
        PROVE  n + 1 \in S
    <2>1. PICK kept : Kept(kept, s, m, n)
      OBVIOUS
    <2> DEFINE last == IF s[n + 1] = m THEN kept[n] ELSE Append(kept[n], s[n + 1])
               longer == [k \in 0 .. n + 1 |-> IF k = n + 1 THEN last ELSE kept[k]]
               step(k) == IF k = 0 THEN << >>
                          ELSE IF s[k] = m THEN longer[k - 1]
                          ELSE Append(longer[k - 1], s[k])
    <2>2. ASSUME NEW k \in 0 .. n + 1
          PROVE  longer[k] = step(k)
      <3>1. CASE k = n + 1
        BY <3>1
      <3>2. CASE k \in 0 .. n
        <4>1. longer[k] = kept[k] /\ (k # 0 => longer[k - 1] = kept[k - 1])
          BY <3>2
        <4>2. kept[k] = IF k = 0 THEN << >>
                        ELSE IF s[k] = m THEN kept[k - 1] ELSE Append(kept[k - 1], s[k])
          BY <2>1, <3>2 DEF Kept
        <4> QED BY <4>1, <4>2
      <3> QED BY <3>1, <3>2
    <2>3. longer = [k \in 0 .. n + 1 |-> longer[k]]
      OBVIOUS
    <2> HIDE DEF longer
    <2>4. longer = [k \in 0 .. n + 1 |-> step(k)]
      BY <2>2, <2>3
    <2>5. Kept(longer, s, m, n + 1)
      BY <2>4 DEF Kept
    <2> QED BY <2>5
  <1> HIDE DEF S
  <1>3. S = Nat
    BY <1>1, <1>2, InductiveSet DEF S
  <1> QED BY <1>3 DEF S

LEMMA WithoutDef ==
    ASSUME NEW s, NEW m, Len(s) \in Nat
    PROVE  \E kept : Kept(kept, s, m, Len(s)) /\ Without(s, m) = kept[Len(s)]
  <1> DEFINE kept == CHOOSE kept : Kept(kept, s, m, Len(s))
  <1>1. Kept(kept, s, m, Len(s))
    BY KeptExists
  <1>2. Without(s, m) = kept[Len(s)]
    BY DEF Without, Kept
  <1> QED BY <1>1, <1>2

\* Dropping an element from a sequence without repetitions leaves the others, once each.
LEMMA WithoutProperties ==
    ASSUME NEW T, NEW s \in Seq(T), IsInjective(s), NEW m
    PROVE  /\ Without(s, m) \in Seq(T)
           /\ IsInjective(Without(s, m))
           /\ ToSet(Without(s, m)) = ToSet(s) \ {m}
  <1>0. Len(s) \in Nat
    OBVIOUS
  <1>1. PICK kept : Kept(kept, s, m, Len(s)) /\ Without(s, m) = kept[Len(s)]
    BY <1>0, WithoutDef
  <1> DEFINE Good(k) ==
                 /\ kept[k] \in Seq(T)
                 /\ \A i \in 1 .. Len(kept[k]) :
                        \E j \in 1 .. k : s[j] = kept[k][i] /\ s[j] # m
                 /\ \A j \in 1 .. k : s[j] # m => \E i \in 1 .. Len(kept[k]) : kept[k][i] = s[j]
                 /\ \A h, i \in 1 .. Len(kept[k]) : kept[k][h] = kept[k][i] => h = i
             S == {k \in Nat : k <= Len(s) => Good(k)}
  <1>2. 0 \in S
    BY <1>0, <1>1 DEF Kept
  <1>3. ASSUME NEW k \in S
        PROVE  k + 1 \in S
    <2> SUFFICES ASSUME k + 1 <= Len(s)
                 PROVE  Good(k + 1)
      OBVIOUS
    <2>1. Good(k) /\ s[k + 1] \in T /\ k \in 0 .. Len(s) /\ k + 1 \in 1 .. Len(s)
      BY <1>0
    <2>2. kept[k + 1] = IF s[k + 1] = m THEN kept[k] ELSE Append(kept[k], s[k + 1])
      <3>1. k + 1 \in 0 .. Len(s) /\ k + 1 # 0 /\ (k + 1) - 1 = k
        BY <1>0
      <3>2. kept[k + 1] = IF s[k + 1] = m THEN kept[(k + 1) - 1]
                          ELSE Append(kept[(k + 1) - 1], s[k + 1])
        BY <1>1, <3>1 DEF Kept
      <3> QED BY <3>1, <3>2
    <2>3. CASE s[k + 1] = m
      BY <2>1, <2>2, <2>3
    <2>4. CASE s[k + 1] # m
      <3> DEFINE old == kept[k]
                 new == Append(old, s[k + 1])
      <3>1. /\ new \in Seq(T) /\ Len(old) \in Nat /\ Len(new) = Len(old) + 1
            /\ \A i \in 1 .. Len(old) : new[i] = old[i]
            /\ new[Len(old) + 1] = s[k + 1]
        BY <2>1, AppendProperties
      <3>2. \A i \in 1 .. Len(old) : old[i] # s[k + 1]
        <4>1. \A j \in 1 .. k : s[j] # s[k + 1]
          BY <1>0, <2>1 DEF IsInjective
        <4> QED BY <2>1, <4>1
      <3> HIDE DEF new
      <3>3. \A i \in 1 .. Len(new) : \E j \in 1 .. k + 1 : s[j] = new[i] /\ s[j] # m
        <4>1. ASSUME NEW i \in 1 .. Len(old)
              PROVE  \E j \in 1 .. k + 1 : s[j] = new[i] /\ s[j] # m
          <5>1. PICK j \in 1 .. k : s[j] = old[i] /\ s[j] # m
            BY <2>1
          <5>2. j \in 1 .. k + 1
            BY <1>0, <2>1
          <5> QED BY <3>1, <5>1, <5>2
        <4>2. \E j \in 1 .. k + 1 : s[j] = new[Len(old) + 1] /\ s[j] # m
          <5>1. k + 1 \in 1 .. k + 1
            BY <2>1
          <5> QED BY <2>4, <3>1, <5>1
        <4>3. \A i \in 1 .. Len(new) : i \in 1 .. Len(old) \/ i = Len(old) + 1
          BY <3>1
        <4> HIDE DEF old
        <4> QED BY <4>1, <4>2, <4>3, Zenon
      <3>4. \A j \in 1 .. k + 1 : s[j] # m => \E i \in 1 .. Len(new) : new[i] = s[j]
        <4> SUFFICES ASSUME NEW j \in 1 .. k + 1, s[j] # m
                     PROVE  \E i \in 1 .. Len(new) : new[i] = s[j]
          OBVIOUS
        <4>1. CASE j = k + 1
          <5>1. Len(old) + 1 \in 1 .. Len(new)
            BY <3>1
          <5> QED BY <3>1, <4>1, <5>1
        <4>2. CASE j # k + 1
          <5>1. j \in 1 .. k
            BY <2>1, <4>2
          <5>2. PICK i \in 1 .. Len(old) : old[i] = s[j]
            BY <2>1, <5>1
          <5>3. i \in 1 .. Len(new)
            BY <3>1
          <5> QED BY <3>1, <5>2, <5>3
        <4> QED BY <4>1, <4>2
      <3>5. \A h, i \in 1 .. Len(new) : new[h] = new[i] => h = i
        <4> SUFFICES ASSUME NEW h \in 1 .. Len(new), NEW i \in 1 .. Len(new), new[h] = new[i]
                     PROVE  h = i
          OBVIOUS
        <4>1. /\ h \in 1 .. Len(old) \/ h = Len(old) + 1
              /\ i \in 1 .. Len(old) \/ i = Len(old) + 1
          BY <3>1
        <4>2. CASE h \in 1 .. Len(old) /\ i \in 1 .. Len(old)
          <5>1. old[h] = old[i]
            BY <3>1, <4>2
          <5> QED BY <2>1, <4>2, <5>1
        <4>3. CASE h \in 1 .. Len(old) /\ i = Len(old) + 1
          BY <3>1, <3>2, <4>3
        <4>4. CASE h = Len(old) + 1 /\ i \in 1 .. Len(old)
          BY <3>1, <3>2, <4>4
        <4>5. CASE h = Len(old) + 1 /\ i = Len(old) + 1
          BY <4>5
        <4> HIDE DEF old
        <4> QED BY <4>1, <4>2, <4>3, <4>4, <4>5
      <3>6. kept[k + 1] = new
        BY <2>2, <2>4 DEF new
      <3> QED BY <3>1, <3>3, <3>4, <3>5, <3>6
    <2> QED BY <2>3, <2>4
  <1> HIDE DEF S
  <1>4. Len(s) \in S
    BY <1>0, <1>2, <1>3, InductiveSet DEF S
  <1>5. Good(Len(s))
    BY <1>0, <1>4 DEF S
  <1>6. Without(s, m) = kept[Len(s)] /\ DOMAIN s = 1 .. Len(s)
    BY <1>1
  <1>7. DOMAIN Without(s, m) = 1 .. Len(Without(s, m))
    BY <1>5, <1>6
  <1>8. IsInjective(Without(s, m))
    BY <1>5, <1>6, <1>7 DEF IsInjective
  <1>9. ToSet(Without(s, m)) = ToSet(s) \ {m}
    <2> DEFINE w == Without(s, m)
    <2>1. \A i \in DOMAIN w : \E j \in DOMAIN s : s[j] = w[i] /\ s[j] # m
      <3>1. \A i \in 1 .. Len(kept[Len(s)]) :
                \E j \in 1 .. Len(s) : s[j] = kept[Len(s)][i] /\ s[j] # m
        BY <1>5
      <3> QED BY <1>6, <1>7, <3>1, Zenon
    <2>2. \A j \in DOMAIN s : s[j] # m => \E i \in DOMAIN w : w[i] = s[j]
      <3>1. \A j \in 1 .. Len(s) :
                s[j] # m => \E i \in 1 .. Len(kept[Len(s)]) : kept[Len(s)][i] = s[j]
        BY <1>5
      <3> QED BY <1>6, <1>7, <3>1, Zenon
    <2> HIDE DEF w
    <2>3. ToSet(w) = ToSet(s) \ {m}
      BY <2>1, <2>2 DEF ToSet
    <2> QED BY <2>3 DEF w
  <1> QED BY <1>5, <1>6, <1>8, <1>9

\* Among finitely many positions with scores there is a first one of the highest score.
LEMMA FirstBestExists ==
    ASSUME NEW P \in SUBSET (Nat \ {0}), NEW n \in Nat, P \subseteq 1 .. n, P # {},
           NEW score, \A k \in P : score[k] \in Nat
    PROVE  \E k \in P : \A j \in P : \/ score[j] < score[k]
                                     \/ score[j] = score[k] /\ k <= j
  <1> DEFINE First(k, Q) == \A j \in Q : \/ score[j] < score[k]
                                         \/ score[j] = score[k] /\ k <= j
             S == {m \in Nat : P \cap 1 .. m # {} =>
                                 \E k \in P \cap 1 .. m : First(k, P \cap 1 .. m)}
  <1>1. 0 \in S
    OBVIOUS
  <1>2. ASSUME NEW m \in S
        PROVE  m + 1 \in S
    <2>0. m \in Nat /\ 1 .. m + 1 = (1 .. m) \cup {m + 1}
      OBVIOUS
    <2>1. CASE m + 1 \notin P
      <3>1. P \cap 1 .. m + 1 = P \cap 1 .. m
        BY <2>0, <2>1
      <3> QED BY <3>1
    <2>2. CASE m + 1 \in P /\ P \cap 1 .. m = {}
      <3>1. P \cap 1 .. m + 1 = {m + 1}
        BY <2>0, <2>2
      <3>2. First(m + 1, P \cap 1 .. m + 1)
        BY <3>1, <2>2
      <3> QED BY <3>1, <3>2
    <2>3. CASE m + 1 \in P /\ P \cap 1 .. m # {}
      <3>1. PICK k \in P \cap 1 .. m : First(k, P \cap 1 .. m)
        BY <2>3
      <3>2. CASE score[m + 1] > score[k]
        <4>1. \A j \in P \cap 1 .. m : score[j] <= score[k]
          BY <3>1
        <4>2. First(m + 1, P \cap 1 .. m + 1)
          BY <2>0, <2>3, <3>1, <3>2, <4>1
        <4> QED BY <2>0, <2>3, <4>2
      <3>3. CASE score[m + 1] <= score[k]
        <4>1. First(k, P \cap 1 .. m + 1)
          BY <2>0, <2>3, <3>1, <3>3
        <4> QED BY <2>0, <3>1, <4>1
      <3> QED BY <2>3, <3>1, <3>2, <3>3
    <2> QED BY <2>1, <2>2, <2>3
  <1> HIDE DEF S
  <1>3. n \in S
    BY <1>1, <1>2, InductiveSet DEF S
  <1>4. P \cap 1 .. n = P
    OBVIOUS
  <1> QED BY <1>3, <1>4 DEF S

\* The member chosen is one of the members scored.
LEMMA BestIsMember ==
    ASSUME NEW all \in Seq(Ifaces), NEW D, NEW health \in [D -> Scores],
           Scored(all, health) # {}
    PROVE  BestMember(all, health) \in ToSet(all)
  <1> DEFINE P == Scored(all, health)
             score == [k \in P |-> health[all[k]]]
             Best(k) == \A j \in P : \/ health[all[j]] < health[all[k]]
                                     \/ health[all[j]] = health[all[k]] /\ k <= j
  <1>1. P \subseteq 1 .. Len(all) /\ Len(all) \in Nat /\ DOMAIN all = 1 .. Len(all)
    BY DEF Scored
  <1>2. \A k \in P : score[k] \in Nat
    BY BondingAssumption DEF Scored
  <1>3. \E k \in P : \A j \in P :
            score[j] < score[k] \/ (score[j] = score[k] /\ k <= j)
    <2>1. P \in SUBSET (Nat \ {0}) /\ P # {}
      BY <1>1
    <2>2. PICK n \in Nat : P \subseteq 1 .. n
      BY <1>1
    <2> HIDE DEF P, score
    <2> QED BY <1>2, <2>1, <2>2, FirstBestExists, Zenon
  <1>4. \E k \in P : Best(k)
    BY <1>3
  <1>5. (CHOOSE k \in P : Best(k)) \in P
    BY <1>4
  <1>6. BestMember(all, health) = all[CHOOSE k \in P : Best(k)]
    BY DEF BestMember
  <1> HIDE DEF P, Best
  <1> QED BY <1>1, <1>5, <1>6 DEF ToSet

\* The group that holds the configured members of n, each once, one active at most.
Conserved(state, n) ==
    LET all == state.active_members \o state.standby_members
    IN /\ IsInjective(all)
       /\ ToSet(all) = ToSet(Members[n])
       /\ Len(state.active_members) <= 1

\* The two orders in which the lists are joined have the same members.
LEMMA JoinedEitherWay ==
    ASSUME NEW a \in Seq(Ifaces), NEW b \in Seq(Ifaces), IsInjective(a \o b)
    PROVE  /\ b \o a \in Seq(Ifaces)
           /\ IsInjective(b \o a)
           /\ ToSet(b \o a) = ToSet(a \o b)
  <1>1. /\ a \o b \in Seq(Ifaces) /\ Len(a \o b) = Len(a) + Len(b)
        /\ b \o a \in Seq(Ifaces) /\ Len(b \o a) = Len(b) + Len(a)
        /\ Len(a) \in Nat /\ Len(b) \in Nat
        /\ DOMAIN (a \o b) = 1 .. Len(a) + Len(b)
        /\ DOMAIN (b \o a) = 1 .. Len(b) + Len(a)
    BY ConcatProperties, LenProperties
  <1> DEFINE turn(i) == IF i <= Len(b) THEN Len(a) + i ELSE i - Len(b)
             back(i) == IF i <= Len(a) THEN Len(b) + i ELSE i - Len(a)
  <1>2. \A i \in DOMAIN (b \o a) : turn(i) \in DOMAIN (a \o b) /\ (b \o a)[i] = (a \o b)[turn(i)]
    BY <1>1, ConcatProperties
  <1>3. \A i \in DOMAIN (a \o b) : back(i) \in DOMAIN (b \o a) /\ (a \o b)[i] = (b \o a)[back(i)]
    BY <1>1, ConcatProperties
  <1>4. \A h, i \in DOMAIN (b \o a) : turn(h) = turn(i) => h = i
    BY <1>1
  <1> HIDE DEF turn, back
  <1>5. IsInjective(b \o a)
    BY <1>2, <1>4 DEF IsInjective
  <1>6. ToSet(b \o a) = ToSet(a \o b)
    <2> DEFINE ab == a \o b
               ba == b \o a
    <2>1. /\ \A i \in DOMAIN ba : \E j \in DOMAIN ab : ba[i] = ab[j]
          /\ \A i \in DOMAIN ab : \E j \in DOMAIN ba : ab[i] = ba[j]
      BY <1>2, <1>3
    <2> HIDE DEF ab, ba
    <2>2. ToSet(ba) = ToSet(ab)
      BY <2>1 DEF ToSet
    <2> QED BY <2>2 DEF ab, ba
  <1> QED BY <1>1, <1>5, <1>6

\* A failover to one of its members keeps a group together.
LEMMA FailoverConserves ==
    ASSUME NEW n \in Bonds, NEW state \in BondState, Conserved(state, n),
           NEW best \in ToSet(InOrder(state))
    PROVE  WithActive(state, best) \in BondState /\ Conserved(WithActive(state, best), n)
  <1> DEFINE all == InOrder(state)
             rest == Without(all, best)
  <1>1. state.active_members \in Seq(Ifaces) /\ state.standby_members \in Seq(Ifaces)
    BY DEF BondState
  <1>2. /\ all \in Seq(Ifaces) /\ IsInjective(all)
        /\ ToSet(all) = ToSet(Members[n])
    BY <1>1, JoinedEitherWay DEF Conserved, InOrder
  <1>3. /\ rest \in Seq(Ifaces) /\ IsInjective(rest)
        /\ ToSet(rest) = ToSet(all) \ {best}
    BY <1>2, WithoutProperties
  <1>4. best \in Ifaces /\ <<best>> \in Seq(Ifaces) /\ Len(<<best>>) = 1 /\ <<best>>[1] = best
    BY <1>2 DEF ToSet
  <1> DEFINE new == <<best>> \o rest
  <1>5. /\ new \in Seq(Ifaces) /\ DOMAIN new = 1 .. 1 + Len(rest) /\ Len(rest) \in Nat
        /\ new[1] = best
        /\ \A i \in 2 .. 1 + Len(rest) : i - 1 \in DOMAIN rest /\ new[i] = rest[i - 1]
        /\ \A i \in DOMAIN rest : i + 1 \in DOMAIN new /\ new[i + 1] = rest[i]
    BY <1>3, <1>4, ConcatProperties, LenProperties
  <1> HIDE DEF new, rest, all
  <1>6. \A i \in DOMAIN rest : rest[i] # best
    BY <1>3 DEF ToSet
  <1>7. IsInjective(new)
    <2> SUFFICES ASSUME NEW h \in DOMAIN new, NEW i \in DOMAIN new, new[h] = new[i]
                 PROVE  h = i
      BY DEF IsInjective
    <2>1. CASE h = 1 \/ i = 1
      BY <2>1, <1>5, <1>6
    <2>2. CASE h # 1 /\ i # 1
      <3>1. h - 1 \in DOMAIN rest /\ i - 1 \in DOMAIN rest /\ rest[h - 1] = rest[i - 1]
        BY <2>2, <1>5
      <3>2. h - 1 = i - 1
        BY <3>1, <1>3 DEF IsInjective
      <3> QED BY <3>2, <1>5
    <2> QED BY <2>1, <2>2
  <1>8. ToSet(new) = ToSet(rest) \cup {best}
    <2>1. ASSUME NEW i \in DOMAIN new
          PROVE  new[i] = best \/ new[i] \in ToSet(rest)
      <3>1. CASE i = 1
        BY <1>5, <3>1
      <3>2. CASE i # 1
        <4>1. i \in 2 .. 1 + Len(rest)
          BY <1>5, <3>2
        <4>2. i - 1 \in DOMAIN rest /\ new[i] = rest[i - 1]
          BY <1>5, <4>1
        <4>3. rest[i - 1] \in ToSet(rest)
          BY <4>2, Zenon DEF ToSet
        <4> QED BY <4>2, <4>3
      <3> QED BY <3>1, <3>2
    <2>2. 1 \in DOMAIN new /\ \A i \in DOMAIN rest : \E j \in DOMAIN new : new[j] = rest[i]
      BY <1>5
    <2>3. best \in ToSet(new)
      BY <1>5, <2>2 DEF ToSet
    <2>4. \A e \in ToSet(rest) : e \in ToSet(new)
      BY <2>2 DEF ToSet
    <2>5. \A e \in ToSet(new) : e = best \/ e \in ToSet(rest)
      BY <2>1 DEF ToSet
    <2> QED BY <2>3, <2>4, <2>5
  <1>9. ToSet(new) = ToSet(Members[n])
    BY <1>2, <1>3, <1>8 DEF all
  <1>10. /\ WithActive(state, best).active_members = <<best>>
         /\ WithActive(state, best).standby_members = rest
    BY DEF WithActive, rest, all
  <1>11. WithActive(state, best) \in BondState
    BY <1>3, <1>4 DEF WithActive, BondState, rest, all
  <1> QED BY <1>4, <1>7, <1>9, <1>10, <1>11 DEF Conserved, new

------------------------------------------------------------------------------
(* The inductive invariant *)

Busy(t) == task[t] # Idle

\* Bonds in the map and callers at work, those that delete included, hold their kernel
\* link: it exists, and it is nobody else's.  A deletion keeps the link busy until ip link
\* del, so that no create_bond of the same link name can begin in between.
LinksHeld ==
    /\ \A n \in DOMAIN bonds : LinkOf[n] \in links
    /\ \A t \in Tasks : Busy(t) => LinkOf[task[t].name] \in links
    /\ \A m, n \in DOMAIN bonds : LinkOf[m] = LinkOf[n] => m = n
    /\ \A t, u \in Tasks :
          Busy(t) /\ Busy(u) /\ LinkOf[task[t].name] = LinkOf[task[u].name] => t = u
    /\ \A n \in DOMAIN bonds, t \in Tasks : Busy(t) => LinkOf[n] # LinkOf[task[t].name]

\* What subscribers saw of a bond is what the engine remembers of it.
Stamped == announced = last_failover

IInv == TypeOK /\ MembersConserved /\ LinksHeld /\ Stamped

LEMMA InitInv == Init => IInv
  <1> SUFFICES ASSUME Init PROVE IInv
    OBVIOUS
  <1> USE DEF Init, BondingInit, EngineInit
  <1>1. TypeOK
    BY FailoverAssumption DEF TypeOK, BondingTypeOK, Ages, Never
  <1>2. MembersConserved
    BY DEF MembersConserved
  <1>3. LinksHeld
    BY DEF LinksHeld, Busy
  <1> QED BY <1>1, <1>2, <1>3 DEF IInv, Stamped

------------------------------------------------------------------------------
(* The manager: what its steps do to types, links and members *)

\* A task that holds a name does so in one of two operations.
LEMMA BusyTypes ==
    ASSUME BondingTypeOK, NEW t \in Tasks, Busy(t)
    PROVE  /\ task[t] \in [op : {"creating", "deleting"}, name : Bonds, rest : Seq(Ifaces)]
           /\ LinkOf[task[t].name] \in Links
  BY BondingAssumption DEF BondingTypeOK, Busy, Links

\* A step that keeps what everybody holds keeps the links held.
LEMMA SameHolders ==
    ASSUME LinksHeld, links' = links, DOMAIN bonds' = DOMAIN bonds,
           \A t \in Tasks : (Busy(t)' => Busy(t) /\ task'[t].name = task[t].name)
    PROVE  LinksHeld'
  BY DEF LinksHeld, Busy

LEMMA CreateBondInv ==
    ASSUME BondingTypeOK, LinksHeld, NEW t \in Tasks, NEW n \in Bonds, CreateBond(t, n)
    PROVE  BondingTypeOK' /\ LinksHeld'
  <1> DEFINE new == [op |-> "creating", name |-> n, rest |-> Members[n]]
  <1>1. new \in [op : {"creating", "deleting"}, name : Bonds, rest : Seq(Ifaces)]
    BY BondingAssumption
  <1>2. /\ LinkOf[n] \notin links /\ links' = links \cup {LinkOf[n]}
        /\ task' = [task EXCEPT ![t] = new]
        /\ UNCHANGED <<bonds, lock, master>>
    BY DEF CreateBond
  <1>3. LinkOf[n] \in Links
    BY DEF Links
  <1>4. BondingTypeOK'
    <2> HIDE DEF new
    <2> QED BY <1>1, <1>2, <1>3 DEF BondingTypeOK
  <1>5. /\ task'[t].name = n /\ \A u \in Tasks \ {t} : task'[u] = task[u]
    BY <1>2 DEF BondingTypeOK
  <1>6. LinksHeld'
    BY <1>2, <1>5 DEF LinksHeld, Busy
  <1> QED BY <1>4, <1>6

\* EnslaveNext and ReleaseNext only shorten what a task has still to do.
LEMMA MemberStepInv ==
    ASSUME BondingTypeOK, LinksHeld, NEW t \in Tasks, EnslaveNext(t) \/ ReleaseNext(t)
    PROVE  BondingTypeOK' /\ LinksHeld' /\ UNCHANGED bonds
  <1>1. /\ Busy(t) /\ task[t].rest # << >>
        /\ task' = [task EXCEPT ![t].rest = Tail(@)]
        /\ UNCHANGED <<bonds, lock, links>>
    BY DEF EnslaveNext, ReleaseNext, Busy
  <1>2. /\ task[t] \in [op : {"creating", "deleting"}, name : Bonds, rest : Seq(Ifaces)]
        /\ LinkOf[task[t].name] \in Links
    BY <1>1, BusyTypes
  <1>3. master' \in [Ifaces -> Links \cup {Nobody}]
    BY <1>2 DEF EnslaveNext, ReleaseNext, BondingTypeOK
  <1> DEFINE new == [task[t] EXCEPT !.rest = Tail(task[t].rest)]
  <1>4. /\ new \in [op : {"creating", "deleting"}, name : Bonds, rest : Seq(Ifaces)]
        /\ new.name = task[t].name
    BY <1>1, <1>2, HeadTailProperties
  <1>5. task' = [task EXCEPT ![t] = new]
    BY <1>1
  <1> HIDE DEF new
  <1>6. BondingTypeOK'
    <2>1. task' \in [Tasks -> {Idle} \cup
                 [op : {"creating", "deleting"}, name : Bonds, rest : Seq(Ifaces)]]
      BY <1>4, <1>5 DEF BondingTypeOK
    <2> QED BY <1>1, <1>3, <2>1 DEF BondingTypeOK
  <1>7. \A u \in Tasks : Busy(u)' => Busy(u) /\ task'[u].name = task[u].name
    BY <1>1, <1>4, <1>5 DEF Busy, BondingTypeOK
  <1> QED BY <1>1, <1>6, <1>7, SameHolders

\* A new group has all its members on standby, and the link its creator held.
LEMMA InsertBondInv ==
    ASSUME BondingTypeOK, LinksHeld, MembersConserved, NEW t \in Tasks, InsertBond(t)
    PROVE  BondingTypeOK' /\ LinksHeld' /\ MembersConserved'
  <1> DEFINE n == task[t].name
             new == [active_members |-> << >>, standby_members |-> Members[n],
                     failover_active |-> FALSE]
  <1>1. /\ Busy(t) /\ task' = [task EXCEPT ![t] = Idle]
        /\ bonds' = [k \in DOMAIN bonds \cup {n} |-> IF k = n THEN new ELSE bonds[k]]
        /\ UNCHANGED <<lock, links, master>>
    BY DEF InsertBond, Insert, Busy
  <1>2. n \in Bonds /\ Members[n] \in Seq(Ifaces) /\ IsInjective(Members[n])
    BY <1>1, BusyTypes, BondingAssumption
  <1>3. new \in BondState
    BY <1>2 DEF BondState
  <1>4. << >> \o Members[n] = Members[n] /\ Len(<< >>) <= 1
    BY <1>2
  <1>5. Conserved(new, n)
    BY <1>2, <1>4 DEF Conserved
  <1>6. \A k \in DOMAIN bonds : Conserved(bonds[k], k)
    BY DEF MembersConserved, Conserved
  <1> HIDE DEF new, n
  <1>7. DOMAIN bonds' = DOMAIN bonds \cup {n}
    BY <1>1
  <1>8. \A k \in DOMAIN bonds' : \/ bonds'[k] = new /\ k = n
                                 \/ bonds'[k] = bonds[k] /\ k \in DOMAIN bonds
    BY <1>1
  <1>9. MembersConserved'
    BY <1>5, <1>6, <1>8 DEF MembersConserved, Conserved
  <1>10. BondingTypeOK'
    BY <1>1, <1>2, <1>3, <1>7, <1>8 DEF BondingTypeOK
  <1>11. \A u \in Tasks : Busy(u)' => Busy(u) /\ u # t /\ task'[u] = task[u]
    BY <1>1 DEF Busy, BondingTypeOK
  <1>12. LinksHeld'
    BY <1>1, <1>7, <1>11 DEF LinksHeld, n
  <1> QED BY <1>9, <1>10, <1>12

\* A deletion takes the group out of the map and its link over.
LEMMA DeleteBondInv ==
    ASSUME BondingTypeOK, LinksHeld, MembersConserved,
           NEW t \in Tasks, NEW n \in Bonds, DeleteBond(t, n)
    PROVE  BondingTypeOK' /\ LinksHeld' /\ MembersConserved'
  <1> DEFINE new == [op |-> "deleting", name |-> n,
                     rest |-> bonds[n].active_members \o bonds[n].standby_members]
  <1>1. /\ ~Busy(t) /\ n \in DOMAIN bonds /\ lock' = t
        /\ bonds' = [k \in DOMAIN bonds \ {n} |-> bonds[k]]
        /\ task' = [task EXCEPT ![t] = new]
        /\ UNCHANGED <<links, master>>
    BY DEF DeleteBond, Busy
  <1>2. bonds[n].active_members \in Seq(Ifaces) /\ bonds[n].standby_members \in Seq(Ifaces)
    BY <1>1 DEF BondingTypeOK, BondState
  <1>3. /\ new \in [op : {"creating", "deleting"}, name : Bonds, rest : Seq(Ifaces)]
        /\ new.name = n
    BY <1>2, ConcatProperties
  <1> HIDE DEF new
  <1>4. DOMAIN bonds' = DOMAIN bonds \ {n} /\ \A k \in DOMAIN bonds' : bonds'[k] = bonds[k]
    BY <1>1
  <1>5. BondingTypeOK'
    BY <1>1, <1>3, <1>4 DEF BondingTypeOK
  <1>6. MembersConserved'
    BY <1>4 DEF MembersConserved
  <1>7. task'[t].name = n /\ \A u \in Tasks \ {t} : task'[u] = task[u]
    BY <1>1, <1>3 DEF BondingTypeOK
  <1>8. \A u \in Tasks : Busy(u)' => u = t \/ (Busy(u) /\ task'[u].name = task[u].name)
    BY <1>7 DEF Busy
  <1>9. LinksHeld'
    BY <1>1, <1>4, <1>7, <1>8 DEF LinksHeld
  <1> QED BY <1>5, <1>6, <1>9

\* The link goes, or stays behind, when nobody holds it any more but the task that ends.
LEMMA DeleteLinkInv ==
    ASSUME BondingTypeOK, LinksHeld, MembersConserved, NEW t \in Tasks, DeleteLink(t)
    PROVE  BondingTypeOK' /\ LinksHeld' /\ MembersConserved'
  <1>1. /\ Busy(t) /\ lock' = Nobody /\ task' = [task EXCEPT ![t] = Idle]
        /\ UNCHANGED bonds
        /\ links' = links \ {LinkOf[task[t].name]} \/ links' = links
    BY DEF DeleteLink, Busy
  <1>2. master' \in [Ifaces -> Links \cup {Nobody}]
    BY DEF DeleteLink, BondingTypeOK
  <1>3. BondingTypeOK'
    BY <1>1, <1>2 DEF BondingTypeOK
  <1>4. MembersConserved'
    BY <1>1 DEF MembersConserved
  <1>5. \A u \in Tasks : Busy(u)' => Busy(u) /\ u # t /\ task'[u] = task[u]
    BY <1>1 DEF Busy, BondingTypeOK
  <1>6. LinksHeld'
    BY <1>1, <1>5 DEF LinksHeld
  <1> QED BY <1>3, <1>4, <1>6

LEMMA UpdateMembershipInv ==
    ASSUME BondingTypeOK, LinksHeld, MembersConserved,
           NEW n \in Bonds, NEW health \in HealthMaps(n), UpdateMembership(n, health)
    PROVE  BondingTypeOK' /\ LinksHeld' /\ MembersConserved'
  <1> DEFINE all == InOrder(bonds[n])
             best == BestMember(all, health)
             new == WithActive(bonds[n], best)
  <1>1. /\ n \in DOMAIN bonds /\ Scored(all, health) # {}
        /\ bonds' = [k \in DOMAIN bonds \cup {n} |-> IF k = n THEN new ELSE bonds[k]]
        /\ UNCHANGED <<lock, links, master, task>>
    BY DEF UpdateMembership, Insert
  <1>2. bonds[n] \in BondState /\ Conserved(bonds[n], n)
    BY <1>1 DEF BondingTypeOK, MembersConserved, Conserved
  <1>3. all \in Seq(Ifaces)
    BY <1>2, ConcatProperties DEF BondState, InOrder
  <1>4. PICK D : health \in [D -> Scores]
    BY DEF HealthMaps
  <1>5. best \in ToSet(all)
    BY <1>1, <1>3, <1>4, BestIsMember
  <1>6. new \in BondState /\ Conserved(new, n)
    BY <1>2, <1>5, FailoverConserves
  <1>7. \A k \in DOMAIN bonds : Conserved(bonds[k], k)
    BY DEF MembersConserved, Conserved
  <1> HIDE DEF new, best, all
  <1>8. /\ DOMAIN bonds' = DOMAIN bonds
        /\ \A k \in DOMAIN bonds' : (bonds'[k] = new /\ k = n) \/ bonds'[k] = bonds[k]
    BY <1>1
  <1>9. MembersConserved'
    BY <1>6, <1>7, <1>8 DEF MembersConserved, Conserved
  <1>10. BondingTypeOK'
    BY <1>1, <1>6, <1>8 DEF BondingTypeOK
  <1>11. LinksHeld'
    BY <1>1, <1>8, SameHolders DEF Busy
  <1> QED BY <1>9, <1>10, <1>11

\* The daemon dies: nobody holds anything, and the links stay.
LEMMA CrashInv ==
    ASSUME BondingTypeOK, Crash
    PROVE  BondingTypeOK' /\ LinksHeld' /\ MembersConserved'
  BY DEF Crash, BondingTypeOK, LinksHeld, Busy, MembersConserved

LEMMA BondingStepInv ==
    ASSUME BondingTypeOK, LinksHeld, MembersConserved, BondingNext
    PROVE  BondingTypeOK' /\ LinksHeld' /\ MembersConserved'
  <1>1. ASSUME NEW t \in Tasks, NEW n \in Bonds, CreateBond(t, n)
        PROVE  BondingTypeOK' /\ LinksHeld' /\ MembersConserved'
    <2>1. UNCHANGED bonds
      BY <1>1 DEF CreateBond
    <2> QED BY <1>1, <2>1, CreateBondInv DEF MembersConserved
  <1>2. ASSUME NEW t \in Tasks, EnslaveNext(t) \/ ReleaseNext(t)
        PROVE  BondingTypeOK' /\ LinksHeld' /\ MembersConserved'
    BY <1>2, MemberStepInv DEF MembersConserved
  <1> QED BY <1>1, <1>2, InsertBondInv, DeleteBondInv, DeleteLinkInv, UpdateMembershipInv
          DEF BondingNext

------------------------------------------------------------------------------
(* The engine *)

\* An evaluation stamps what it announces.
LEMMA EvaluationStamps ==
    ASSUME TypeOK, Stamped, EvaluateFailover
    PROVE  /\ last_failover' \in [Bonds -> Ages]
           /\ announced' = last_failover'
  <1>1. announced = last_failover /\ 0 \in Ages
    BY FailoverAssumption DEF Stamped, Ages, Never
  <1> QED BY <1>1 DEF EvaluateFailover, TypeOK

\* The count of bad readings stops at the threshold.
LEMMA ReadingTypes ==
    ASSUME TypeOK, NEW i \in Ifaces, NEW s \in Scores, ProcessHealthUpdate(i, s)
    PROVE  bad_readings' \in [Ifaces -> 0 .. BadReadingThreshold]
  BY FailoverAssumption DEF ProcessHealthUpdate, TypeOK

LEMMA OlderType ==
    ASSUME NEW age \in Ages
    PROVE  Older(age) \in Ages
  BY FailoverAssumption DEF Older, Ages, Never

LEMMA EngineStepInv ==
    ASSUME IInv, EngineNext
    PROVE  IInv'
  <1>1. UNCHANGED mgrVars
    BY DEF EngineNext, ProcessHealthUpdate, IntervalTick, TimePasses
  <1>2. BondingTypeOK' /\ LinksHeld' /\ MembersConserved'
    BY <1>1 DEF IInv, TypeOK, mgrVars, BondingTypeOK, LinksHeld, Busy, MembersConserved
  <1>3. CASE \E i \in Ifaces, s \in Scores : ProcessHealthUpdate(i, s)
    BY <1>2, <1>3, EvaluationStamps, ReadingTypes DEF ProcessHealthUpdate, IInv, TypeOK, Stamped
  <1>4. CASE IntervalTick
    BY <1>2, <1>4, EvaluationStamps DEF IntervalTick, IInv, TypeOK, Stamped
  <1>5. CASE TimePasses
    BY <1>2, <1>5, OlderType DEF TimePasses, IInv, TypeOK, Stamped
  <1> QED BY <1>3, <1>4, <1>5 DEF EngineNext

LEMMA StepInv ==
    ASSUME IInv, [Next]_vars
    PROVE  IInv'
  <1> USE DEF IInv, TypeOK, Stamped
  <1>1. CASE BondingNext /\ UNCHANGED engineVars
    BY <1>1, BondingStepInv DEF engineVars
  <1>2. CASE CrashAll
    BY <1>2, CrashInv, FailoverAssumption DEF CrashAll, Ages, Never
  <1>3. CASE UNCHANGED vars
    BY <1>3 DEF vars, mgrVars, engineVars, BondingTypeOK, LinksHeld, Busy, MembersConserved
  <1> QED BY <1>1, <1>2, <1>3, EngineStepInv DEF Next

THEOREM Invariance == Spec => []IInv
  BY InitInv, StepInv, PTL DEF Spec

\* The map, its lock, the kernel and the engine's clocks keep their types, for any bonds,
\* members, scores and callers (BondManager, FailoverEngine).
THEOREM TypeCorrect == Spec => []TypeOK
  BY Invariance, PTL DEF IInv

\* update_membership moves members between the two lists and neither loses nor doubles
\* one, for member lists of any length and any scores.
THEOREM MembersCorrect == Spec => []MembersConserved
  BY Invariance, PTL DEF IInv

\* A link that create_bond made belongs to one bond or creating caller as long as one of
\* them is there, for any number of concurrent create_bond and delete_bond calls, any names
\* that share a link, and through failures and crashes.
THEOREM LinksCorrect == Spec => []LinkOwned
  <1>1. IInv => LinkOwned
    <2> SUFFICES ASSUME IInv, NEW l \in Links, NEW x \in Owners(l), NEW y \in Owners(l)
                 PROVE  l \in links /\ x = y
      BY DEF LinkOwned
    <2>1. ASSUME NEW z \in Owners(l)
          PROVE  \/ \E n \in DOMAIN bonds : z = <<"map", n>> /\ LinkOf[n] = l
                 \/ \E t \in Tasks : z = <<"task", t>> /\ Busy(t) /\ LinkOf[task[t].name] = l
      BY <2>1 DEF Owners, Busy
    <2> QED BY <2>1 DEF IInv, LinksHeld
  <1> QED BY <1>1, Invariance, PTL

\* Two announcements of one bond are at least the cooldown apart, whatever evaluations the
\* tick and the health updates bring (evaluate_failover).
THEOREM SpacingCorrect == Spec => []AnnouncementsSpaced
  <1>1. IInv => AnnouncementsSpaced
    BY DEF IInv, Stamped, AnnouncementsSpaced, Due
  <1> QED BY <1>1, Invariance, PTL

\* No interface is enslaved to a link that is gone.
MastersExist == \A i \in Ifaces : master[i] = Nobody \/ master[i] \in links

LEMMA MastersStep ==
    ASSUME IInv, MastersExist, [Next]_vars
    PROVE  MastersExist'
  <1> USE DEF MastersExist
  <1>1. /\ master \in [Ifaces -> Links \cup {Nobody}]
        /\ \A t \in Tasks : Busy(t) => LinkOf[task[t].name] \in links
    BY DEF IInv, TypeOK, BondingTypeOK, LinksHeld
  <1>2. CASE UNCHANGED <<links, master>>
    BY <1>2
  <1>3. ASSUME NEW t \in Tasks, NEW n \in Bonds, CreateBond(t, n)
        PROVE  MastersExist'
    BY <1>3 DEF CreateBond
  <1>4. ASSUME NEW t \in Tasks, EnslaveNext(t) \/ ReleaseNext(t)
        PROVE  MastersExist'
    <2>1. Busy(t) /\ UNCHANGED links
      BY <1>4 DEF EnslaveNext, ReleaseNext, Busy
    <2>2. \A i \in Ifaces : master'[i] \in {master[i], Nobody, LinkOf[task[t].name]}
      BY <1>1, <1>4 DEF EnslaveNext, ReleaseNext
    <2> QED BY <1>1, <2>1, <2>2
  <1>5. ASSUME NEW t \in Tasks, DeleteLink(t)
        PROVE  MastersExist'
    BY <1>5 DEF DeleteLink
  <1>6. CASE BondingNext
    BY <1>2, <1>3, <1>4, <1>5, <1>6
       DEF BondingNext, DeleteBond, InsertBond, UpdateMembership
  <1>7. CASE EngineNext \/ CrashAll \/ UNCHANGED vars
    BY <1>2, <1>7 DEF EngineNext, ProcessHealthUpdate, IntervalTick, TimePasses, CrashAll,
                      Crash, mgrVars, vars
  <1> QED BY <1>6, <1>7 DEF Next

\* The link an interface is enslaved to exists, whatever calls enslave to links of one name
\* and delete them at once, whatever ip commands fail and however the daemon dies: a
\* create_bond still at work on its members never meets the deletion of its own link.
THEOREM MastersCorrect == Spec => []MastersExist
  <1>1. Init => MastersExist
    BY DEF Init, BondingInit, MastersExist
  <1> QED BY <1>1, Invariance, MastersStep, PTL DEF Spec
==============================================================================
