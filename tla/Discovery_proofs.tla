--------------------------- MODULE Discovery_proofs ---------------------------
(***************************************************************************)
(* Proofs about Discovery, for every set of devices and every way to name  *)
(* them.                                                                   *)
(***************************************************************************)
EXTENDS Discovery, TLAPS

\* The scan lists devices that have appeared: an index that is still to come is
\* not among them.
LinksAppeared == \A d \in DOMAIN links : d \in Devices /\ kernel[d] # "new"

\* A listed device that has, at present, a name found in /proc/net/dev is the device whose
\* counters stand there: whoever takes over the name later has a new index.
CountersOfListed ==
    at = "indices" =>
        \A n \in DOMAIN net_dev : \A d \in DOMAIN links \cap Called(n) : net_dev[n] = d

\* The scan's counters are each device's own.
OwnCounters == \A d \in DOMAIN stats : stats[d] = d

IInv ==
    /\ kernel \in [Devices -> States]
    /\ NamesUnique
    /\ to_map \subseteq DOMAIN net_dev
    /\ LinksAppeared
    /\ CountersOfListed
    /\ OwnCounters
    /\ NoInheritedCounters

------------------------------------------------------------------------------

LEMMA InitInv == Init => IInv
  BY DEF Init, IInv, States, LinksAppeared, CountersOfListed, OwnCounters,
     NoInheritedCounters, NoFunction

\* Devices that come, go and change leave the scan's data alone, and no device that the
\* scan has listed comes into being.
LEMMA KernelInv ==
    ASSUME IInv, KernelChange
    PROVE  IInv'
  <1> USE DEF scan
  <1>1. UNCHANGED <<at, links, net_dev, to_map, stats, list>>
    BY DEF KernelChange, Plug, Unplug, Reconfigure
  <1>2. PICK d \in Devices : \/ Plug(d) \/ Unplug(d)
                             \/ \E s \in StatesOf[d] : Reconfigure(d, s)
    BY DEF KernelChange
  <1>3. /\ kernel' \in [Devices -> States]
        /\ \A e \in Devices \ {d} : kernel'[e] = kernel[e]
        /\ kernel'[d] # "new" /\ (Plug(d) => kernel'[d] # "gone")
    BY <1>2, DiscoveryAssumption DEF Plug, Unplug, Reconfigure, States, IInv, Present
  <1>4. Present' \subseteq Present \/ Plug(d)
    BY <1>2, <1>3 DEF Present, Unplug, Reconfigure
  <1>5. Plug(d) => Present' = Present \cup {d} /\ d \notin DOMAIN links
    BY <1>3 DEF Plug, Present, IInv, LinksAppeared
  <1>6. NamesUnique'
    <2>1. CASE Plug(d)
      BY <1>5, <2>1 DEF Plug, Called, NamesUnique, IInv
    <2> QED BY <1>4, <2>1 DEF NamesUnique, IInv
  <1>7. LinksAppeared'
    BY <1>1, <1>3 DEF LinksAppeared, IInv
  <1>8. CountersOfListed'
    BY <1>1, <1>4, <1>5 DEF CountersOfListed, Called, IInv
  <1> QED BY <1>1, <1>3, <1>6, <1>7, <1>8 DEF IInv, OwnCounters, NoInheritedCounters

\* The two queries about counters: the file is read, and each name is looked up in the
\* kernel of that later moment.
LEMMA CountersInv ==
    ASSUME IInv, ReadNetDev \/ \E n \in Range(NameOf) : NameToIndex(n)
    PROVE  IInv'
  <1>1. UNCHANGED <<kernel, links, list>>
    BY DEF ReadNetDev, NameToIndex
  <1>2. CASE ReadNetDev
    <2>1. \A n \in DOMAIN net_dev' : \A d \in Called(n) : net_dev'[n] = d
      BY <1>2 DEF ReadNetDev, Called, NamesUnique, IInv
    <2>2. CountersOfListed'
      BY <1>1, <2>1 DEF CountersOfListed, Called, Present
    <2> QED BY <1>1, <1>2, <2>2 DEF ReadNetDev, IInv, NamesUnique, Present, LinksAppeared,
               OwnCounters, NoInheritedCounters
  <1>3. ASSUME NEW n \in Range(NameOf), NameToIndex(n)
        PROVE  IInv'
    <2>1. OwnCounters'
      BY <1>3 DEF NameToIndex, IInv, CountersOfListed, OwnCounters
    <2> QED BY <1>1, <1>3, <2>1 DEF NameToIndex, IInv, NamesUnique, Present, LinksAppeared,
               CountersOfListed, Called, NoInheritedCounters
  <1> QED BY <1>2, <1>3

LEMMA ScanInv ==
    ASSUME IInv, ScanStep
    PROVE  IInv'
  <1> USE DEF scan
  <1>0. UNCHANGED kernel
    BY DEF ScanStep, EnumerateLinks, EnumerateAddresses, EnumerateRoutes, ScanFails,
       ReadNetDev, NetDevUnreadable, NameToIndex, EndOfNetDev, CollectDetails, NoEthtool, Publish
  <1>1. CASE EnumerateLinks
    BY <1>0, <1>1 DEF EnumerateLinks, IInv, NamesUnique, Present, LinksAppeared,
       CountersOfListed, OwnCounters, NoInheritedCounters
  <1>2. CASE \/ EnumerateAddresses \/ EnumerateRoutes \/ NetDevUnreadable \/ EndOfNetDev
             \/ \E d \in Devices : CollectDetails(d) \/ NoEthtool(d)
    <2>1. /\ UNCHANGED <<links, to_map, stats, list>>
          /\ at' # "indices"
          /\ net_dev' = net_dev \/ to_map = {}
      BY <1>2 DEF EnumerateAddresses, EnumerateRoutes, NetDevUnreadable, EndOfNetDev,
         CollectDetails, NoEthtool, Collecting
    <2> QED BY <1>0, <2>1 DEF IInv, NamesUnique, Present, LinksAppeared, CountersOfListed,
               Called, OwnCounters, NoInheritedCounters
  <1>3. CASE ScanFails
    BY <1>0, <1>3 DEF ScanFails, Forgotten, NoFunction, IInv, NamesUnique, Present,
       LinksAppeared, CountersOfListed, OwnCounters, NoInheritedCounters
  <1>4. CASE Publish
    <2>1. NoInheritedCounters'
      BY <1>4 DEF Publish, Found, Entry, Or, NoInheritedCounters, IInv, OwnCounters
    <2> QED BY <1>0, <1>4, <2>1 DEF Publish, Forgotten, NoFunction, IInv, NamesUnique,
               Present, LinksAppeared, CountersOfListed, OwnCounters
  <1> QED BY <1>1, <1>2, <1>3, <1>4, CountersInv DEF ScanStep

LEMMA StepInv ==
    ASSUME IInv, [Next]_vars
    PROVE  IInv'
  <1>1. CASE BeginScan
    BY <1>1 DEF BeginScan, scan, IInv, NamesUnique, Present, LinksAppeared,
       CountersOfListed, OwnCounters, NoInheritedCounters
  <1>2. CASE UNCHANGED vars
    BY <1>2 DEF vars, scan, IInv, NamesUnique, Present, LinksAppeared, CountersOfListed,
       Called, OwnCounters, NoInheritedCounters
  <1> QED BY <1>1, <1>2, KernelInv, ScanInv DEF Next

THEOREM Invariance == Spec => []IInv
  BY InitInv, StepInv, PTL DEF Spec

\* No interface of the list has the counters of another device: collect_stats asks for
\* the index of a name after it read the counters, but scan() looks an index up only for
\* the links it listed before.
THEOREM CountersCorrect == Spec => []NoInheritedCounters
  BY Invariance, PTL DEF IInv

------------------------------------------------------------------------------
(* Types *)

\* Details are collected last: until then there are none, so a list of links that is read
\* anew leaves none behind.
DetailsLast == at # "details" => DOMAIN details = {}

DataOfDevices == DOMAIN stats \cup DOMAIN gateways \cup addresses \subseteq Devices

DetailsTyped ==
    \A d \in DOMAIN details : details[d] \in [asked : 1 .. Queries, of : SUBSET Devices]

OnePerIndex == \A e, f \in list : e.index = f.index => e = f

ScanTyped ==
    /\ at \in {"idle", "links", "addresses", "routes", "counters", "indices", "details"}
    /\ DataOfDevices
    /\ DetailsLast
    /\ DOMAIN details \subseteq DOMAIN links
    /\ DetailsTyped
    /\ OnePerIndex

LEMMA ScanTypedInit == Init => ScanTyped
  BY DEF Init, ScanTyped, DataOfDevices, DetailsLast, DetailsTyped, OnePerIndex, NoFunction

\* A query about a link counts one and adds devices; a missing connection counts two.
LEMMA AnsweredTyped ==
    ASSUME DetailsTyped, NEW d \in Devices, CollectDetails(d) \/ NoEthtool(d)
    PROVE  DetailsTyped'
  <1> DEFINE sofar == Or(details, d, [asked |-> 0, of |-> {}])
  <1>1. /\ sofar.asked \in 0 .. Queries /\ sofar.of \subseteq Devices
        /\ d \in DOMAIN details => sofar = details[d]
        /\ d \notin DOMAIN details => sofar.asked = 0 /\ sofar.of = {}
    BY DEF DetailsTyped, Or, Queries
  <1>2. sofar.asked < Queries
    BY <1>1 DEF CollectDetails, NoEthtool, Collecting, Queries
  <1>3. PICK queries \in {1, 2}, found \in SUBSET Devices :
            /\ Answered(d, queries, found)
            /\ sofar.asked + queries \in 1 .. Queries
    <2>1. CASE CollectDetails(d)
      <3>1. PICK found \in {Called(NameOf[d]), {}} : Answered(d, 1, found)
        BY <2>1 DEF CollectDetails
      <3>2. found \subseteq Devices
        BY DEF Called, Present
      <3> QED BY <1>1, <1>2, <3>1, <3>2 DEF Queries
    <2>2. CASE NoEthtool(d)
      BY <1>1, <2>2 DEF NoEthtool, Queries
    <2> QED BY <2>1, <2>2
  <1>4. details' = [e \in DOMAIN details \cup {d} |->
                       IF e = d THEN [asked |-> sofar.asked + queries,
                                      of |-> sofar.of \cup found]
                       ELSE details[e]]
    BY <1>3 DEF Answered
  <1> HIDE DEF sofar
  <1> QED BY <1>1, <1>3, <1>4 DEF DetailsTyped

LEMMA ScanTypedStep ==
    ASSUME IInv, ScanTyped, [Next]_vars
    PROVE  ScanTyped'
  <1> USE DEF scan
  <1>1. DOMAIN links \subseteq Devices
    BY DEF IInv, LinksAppeared
  <1>2. CASE KernelChange \/ BeginScan \/ UNCHANGED vars
    <2>1. /\ UNCHANGED <<scan, list>>
          /\ at' = at \/ (at = "idle" /\ at' = "links")
      BY <1>2 DEF KernelChange, Plug, Unplug, Reconfigure, BeginScan, vars
    <2> QED BY <2>1 DEF ScanTyped, DataOfDevices, DetailsLast, DetailsTyped, OnePerIndex
  <1>3. CASE EnumerateLinks
    BY <1>3 DEF EnumerateLinks, ScanTyped, DataOfDevices, DetailsLast, DetailsTyped, OnePerIndex
  <1>4. CASE \/ EnumerateAddresses \/ EnumerateRoutes \/ ReadNetDev \/ NetDevUnreadable
             \/ EndOfNetDev
    BY <1>1, <1>4 DEF EnumerateAddresses, EnumerateRoutes, ReadNetDev, NetDevUnreadable,
       EndOfNetDev, ScanTyped, DataOfDevices, DetailsLast, DetailsTyped, OnePerIndex
  <1>5. CASE ScanFails
    BY <1>5 DEF ScanFails, Forgotten, NoFunction, ScanTyped, DataOfDevices, DetailsLast,
       DetailsTyped, OnePerIndex
  <1>6. ASSUME NEW n, NameToIndex(n)
        PROVE  ScanTyped'
    <2>1. DOMAIN stats' \subseteq Devices
      BY <1>1, <1>6 DEF NameToIndex, ScanTyped, DataOfDevices
    <2> QED BY <1>6, <2>1 DEF NameToIndex, ScanTyped, DataOfDevices, DetailsLast, DetailsTyped, OnePerIndex
  <1>7. ASSUME NEW d \in Devices, CollectDetails(d) \/ NoEthtool(d)
        PROVE  ScanTyped'
    <2>1. /\ at = "details" /\ d \in DOMAIN links
          /\ UNCHANGED <<at, links, addresses, gateways, stats, list>>
      BY <1>7 DEF CollectDetails, NoEthtool, Collecting
    <2>2. DOMAIN details' = DOMAIN details \cup {d}
      BY <1>7 DEF CollectDetails, NoEthtool, Answered
    <2>3. DetailsTyped'
      BY <1>7, AnsweredTyped DEF ScanTyped
    <2> QED BY <2>1, <2>2, <2>3 DEF ScanTyped, DataOfDevices, DetailsLast, DetailsTyped, OnePerIndex
  <1>8. CASE Publish
    <2>1. \A e \in Found : \E d \in DOMAIN links :
              /\ e = Entry(d, links[d], d \in addresses, Or(gateways, d, Nobody),
                           Or(stats, d, Nobody), details[d].of)
              /\ e.index = d
      BY DEF Found, Entry
    <2>2. \A e, f \in Found : e.index = f.index => e = f
      BY <2>1
    <2> QED BY <1>8, <2>2 DEF Publish, Forgotten, NoFunction, ScanTyped, DataOfDevices,
               DetailsLast, DetailsTyped, OnePerIndex
  <1> QED BY <1>2, <1>3, <1>4, <1>5, <1>6, <1>7, <1>8 DEF Next, ScanStep

\* The list has one entry of each index, whatever devices share a name, and the scan's
\* answers are joined by links that the first of them listed.
THEOREM TypeCorrect == Spec => []TypeOK
  <1>1. IInv /\ ScanTyped => TypeOK
    BY DEF IInv, LinksAppeared, ScanTyped, DataOfDevices, DetailsTyped, OnePerIndex, TypeOK
  <1>2. IInv /\ ScanTyped /\ [Next]_vars => ScanTyped'
    BY ScanTypedStep
  <1> QED BY <1>1, <1>2, ScanTypedInit, Invariance, PTL DEF Spec

------------------------------------------------------------------------------
(* A scan that nothing disturbs *)

\* A device changes, or a query fails.
Disturbance == KernelChange \/ ScanFails \/ NetDevUnreadable

LinksExact == links = [d \in Listed |-> IsUp(d)]

AddressesExact == addresses = {d \in Listed : IsUp(d)}

GatewaysExact == gateways = [d \in {e \in Listed : IsUp(e)} |-> GatewayText(d)]

\* What the scan has so far is what the kernel has now, query by query.
ScanFaithful ==
    /\ at \notin {"idle", "links"} => LinksExact
    /\ at \notin {"idle", "links", "addresses"} => AddressesExact
    /\ at \notin {"idle", "links", "addresses", "routes"} => GatewaysExact
    /\ at = "indices" => \A d \in Listed : NameOf[d] \in to_map \/ d \in DOMAIN stats
    /\ at = "details" => Listed \subseteq DOMAIN stats
    /\ \A d \in DOMAIN details : details[d].of \subseteq {d}

\* A name that a device present has is the name of that one alone.
LEMMA CalledIs ==
    ASSUME NamesUnique, NEW d \in Present
    PROVE  Called(NameOf[d]) = {d}
  BY DEF NamesUnique, Called

\* The joined answers of a faithful scan are right, link by link.
LEMMA FoundIsRight ==
    ASSUME IInv, ScanFaithful, AllAsked
    PROVE  {e.index : e \in Found} = Listed /\ \A e \in Found : RightEntry(e)
  <1>1. LinksExact /\ AddressesExact /\ GatewaysExact /\ Listed \subseteq DOMAIN stats
    BY DEF ScanFaithful, AllAsked
  <1>2. DOMAIN links = Listed /\ DOMAIN details = Listed
    BY <1>1 DEF LinksExact, AllAsked
  <1> DEFINE Link(d) == Entry(d, links[d], d \in addresses, Or(gateways, d, Nobody),
                              Or(stats, d, Nobody), details[d].of)
  <1>3. ASSUME NEW d \in Listed
        PROVE  Link(d).index = d /\ RightEntry(Link(d))
    <2>1. links[d] = IsUp(d)
      BY <1>1 DEF LinksExact
    <2>2. (d \in addresses) = IsUp(d)
      BY <1>1 DEF AddressesExact, IsUp
    <2>3. Or(gateways, d, Nobody) = IF IsUp(d) THEN GatewayText(d) ELSE Nobody
      BY <1>1 DEF GatewaysExact, Or
    <2>4. Or(stats, d, Nobody) = d
      BY <1>1 DEF IInv, OwnCounters, Or
    <2>5. details[d].of \subseteq {d}
      BY <1>2 DEF ScanFaithful
    <2>6. Link(d) = Entry(d, IsUp(d), IsUp(d), IF IsUp(d) THEN GatewayText(d) ELSE Nobody,
                          d, details[d].of)
      BY <2>1, <2>2, <2>3, <2>4
    <2>7. Link(d).index = d /\ Link(d).details = details[d].of
      BY DEF Entry
    <2> QED BY <2>5, <2>6, <2>7 DEF RightEntry
  <1>4. Found = {Link(d) : d \in Listed}
    BY <1>2 DEF Found
  <1> HIDE DEF Link
  <1> QED BY <1>3, <1>4

\* What an entry should say depends on the kernel alone.
LEMMA RightStays ==
    ASSUME UNCHANGED kernel
    PROVE  /\ Listed' = Listed
           /\ \A e : RightEntry(e)' = RightEntry(e)
           /\ list' = list => ListRight' = ListRight
  BY DEF Listed, Present, RightEntry, Entry, IsUp, GatewayText, ListRight

\* A step that disturbs nothing leaves the kernel as it is.
LEMMA QuietKernel ==
    ASSUME [Next]_vars, ~Disturbance
    PROVE  UNCHANGED kernel
  BY DEF Next, Disturbance, BeginScan, ScanStep, EnumerateLinks, EnumerateAddresses,
     EnumerateRoutes, ReadNetDev, NameToIndex, EndOfNetDev, CollectDetails, NoEthtool,
     Publish, vars

\* A stutter leaves a scan as faithful as it is.
LEMMA StutterFaithful ==
    ASSUME ScanFaithful, UNCHANGED vars
    PROVE  ScanFaithful'
  <1>1. /\ at' = at /\ kernel' = kernel /\ list' = list
        /\ links' = links /\ addresses' = addresses /\ gateways' = gateways
        /\ to_map' = to_map /\ stats' = stats /\ details' = details
    BY DEF vars, scan
  <1>2. LinksExact' = LinksExact /\ AddressesExact' = AddressesExact
        /\ GatewaysExact' = GatewaysExact /\ Listed' = Listed
    BY <1>1 DEF LinksExact, AddressesExact, GatewaysExact, Listed, Present, IsUp, GatewayText
  <1>3. \A d \in DOMAIN details' : details'[d].of \subseteq {d}
    BY <1>1 DEF ScanFaithful
  <1> QED BY <1>1, <1>2, <1>3 DEF ScanFaithful

LEMMA QuietStep ==
    ASSUME IInv, ScanTyped, ScanFaithful, [Next]_vars, ~Disturbance
    PROVE  /\ ScanFaithful'
           /\ UNCHANGED <<kernel, list>> \/ (ListRight' /\ UNCHANGED kernel)
  <1> USE DEF scan
  <1>0. /\ kernel' = kernel /\ Listed' = Listed
        /\ \A d : IsUp(d)' = IsUp(d) /\ GatewayText(d)' = GatewayText(d)
    BY QuietKernel DEF Listed, Present, IsUp, GatewayText
  <1>1. CASE BeginScan
    BY <1>1 DEF BeginScan, ScanFaithful
  <1>2. CASE EnumerateLinks
    <2>1. LinksExact' /\ at' = "addresses" /\ UNCHANGED <<details, list>>
      BY <1>0, <1>2 DEF EnumerateLinks, LinksExact, Listed
    <2> QED BY <1>0, <2>1 DEF ScanFaithful
  <1>3. CASE EnumerateAddresses
    <2>1. LinksExact /\ at' = "routes" /\ UNCHANGED <<links, details, list>>
      BY <1>3 DEF EnumerateAddresses, ScanFaithful
    <2>2. LinksExact'
      BY <1>0, <2>1 DEF LinksExact
    <2>3. AddressesExact'
      BY <1>0, <1>3, <2>1 DEF EnumerateAddresses, AddressesExact, LinksExact
    <2> QED BY <1>0, <2>1, <2>2, <2>3 DEF ScanFaithful
  <1>4. CASE EnumerateRoutes
    <2>1. LinksExact /\ AddressesExact /\ at' = "counters"
          /\ UNCHANGED <<links, addresses, details, list>>
      BY <1>4 DEF EnumerateRoutes, ScanFaithful
    <2>2. LinksExact' /\ AddressesExact'
      BY <1>0, <2>1 DEF LinksExact, AddressesExact
    <2>3. GatewaysExact'
      BY <1>0, <1>4, <2>1 DEF EnumerateRoutes, GatewaysExact, LinksExact
    <2> QED BY <1>0, <2>1, <2>2, <2>3 DEF ScanFaithful
  <1>5. ASSUME at \in {"counters", "indices", "details"},
               UNCHANGED <<links, addresses, gateways>>
        PROVE  LinksExact' /\ AddressesExact' /\ GatewaysExact'
    BY <1>0, <1>5 DEF ScanFaithful, LinksExact, AddressesExact, GatewaysExact
  <1>6. CASE ReadNetDev
    <2>1. \A d \in Listed : NameOf[d] \in to_map'
      BY <1>6 DEF ReadNetDev, Listed
    <2> QED BY <1>0, <1>5, <1>6, <2>1 DEF ReadNetDev, ScanFaithful
  <1>7. ASSUME NEW n, NameToIndex(n)
        PROVE  ScanFaithful' /\ UNCHANGED list
    <2>1. at = "indices" /\ at' = "indices" /\ LinksExact
          /\ UNCHANGED <<links, addresses, gateways, details, list>>
      BY <1>7 DEF NameToIndex, ScanFaithful
    <2>2. /\ to_map' = to_map \ {n}
          /\ DOMAIN stats' = DOMAIN stats \cup (Called(n) \cap DOMAIN links)
      BY <1>7 DEF NameToIndex
    <2>3. ASSUME NEW d \in Listed PROVE NameOf[d] \in to_map' \/ d \in DOMAIN stats'
      <3>1. NameOf[d] \in to_map \/ d \in DOMAIN stats
        BY <2>1 DEF ScanFaithful
      <3>2. NameOf[d] = n => d \in Called(n) /\ d \in DOMAIN links
        BY <2>1 DEF Listed, Called, LinksExact
      <3> QED BY <2>2, <3>1, <3>2
    <2> QED BY <1>0, <1>5, <2>1, <2>3 DEF ScanFaithful
  <1>8. CASE EndOfNetDev
    BY <1>0, <1>5, <1>8 DEF EndOfNetDev, ScanFaithful
  <1>9. ASSUME NEW d \in Devices, CollectDetails(d) \/ NoEthtool(d)
        PROVE  ScanFaithful' /\ UNCHANGED list
    <2>1. at = "details" /\ at' = "details" /\ LinksExact /\ d \in DOMAIN links
          /\ UNCHANGED <<links, addresses, gateways, stats, list>>
      BY <1>9 DEF CollectDetails, NoEthtool, Collecting, ScanFaithful
    <2>2. Called(NameOf[d]) = {d}
      BY <2>1, CalledIs DEF LinksExact, Listed, IInv
    <2>3. PICK queries \in {1, 2}, found \in SUBSET {d} : Answered(d, queries, found)
      BY <1>9, <2>2 DEF CollectDetails, NoEthtool
    <2>4. Or(details, d, [asked |-> 0, of |-> {}]).of \subseteq {d}
      BY DEF Or, ScanFaithful
    <2>5. \A e \in DOMAIN details' : details'[e].of \subseteq {e}
      BY <2>3, <2>4 DEF Answered, ScanFaithful
    <2> QED BY <1>0, <1>5, <2>1, <2>5 DEF ScanFaithful
  <1>10. CASE Publish
    <2>1. list' = Found /\ AllAsked
      BY <1>10 DEF Publish
    <2>2. ListRight'
      BY <1>0, <2>1, FoundIsRight, RightStays DEF ListRight
    <2> QED BY <1>0, <1>10, <2>2 DEF Publish, Forgotten, NoFunction, ScanFaithful
  <1>11. CASE UNCHANGED vars
    BY <1>11, StutterFaithful DEF vars
  <1> QED BY <1>0, <1>1, <1>2, <1>3, <1>4, <1>6, <1>7, <1>8, <1>9, <1>10, <1>11
          DEF Next, ScanStep, Disturbance, ReadNetDev, EndOfNetDev, BeginScan

\* What the list can be while nothing changes: what it was, or what it should be.
OldOrRight(old) == ScanFaithful /\ (list = old \/ ListRight)

\* The safety half of ListConverges.  From a moment between two scans on, as long as no
\* device changes and no query for the list fails, the list is what it was or tells, of
\* exactly the devices there are, what they are: no mixture of answers of scan() is ever
\* published, and details that cannot be had are missing, never another device's.
THEOREM QuietScanExact ==
    ASSUME NEW CONSTANT old
    PROVE  Spec => [](at = "idle" /\ list = old /\ [][~Disturbance]_vars
                          => [](list = old \/ ListRight))
  <1>1. ScanTyped /\ at = "idle" /\ list = old => OldOrRight(old)
    BY DEF ScanTyped, DetailsLast, ScanFaithful, OldOrRight
  <1>2. IInv /\ ScanTyped /\ OldOrRight(old) /\ [Next]_vars /\ [~Disturbance]_vars
            => OldOrRight(old)'
    <2> SUFFICES ASSUME IInv, ScanTyped, OldOrRight(old), [Next]_vars, [~Disturbance]_vars
                 PROVE  OldOrRight(old)'
      OBVIOUS
    <2>1. CASE UNCHANGED vars
      <3>1. ScanFaithful'
        BY <2>1, StutterFaithful DEF OldOrRight
      <3>2. ListRight' = ListRight /\ list' = list
        BY <2>1, RightStays DEF vars
      <3> QED BY <3>1, <3>2 DEF OldOrRight
    <2>2. CASE ~Disturbance
      <3>1. /\ ScanFaithful'
            /\ UNCHANGED <<kernel, list>> \/ (ListRight' /\ UNCHANGED kernel)
        BY <2>2, QuietStep DEF OldOrRight
      <3>2. UNCHANGED <<kernel, list>> => ListRight' = ListRight
        BY RightStays
      <3> QED BY <3>1, <3>2 DEF OldOrRight
    <2> QED BY <2>1, <2>2
  <1>3. OldOrRight(old) => list = old \/ ListRight
    BY DEF OldOrRight
  <1>4. IInv /\ ScanTyped /\ [Next]_vars => ScanTyped'
    BY ScanTypedStep
  <1> QED BY <1>1, <1>2, <1>3, <1>4, ScanTypedInit, Invariance, PTL DEF Spec

\* Once right, the list of the daemon stays right until a device changes or a query
\* fails: rescans that find nothing new leave every entry as it is.
THEOREM RightListStays ==
    Spec => [](at = "idle" /\ ListRight /\ [][~Disturbance]_vars => []ListRight)
  <1>1. ScanTyped /\ at = "idle" => ScanFaithful
    BY DEF ScanTyped, DetailsLast, ScanFaithful
  <1>2. IInv /\ ScanTyped /\ ScanFaithful /\ ListRight
            /\ [Next]_vars /\ [~Disturbance]_vars
            => ScanFaithful' /\ ListRight'
    <2> SUFFICES ASSUME IInv, ScanTyped, ScanFaithful, ListRight,
                        [Next]_vars, [~Disturbance]_vars
                 PROVE  ScanFaithful' /\ ListRight'
      OBVIOUS
    <2>1. UNCHANGED <<kernel, list>> => ListRight' = ListRight
      BY RightStays
    <2>2. CASE UNCHANGED vars
      <3>1. ScanFaithful'
        BY <2>2, StutterFaithful
      <3> QED BY <2>1, <2>2, <3>1 DEF vars
    <2>3. CASE ~Disturbance
      <3>1. /\ ScanFaithful'
            /\ UNCHANGED <<kernel, list>> \/ (ListRight' /\ UNCHANGED kernel)
        BY <2>3, QuietStep
      <3> QED BY <2>1, <3>1
    <2> QED BY <2>2, <2>3
  <1>3. IInv /\ ScanTyped /\ [Next]_vars => ScanTyped'
    BY ScanTypedStep
  <1> QED BY <1>1, <1>2, <1>3, ScanTypedInit, Invariance, PTL DEF Spec
==============================================================================
