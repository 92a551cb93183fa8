-------------------------------- MODULE Discovery --------------------------------
(***************************************************************************)
(* The interface scanner (netfusion-core/src/discovery) and the daemon's   *)
(* rescan loop.  One scan asks the kernel five times - links, addresses,   *)
(* routes, counters, then details of each link, query by query - while     *)
(* devices come, go and change.  Links, addresses and routes carry the     *)
(* kernel's index of a device, which is never used again; counters and     *)
(* details are found by NAME, which a device that is plugged in again      *)
(* shares with its predecessor.  A device keeps its name.  Of every answer *)
(* the module keeps what the scan looks up later: data of the links it     *)
(* lists.                                                                  *)
(***************************************************************************)
EXTENDS Integers, Functions

CONSTANTS
    Devices,   \* kernel indices of devices
    NameOf,    \* the name of each device
    StatesOf,  \* bound: the states each device can be in while it is present
    Ignored,   \* names that are skipped: lo, and those of is_virtual_interface
    Nobody     \* no data was found by index

ASSUME DiscoveryAssumption ==
    /\ NameOf \in [Devices -> Range(NameOf)]
    /\ StatesOf \in [Devices -> SUBSET {"down", "routed", "onlink"}]

VARIABLES
    kernel,    \* what each device is at present
    at,        \* the query the scan is about to make, or "idle"
    links,     \* the scan's links: whether each is up
    addresses, \* the scan's devices with an address
    gateways,  \* the scan's default routes: the gateway text by device
    net_dev,   \* /proc/net/dev as it was read: whose counters stand under a name
    to_map,    \* names in net_dev whose index is still to be asked for
    stats,     \* the scan's counters by index: the device they are of
    details,   \* by index, how many detail queries were made and whose data they gave
    list       \* the shared Vec<InterfaceInfo>

scan == <<links, addresses, gateways, net_dev, to_map, stats, details>>
vars == <<kernel, at, scan, list>>

\* A device that is up has an address and a default route: through a gateway or, as
\* on a point-to-point link, without one.
States == {"new", "down", "routed", "onlink", "gone"}

Present == {d \in Devices : kernel[d] \notin {"new", "gone"}}
IsUp(d) == kernel[d] \in {"routed", "onlink"}
Called(n) == {d \in Present : NameOf[d] = n}
NamesUnique == \A d, e \in Present : NameOf[d] = NameOf[e] => d = e

\* RouteEntry.gateway with unwrap_or_default: a route without gateway gives "".
GatewayText(d) == IF kernel[d] = "routed" THEN "gateway" ELSE ""

Entry(d, up, address, gateway, counters, detail) ==
    [index |-> d, name |-> NameOf[d], up |-> up, address |-> address,
     gateway |-> gateway, stats |-> counters, details |-> detail]

NoFunction == [d \in {} |-> 0]

\* The detail queries of one link: link modes by ethtool, the driver in sysfs, and
\* wireless data by iw or in sysfs.
Queries == 3

TypeOK ==
    /\ kernel \in [Devices -> States]
    /\ NamesUnique
    /\ at \in {"idle", "links", "addresses", "routes", "counters", "indices", "details"}
    /\ DOMAIN stats \cup DOMAIN details \cup DOMAIN gateways \cup addresses \subseteq Devices
    /\ DOMAIN details \subseteq DOMAIN links
    /\ \A d \in DOMAIN details :
           details[d] \in [asked : 1 .. Queries, of : SUBSET Devices]
    /\ to_map \subseteq DOMAIN net_dev
    /\ \A e, f \in list : e.index = f.index => e = f

Init ==
    /\ kernel \in [Devices -> States]
    /\ \A d \in Devices : kernel[d] \in {"new"} \cup StatesOf[d]
    /\ NamesUnique
    /\ at = "idle"
    /\ links = NoFunction /\ addresses = {} /\ gateways = NoFunction
    /\ net_dev = NoFunction /\ to_map = {} /\ stats = NoFunction
    /\ details = NoFunction
    /\ list = {}

------------------------------------------------------------------------------
(* The kernel *)

\* A device appears, under a name that is free.
Plug(d) ==
    /\ kernel[d] = "new" /\ Called(NameOf[d]) = {}
    /\ \E s \in StatesOf[d] : kernel' = [kernel EXCEPT ![d] = s]
    /\ UNCHANGED <<at, scan, list>>

Unplug(d) ==
    /\ d \in Present
    /\ kernel' = [kernel EXCEPT ![d] = "gone"]
    /\ UNCHANGED <<at, scan, list>>

\* It goes up or down, or gets its default route in another way.
Reconfigure(d, s) ==
    /\ d \in Present /\ s # kernel[d]
    /\ kernel' = [kernel EXCEPT ![d] = s]
    /\ UNCHANGED <<at, scan, list>>

KernelChange ==
    \E d \in Devices :
        \/ Plug(d) \/ Unplug(d)
        \/ \E s \in StatesOf[d] : Reconfigure(d, s)

------------------------------------------------------------------------------
(* The scan *)

\* The interval ticks.
BeginScan ==
    /\ at = "idle"
    /\ at' = "links"
    /\ UNCHANGED <<kernel, scan, list>>

\* enumerate_links: the state is the flag, refined by the operational state.  The loop
\* of scan skips the ignored names.
EnumerateLinks ==
    /\ at = "links"
    /\ links' = [d \in {e \in Present : NameOf[e] \notin Ignored} |-> IsUp(d)]
    /\ at' = "addresses"
    /\ UNCHANGED <<kernel, addresses, gateways, net_dev, to_map, stats, details, list>>

EnumerateAddresses ==
    /\ at = "addresses"
    /\ addresses' = {d \in DOMAIN links : IsUp(d)}
    /\ at' = "routes"
    /\ UNCHANGED <<kernel, links, gateways, net_dev, to_map, stats, details, list>>

\* enumerate_routes, and the map of default gateways made of it.
EnumerateRoutes ==
    /\ at = "routes"
    /\ gateways' = [d \in {e \in DOMAIN links : IsUp(e)} |-> GatewayText(d)]
    /\ at' = "counters"
    /\ UNCHANGED <<kernel, links, addresses, net_dev, to_map, stats, details, list>>

Forgotten ==
    /\ links' = NoFunction /\ addresses' = {} /\ gateways' = NoFunction
    /\ net_dev' = NoFunction /\ to_map' = {} /\ stats' = NoFunction
    /\ details' = NoFunction

\* A netlink query fails: the scan returns the error and the list stays.
ScanFails ==
    /\ at \in {"links", "addresses", "routes"}
    /\ at' = "idle"
    /\ Forgotten
    /\ UNCHANGED <<kernel, list>>

\* collect_stats reads the whole file at once ...
ReadNetDev ==
    /\ at = "counters"
    /\ net_dev' = [n \in {NameOf[d] : d \in Present} \ Ignored |-> CHOOSE d \in Called(n) : TRUE]
    /\ to_map' = DOMAIN net_dev'
    /\ at' = "indices"
    /\ UNCHANGED <<kernel, links, addresses, gateways, stats, details, list>>

\* ... or not at all, which is no error.
NetDevUnreadable ==
    /\ at = "counters"
    /\ at' = "details"
    /\ UNCHANGED <<kernel, scan, list>>

\* Mutant: the counters stay under the index they had in the last list.
NameToIndex_Remembered(n) ==
    /\ at = "indices" /\ n \in to_map
    /\ to_map' = to_map \ {n}
    /\ LET known == {e.index : e \in {f \in list : f.name = n}}
       IN stats' = [d \in DOMAIN stats \cup (IF known = {} THEN Called(n) ELSE known) |->
                       IF d \in DOMAIN stats THEN stats[d] ELSE net_dev[n]]
    /\ UNCHANGED <<kernel, at, links, addresses, gateways, net_dev, details, list>>

\* ... and asks sysfs, line by line, which index the name has NOW.
NameToIndex(n) ==
    /\ at = "indices" /\ n \in to_map
    /\ to_map' = to_map \ {n}
    /\ LET asked == Called(n) \cap DOMAIN links
       IN stats' = [d \in DOMAIN stats \cup asked |->
                       IF d \in asked THEN net_dev[n] ELSE stats[d]]
    /\ UNCHANGED <<kernel, at, links, addresses, gateways, net_dev, details, list>>

\* The file's text is a local of collect_stats.
EndOfNetDev ==
    /\ at = "indices" /\ to_map = {}
    /\ at' = "details"
    /\ net_dev' = NoFunction
    /\ UNCHANGED <<kernel, links, addresses, gateways, to_map, stats, details, list>>

Or(f, d, nothing) == IF d \in DOMAIN f THEN f[d] ELSE nothing

\* collect_detailed_metadata goes through the links one by one.
Collecting(d) ==
    /\ at = "details" /\ d \in DOMAIN links
    /\ d \in DOMAIN details => details[d].asked < Queries
    /\ \A e \in DOMAIN details \ {d} : details[e].asked = Queries

Answered(d, queries, devices) ==
    LET sofar == Or(details, d, [asked |-> 0, of |-> {}])
    IN details' = [e \in DOMAIN details \cup {d} |->
                      IF e = d THEN [asked |-> sofar.asked + queries,
                                     of |-> sofar.of \cup devices]
                      ELSE details[e]]

\* The next query about d, by name: it finds the device that has the name now, or fails
\* or finds nothing, which is only logged.
CollectDetails(d) ==
    /\ Collecting(d)
    /\ \E found \in {Called(NameOf[d]), {}} : Answered(d, 1, found)
    /\ UNCHANGED <<kernel, at, links, addresses, gateways, net_dev, to_map, stats, list>>

\* No ethtool connection: its query and the driver, which is looked up after it, are left
\* out.
NoEthtool(d) ==
    /\ Collecting(d) /\ d \notin DOMAIN details
    /\ Answered(d, 2, {})
    /\ UNCHANGED <<kernel, at, links, addresses, gateways, net_dev, to_map, stats, list>>

\* What the scan joined, by index.
Found ==
    {Entry(d, links[d], d \in addresses, Or(gateways, d, Nobody),
           Or(stats, d, Nobody), details[d].of) : d \in DOMAIN links}

AllAsked ==
    /\ at = "details" /\ DOMAIN details = DOMAIN links
    /\ \A d \in DOMAIN details : details[d].asked = Queries

\* Mutant: the list is extended.
Publish_Extends ==
    /\ AllAsked
    /\ list' = list \cup Found
    /\ at' = "idle"
    /\ Forgotten
    /\ UNCHANGED kernel

\* The list is replaced.
Publish ==
    /\ AllAsked
    /\ list' = Found
    /\ at' = "idle"
    /\ Forgotten
    /\ UNCHANGED kernel

ScanStep ==
    \/ EnumerateLinks \/ EnumerateAddresses \/ EnumerateRoutes
    \/ ScanFails
    \/ ReadNetDev \/ NetDevUnreadable
    \/ \E n \in Range(NameOf) : NameToIndex(n)
    \/ EndOfNetDev
    \/ \E d \in Devices : CollectDetails(d) \/ NoEthtool(d)
    \/ Publish

Next == KernelChange \/ BeginScan \/ ScanStep

Spec == Init /\ [][Next]_vars

\* The interval goes on ticking, and every query returns.
FairSpec == Spec /\ WF_vars(BeginScan) /\ WF_vars(ScanStep)

------------------------------------------------------------------------------

\* No interface shows the counters of another device, although they are found by name
\* and a device can be replaced, under its name, between any two queries of a scan.
NoInheritedCounters == \A e \in list : e.stats \in {Nobody, e.index}

\* The devices whose data the list should have.
Listed == {d \in Present : NameOf[d] \notin Ignored}

\* An entry that tells what its device is now.  Details can be missing, since a query that
\* fails is not an error, but they are of no other device.
RightEntry(e) ==
    /\ e = Entry(e.index, IsUp(e.index), IsUp(e.index),
                 IF IsUp(e.index) THEN GatewayText(e.index) ELSE Nobody,
                 e.index, e.details)
    /\ e.details \subseteq {e.index}

ListRight == {e.index : e \in list} = Listed /\ \A e \in list : RightEntry(e)

\* Whatever mixture of old and new data the scans published, the list becomes right and
\* stays right when the kernel rests and the queries for the list stop failing.
ListConverges ==
    \/ []<><<KernelChange \/ ScanFails \/ NetDevUnreadable>>_vars
    \/ <>[]ListRight
==============================================================================
