------------------------------- MODULE Router -------------------------------
(***************************************************************************)
(* The router (src/router.go): which controls and relays are known and     *)
(* alive, over which transport, the marks other parts put on them, the     *)
(* probes that run beside, and the paths built from all this.              *)
(*                                                                         *)
(* Scores (RTT, loss, flaps) are not modelled: within one class of paths   *)
(* any of them may score better.  A path with several relays differs from  *)
(* one with a single relay only in its score.  The paths are shuffled, so  *)
(* that only which ones there are counts, not their order.  The 30 seconds *)
(* after which a node is stale and the ends of the marks may come at any   *)
(* time.                                                                   *)
(***************************************************************************)
EXTENDS Integers, FiniteSets, FiniteSetsExt

CONSTANTS
    Addrs,      \* controls
    Lists,      \* the lists of controls a manifest may bring
    Home,       \* those whose region is the client's country
    Relays,
    HomeRelays, \* those that report the client's country
    NoRelay,    \* the relay of a direct path
    MinPool,    \* 3: below this the pool is supplemented
    MaxPaths,   \* 5
    MaxMarks    \* bound: marks in force at a time

ASSUME RouterAssumption ==
    /\ Home \subseteq Addrs /\ Lists \subseteq SUBSET Addrs /\ NoRelay \notin Relays
    /\ MinPool \in Nat \ {0} /\ MaxPaths \in Nat \ {0}
    /\ IsFiniteSet(Addrs) /\ IsFiniteSet(Relays)

VARIABLES
    controls, fresh, udp,   \* known controls; IsAlive and seen lately; transportUDP
    myCountry,              \* whether the country filter is on
    dataDead, udpDataFailed,\* controls with a mark in force
    relays, liveRelays,
    paths, pathIdx,
    probe,                  \* the probe goroutine of one control, see Idle
    raced                   \* history: controls marked during their UDP probe

nodes == <<controls, fresh, udp>>
marks == <<dataDead, udpDataFailed, raced>>
rnodes == <<relays, liveRelays>>
route == <<paths, pathIdx>>
routerVars == <<nodes, myCountry, marks, rnodes, route, probe>>

\* at: the call the goroutine is in; cur: its node is still in the list
Idle == [at |-> "idle"]

RouterInit ==
    /\ controls = {} /\ fresh = {} /\ udp = {}
    /\ myCountry \in BOOLEAN
    /\ dataDead = {} /\ udpDataFailed = {} /\ raced = {}
    /\ relays = {} /\ liveRelays = {}
    /\ paths = {} /\ pathIdx = 0
    /\ probe = Idle

-----------------------------------------------------------------------------
(* Lists and marks                                                         *)

\* New node objects, alive and on TCP; a running probe keeps the old one.
SetControlsWithRegions(S) ==
    /\ controls' = S /\ fresh' = S /\ udp' = {}
    /\ probe' = IF probe = Idle THEN Idle ELSE [probe EXCEPT !.cur = FALSE]
    /\ UNCHANGED <<myCountry, marks, rnodes, route>>

UpdateRelays(S) ==
    /\ relays' = S /\ liveRelays' = S
    /\ UNCHANGED <<nodes, myCountry, marks, route, probe>>

\* Only unknown relays are added.
MergeDHTRelays(S) ==
    /\ relays' = relays \cup S
    /\ liveRelays' = liveRelays \cup (S \ relays)
    /\ UNCHANGED <<nodes, myCountry, marks, route, probe>>

MarkRelayAlive(r) ==
    /\ r \in relays
    /\ liveRelays' = liveRelays \cup {r}
    /\ UNCHANGED <<nodes, myCountry, marks, relays, route, probe>>

Marks == Cardinality(dataDead) + Cardinality(udpDataFailed)

MarkControlDataDead(a) ==
    /\ Marks < MaxMarks
    /\ dataDead' = dataDead \cup {a}
    /\ UNCHANGED <<nodes, myCountry, udpDataFailed, raced, rnodes, route, probe>>

MarkControlAlive(a) ==
    /\ a \in controls
    /\ fresh' = fresh \cup {a}
    /\ UNCHANGED <<controls, udp, myCountry, marks, rnodes, route, probe>>

MarkUDPDataFailed(a) ==
    /\ Marks < MaxMarks
    /\ udp' = udp \ {a}
    /\ udpDataFailed' = udpDataFailed \cup {a}
    /\ raced' = IF probe.at = "udp" /\ probe.addr = a THEN raced \cup {a} ELSE raced
    /\ UNCHANGED <<controls, fresh, myCountry, dataDead, rnodes, route, probe>>

\* Time: a node is stale, or a mark has ended.
Expire ==
    \/ /\ \E a \in fresh : fresh' = fresh \ {a}
       /\ UNCHANGED <<liveRelays, dataDead, udpDataFailed, raced>>
    \/ /\ \E r \in liveRelays : liveRelays' = liveRelays \ {r}
       /\ UNCHANGED <<fresh, dataDead, udpDataFailed, raced>>
    \/ /\ \E a \in dataDead : dataDead' = dataDead \ {a}
       /\ UNCHANGED <<fresh, liveRelays, udpDataFailed, raced>>
    \/ /\ \E a \in udpDataFailed : udpDataFailed' = udpDataFailed \ {a} /\ raced' = raced \ {a}
       /\ UNCHANGED <<fresh, liveRelays, dataDead>>

Time == Expire /\ UNCHANGED <<controls, udp, myCountry, relays, route, probe>>

-----------------------------------------------------------------------------
(* ProbeDataPlane: a goroutine per control; they only touch their own node *)

ProbeDataPlane(a) ==
    /\ a \in controls /\ probe = Idle
    /\ probe' = [at |-> "tcp", addr |-> a, cur |-> TRUE]
    /\ UNCHANGED <<nodes, myCountry, marks, rnodes, route>>

\* Mutant: the node is looked up by its address in a copy of the list.
WriteStale(ok, isUDP) ==
    /\ probe' = Idle
    /\ fresh' = IF ok THEN fresh \cup {probe.addr} ELSE fresh \ {probe.addr}
    /\ udp' = IF isUDP THEN udp \cup {probe.addr} ELSE udp \ {probe.addr}
    /\ UNCHANGED <<controls, myCountry, marks, rnodes, route>>

\* What a probe found is written to the node it was started for.
WriteNode(ok, isUDP) ==
    /\ probe' = Idle
    /\ fresh' = IF ~probe.cur THEN fresh
                ELSE IF ok THEN fresh \cup {probe.addr} ELSE fresh \ {probe.addr}
    /\ udp' = IF ~probe.cur THEN udp
              ELSE IF isUDP THEN udp \cup {probe.addr} ELSE udp \ {probe.addr}
    /\ UNCHANGED <<controls, myCountry, marks, rnodes, route>>

ProbedTCP ==
    /\ probe.at = "tcp"
    /\ WriteNode(TRUE, FALSE)

\* Mutant: the mark is not looked at.
udpSuppressedNever == FALSE

udpSuppressed == probe.addr \in udpDataFailed

\* TCP failed: dead at once while UDP is suppressed, otherwise UDP is tried.
TCPFailed ==
    /\ probe.at = "tcp"
    /\ IF udpSuppressed THEN WriteNode(FALSE, FALSE)
       ELSE /\ probe' = [probe EXCEPT !.at = "udp"]
            /\ UNCHANGED <<nodes, myCountry, marks, rnodes, route>>

ProbedUDP(ok) ==
    /\ probe.at = "udp"
    /\ WriteNode(ok, ok)

-----------------------------------------------------------------------------
(* BuildPaths                                                              *)

alive == fresh \ dataDead

Domestic == myCountry /\ alive \cap Home # {}

\* Mutant: without a TCP-capable control there is none.
PreferTCPStrict(S) == S \ udp

PreferTCP(S) == IF S \ udp # {} THEN S \ udp ELSE S

\* After the country filter and the TCP filter.
Filtered == PreferTCP(IF Domestic THEN alive \cap Home ELSE alive)

OutOfCountry == IF Domestic THEN (alive \ Home) \ udp ELSE {}

\* The supplement takes the best-scored of the others, up to MinPool in all.
Supplements ==
    LET have == Cardinality(Filtered)
        need == IF MinPool - have < Cardinality(OutOfCountry) THEN MinPool - have
                ELSE Cardinality(OutOfCountry)
    IN IF have < MinPool THEN {Filtered \cup S : S \in kSubset(need, OutOfCountry)}
       ELSE {Filtered}

\* Same-region relays, or all when there is none.
LiveRelays ==
    IF myCountry /\ liveRelays \cap HomeRelays # {} THEN liveRelays \cap HomeRelays
    ELSE liveRelays

\* Paths with relays come first, then by score; at most MaxPaths stay.
TopPaths(cands) ==
    LET relayed == {p \in cands : p.relay # NoRelay}
        n == IF Cardinality(cands) < MaxPaths THEN Cardinality(cands) ELSE MaxPaths
    IN {S \in kSubset(n, cands) : S \subseteq relayed \/ relayed \subseteq S}

ResetIdx == pathIdx' = 0

BuildPaths ==
    /\ IF Filtered = {} THEN paths' = {} /\ UNCHANGED pathIdx
       ELSE /\ \E pool \in Supplements :
                 paths' \in TopPaths([control : pool, relay : LiveRelays \cup {NoRelay}])
            /\ ResetIdx
    /\ UNCHANGED <<nodes, myCountry, marks, rnodes, probe>>

Advance ==
    /\ pathIdx' = IF pathIdx + 1 < Cardinality(paths) THEN pathIdx + 1 ELSE 0
    /\ UNCHANGED <<nodes, myCountry, marks, rnodes, paths, probe>>

Reset ==
    /\ pathIdx' = 0
    /\ UNCHANGED <<nodes, myCountry, marks, rnodes, paths, probe>>

RouterNext ==
    \/ \E S \in Lists : SetControlsWithRegions(S)
    \/ \E S \in SUBSET Relays : UpdateRelays(S) \/ MergeDHTRelays(S)
    \/ \E r \in Relays : MarkRelayAlive(r)
    \/ \E a \in Addrs : \/ MarkControlDataDead(a) \/ MarkControlAlive(a)
                        \/ MarkUDPDataFailed(a) \/ ProbeDataPlane(a)
    \/ ProbedTCP \/ TCPFailed \/ \E ok \in BOOLEAN : ProbedUDP(ok)
    \/ Time \/ BuildPaths \/ Advance \/ Reset

RouterSpec == RouterInit /\ [][RouterNext]_routerVars

-----------------------------------------------------------------------------
(* Properties                                                              *)

\* The types of the state; BuildPaths keeps at most five paths.
RouterTypeOK ==
    /\ {controls, fresh, udp, dataDead, udpDataFailed, raced} \subseteq SUBSET Addrs
    /\ liveRelays \subseteq relays /\ relays \subseteq Relays
    /\ paths \subseteq [control : Addrs, relay : Relays \cup {NoRelay}]
    /\ Cardinality(paths) <= MaxPaths
    /\ pathIdx \in 0..MaxPaths
    /\ probe \in {Idle} \cup [at : {"tcp", "udp"}, addr : Addrs, cur : BOOLEAN]

\* Primary and PrimaryIsBetter never index past the end of paths, although a
\* BuildPaths without controls empties paths and keeps the index, and Advance
\* and Reset may come between any two rebuilds.
IndexInRange == paths # {} => pathIdx < Cardinality(paths)

Built == paths' # paths
Pool == {p.control : p \in paths}

\* New paths lead only to controls of the current list without a data-dead
\* mark, even when a probe that started under an older list ends after
\* SetControls dropped the control (ProbeDataPlane's copy of the nodes).
PathsUseKnownControls == [][Built => Pool' \subseteq controls \ dataDead]_routerVars

\* The filters of BuildPaths never cost connectivity: paths become empty only
\* when no control is alive.
EmptyOnlyWhenNoneAlive == [][Built /\ paths' = {} => alive = {}]_routerVars

\* With enough in-country controls alive over TCP, BuildPaths leaves the
\* out-of-country ones out, as its hard filter promises; they only supplement.
HomeFirst ==
    [][Built /\ myCountry /\ Cardinality((alive \cap Home) \ udp) >= MinPool
         => Pool' \subseteq Home]_routerVars

\* MarkUDPDataFailed keeps the control off UDP while the mark lasts, except
\* when the UDP probe of ProbeDataPlane was under way at the time of the mark:
\* that probe read the mark before, and its success overrides it.
UDPOnlyByRace == udpDataFailed \cap udp \subseteq raced

\* What Primary hands out can be dialed: the index is inside the list, and the
\* list leads only to current controls that are not data-dead, through every
\* rebuild, Advance, late probe and SetControls.
PathsSound == []RouterTypeOK /\ []IndexInRange /\ PathsUseKnownControls

\* The chain of filters in BuildPaths neither loses the last live control nor
\* lets foreign controls displace enough domestic ones.
FiltersSound == EmptyOnlyWhenNoneAlive /\ HomeFirst
=============================================================================
