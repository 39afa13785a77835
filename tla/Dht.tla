-------------------------------- MODULE Dht --------------------------------
(***************************************************************************)
(* One DHT node (src/dht/dht_node.go) with its routing table               *)
(* (src/dht/dht.go), its relay store and its files: contacts are learned   *)
(* from messages, pinged, suspected and reloaded after a restart, and      *)
(* signed relay entries are stored, passed on, saved and expire.           *)
(*                                                                         *)
(* Peers are contacts of one bucket, a peer being its ID and its address.  *)
(* A packet of a peer may arrive at any time.  One relay is followed; an   *)
(* entry is represented by its age in ticks, negative when the relay's     *)
(* clock is ahead, and every entry it has signed may arrive again, from    *)
(* any peer, until it is too old to be stored.                             *)
(***************************************************************************)
EXTENDS Integers, Sequences, Functions

CONSTANTS
    Peers,
    BucketSize,   \* K
    MaxMissed,    \* maxMissedPings
    TTL,          \* ticks of RelayTTL
    Skew          \* bound: ticks a relay's clock is off

ASSUME DhtAssumption ==
    BucketSize \in Nat \ {0} /\ MaxMissed \in Nat \ {0} /\ TTL \in Nat /\ Skew \in 0..TTL

None == TTL + 1 + Skew    \* no entry, or one too old to matter

VARIABLES
    bucket,        \* the contacts, in bucket order
    missed,        \* their MissedPings, 0 for the other peers
    suspects,      \* those that are Suspect
    seen,          \* the contacts by LastSeen, oldest first
    pendingPings,
    timers,        \* peers with a timeout goroutine of pingAddr
    heard,         \* history: peers a packet came from since they were last pending
    peersFile,     \* peers.json: contacts in order
    signed,        \* ages of the relay's entries in circulation
    entry,         \* age of the entry in relayStore, or None
    relaysFile,    \* age of the entry in the file of SaveRelays, or None
    silent         \* history: ticks since the relay last signed an entry

routing == <<bucket, missed, suspects, seen>>
pings   == <<pendingPings, timers, heard>>
store   == <<signed, entry, relaysFile, silent>>
dhtvars == <<routing, pings, peersFile, store>>

DhtInit ==
    /\ bucket = <<>> /\ missed = [p \in Peers |-> 0] /\ suspects = {} /\ seen = <<>>
    /\ pendingPings = {} /\ timers = {} /\ heard = {}
    /\ peersFile = <<>>
    /\ signed = {} /\ entry = None /\ relaysFile = None /\ silent = None

-----------------------------------------------------------------------------
(* The routing table                                                       *)

Known == Range(bucket)

\* s, a sequence of different peers, without p.
Without(s, p) ==
    IF p \notin Range(s) THEN s
    ELSE LET i == CHOOSE j \in DOMAIN s : s[j] = p
         IN SubSeq(s, 1, i - 1) \o SubSeq(s, i + 1, Len(s))

\* A known contact is replaced where it is; a full bucket loses its first.
Evicts(b, p) == p \notin Range(b) /\ Len(b) >= BucketSize

Add(b, p) ==
    IF p \in Range(b) THEN b ELSE Append(IF Evicts(b, p) THEN Tail(b) ELSE b, p)

\* The order of LastSeen when p is added to b, which is seen just now.
See(b, s, p) == Append(Without(IF Evicts(b, p) THEN Without(s, Head(b)) ELSE s, p), p)

\* Only the contacts in S keep their misses and their suspicion.
Keep(S) ==
    /\ missed' = [p \in Peers |-> IF p \in S THEN missed[p] ELSE 0]
    /\ suspects' = suspects \cap S

markMissed(p) ==
    IF p \notin Known THEN UNCHANGED routing
    ELSE IF missed[p] + 1 >= MaxMissed
    THEN /\ bucket' = Without(bucket, p) /\ seen' = Without(seen, p)
         /\ Keep(Known \ {p})
    ELSE /\ missed' = [missed EXCEPT ![p] = @ + 1]
         /\ suspects' = suspects \cup {p}
         /\ UNCHANGED <<bucket, seen>>

\* Mutant: the contact stays pending when it is heard.
resetPendingNever(p) == UNCHANGED pendingPings

resetPending(p) == pendingPings' = pendingPings \ {p}

resetMissed(p) == Keep(Peers \ {p})

\* Any packet answers a pending ping.
clearSuspectByAddr(p) ==
    /\ heard' = heard \cup {p}
    /\ resetPending(p)
    /\ UNCHANGED timers

-----------------------------------------------------------------------------
(* Messages                                                                *)

\* The sender of a find_node becomes a contact; the closest ones are returned.
handleFindNode(p) ==
    /\ clearSuspectByAddr(p)
    /\ bucket' = Add(bucket, p) /\ seen' = See(bucket, seen, p)
    /\ Keep(Range(bucket') \ {p})
    /\ UNCHANGED <<peersFile, store>>

\* The responder and the contacts it lists, one of them here, become contacts.
handleNodes(p) ==
    /\ clearSuspectByAddr(p)
    /\ \E q \in Peers \ {p} :
         LET b == Add(bucket, p)
         IN /\ bucket' = Add(b, q) /\ seen' = See(b, See(bucket, seen, p), q)
            /\ Keep(Range(bucket') \ {p, q})
    /\ UNCHANGED <<peersFile, store>>

\* Every other message: learnContact does nothing, so only a pending ping
\* makes a difference to the table.
Heard(p) ==
    /\ clearSuspectByAddr(p)
    /\ IF p \in pendingPings THEN resetMissed(p) ELSE UNCHANGED <<missed, suspects>>
    /\ UNCHANGED <<bucket, seen, peersFile>>

handlePing(p) == Heard(p) /\ UNCHANGED store

-----------------------------------------------------------------------------
(* Pings                                                                   *)

\* pingAddr looks the contact up with Closest, which leaves suspects out.
Pingable == Known \ suspects

pingAddr(ps) ==
    /\ pendingPings' = pendingPings \cup (ps \cap Pingable)
    /\ timers' = timers \cup (ps \cap Pingable)
    /\ heard' = heard \ (ps \cap Pingable)
    /\ UNCHANGED <<routing, peersFile, store>>

\* Ticks of 15 minutes and 90 seconds: the timers of earlier pings have fired.
pingStale ==
    /\ bucket # <<>> /\ timers = {}
    /\ pingAddr({Head(seen)})

reprobeSuspects ==
    /\ suspects # {} /\ timers = {}
    /\ pingAddr(suspects)

\* Mutant: the ping stays pending after its timeout.
PingTimeoutLeaves(p) ==
    /\ p \in timers
    /\ timers' = timers \ {p}
    /\ IF p \in pendingPings THEN markMissed(p) ELSE UNCHANGED routing
    /\ UNCHANGED <<pendingPings, heard, peersFile, store>>

\* The goroutine of pingAddr after pingTimeout.
PingTimeout(p) ==
    /\ p \in timers
    /\ timers' = timers \ {p}
    /\ pendingPings' = pendingPings \ {p}
    /\ IF p \in pendingPings THEN markMissed(p) ELSE UNCHANGED routing
    /\ UNCHANGED <<heard, peersFile, store>>

-----------------------------------------------------------------------------
(* Relay entries                                                           *)

\* Mutant: an entry counts from its arrival.
StampArrival(age) == 0

\* The time of an entry is the one its relay signed.
Stamp(age) == age

\* Too old and too far ahead are refused; the newer timestamp stays.
StoreEntry(age) ==
    entry' = IF age > TTL \/ age < -TTL \/ entry <= age THEN entry ELSE Stamp(age)

handleAnnounce(p) ==
    /\ Heard(p)
    /\ \E age \in signed : StoreEntry(age)
    /\ UNCHANGED <<signed, relaysFile, silent>>

\* The relay is on line, and announces an entry it has just signed.
announce ==
    /\ \E s \in -Skew..Skew : signed' = signed \cup {s}
    /\ silent' = 0
    /\ UNCHANGED <<routing, pings, peersFile, entry, relaysFile>>

Served == entry <= TTL

Older(age) == IF age < None THEN age + 1 ELSE age

\* A tick is longer than pingTimeout.
DhtTick ==
    /\ timers = {}
    /\ signed' = {Older(a) : a \in {b \in signed : b < TTL}}
    /\ entry' = Older(entry) /\ relaysFile' = Older(relaysFile) /\ silent' = Older(silent)
    /\ UNCHANGED <<routing, pings, peersFile>>

-----------------------------------------------------------------------------
(* Files                                                                   *)

savePeers ==
    /\ peersFile' = bucket
    /\ UNCHANGED <<routing, pings, store>>

SaveRelays ==
    /\ Served
    /\ relaysFile' = entry
    /\ UNCHANGED <<routing, pings, peersFile, signed, entry, silent>>

\* The process ends, with or without the savePeers of maintainLoop, or inside
\* WriteFile, and starts again: Bootstrap's loadPeers, and LoadRelays.  The
\* file holds the IDs of one bucket, so adding each of them gives them all.
Restart ==
    /\ peersFile' \in {peersFile, bucket, <<>>}
    /\ bucket' = peersFile' /\ seen' = peersFile' /\ Keep({})
    /\ pendingPings' = {} /\ timers' = {} /\ heard' = {}
    /\ relaysFile' \in {relaysFile, None}
    /\ entry' = IF relaysFile' <= TTL THEN relaysFile' ELSE None
    /\ UNCHANGED <<signed, silent>>

DhtNext ==
    \/ pingStale \/ reprobeSuspects \/ announce \/ DhtTick \/ savePeers \/ SaveRelays \/ Restart
    \/ \E p \in Peers : \/ handleFindNode(p) \/ handleNodes(p)
                        \/ handlePing(p) \/ handleAnnounce(p) \/ PingTimeout(p)

DhtSpec == DhtInit /\ [][DhtNext]_dhtvars

-----------------------------------------------------------------------------
(* Properties                                                              *)

\* The types of the state: a bucket of at most K different contacts, each
\* with its place in the order of LastSeen.
DhtTypeOK ==
    /\ bucket \in Seq(Peers) /\ Len(bucket) <= BucketSize /\ IsInjective(bucket)
    /\ seen \in Seq(Peers) /\ IsInjective(seen) /\ Range(seen) = Known
    /\ missed \in [Peers -> 0..(MaxMissed - 1)] /\ suspects \subseteq Known
    /\ {pendingPings, timers, heard} \subseteq SUBSET Peers
    /\ signed \subseteq -Skew..TTL /\ {entry, relaysFile, silent} \subseteq -Skew..None

\* A ping that is pending has a goroutine that will time it out, so that no
\* contact stays undecided because an answer, a restart or a later ping took
\* the timer away (pendingPings in pingAddr and clearSuspectByAddr).
PendingHasTimer == pendingPings \subseteq timers

\* A contact becomes suspect only when nothing at all has arrived from its
\* address since its ping was recorded as pending: an answer that a handler
\* has processed is never followed by the MarkMissed of the ping it answered.
SuspectedOnlyAfterSilence ==
    [][\A p \in Peers : p \in suspects' \ suspects => p \notin heard]_dhtvars

\* A suspect stays one, and stays in the table, until it is added again by a
\* find_node or nodes message, pushed out of a full bucket or reloaded: no
\* answer to reprobeSuspects clears it and no miss evicts it, because pingAddr
\* never records a ping to a contact that Closest leaves out.
SuspicionIsSticky ==
    [][\A p \in suspects : p \in suspects' \/ Restart
                          \/ \E q \in Peers : handleFindNode(q) \/ handleNodes(q)]_dhtvars

\* A relay entry is served (Relays, relay_list, SaveRelays) only if its relay
\* signed one in the last RelayTTL plus the error of its clock, however long
\* entries travel, however often they are repeated, and across restarts.
ServedIsRecent == Served => silent <= TTL + Skew

\* The node's tables stay sound whatever arrives and whenever it is restarted:
\* Add keeps the bucket within its size and without duplicates, and no pending
\* ping is left without the goroutine that decides it.
NodeSound == DhtTypeOK /\ PendingHasTimer

\* A contact is suspected only for silence and is a suspect until it is added
\* again: SuspectedOnlyAfterSilence and SuspicionIsSticky, the two halves of
\* what pingAddr, its timer and clearSuspectByAddr do between them.
SuspicionSound == SuspectedOnlyAfterSilence /\ SuspicionIsSticky
=============================================================================
