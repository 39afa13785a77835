----------------------------- MODULE Discovery -----------------------------
(***************************************************************************)
(* The discoverer of controls (src/discovery.go) with the manifest of the  *)
(* DHT node (SetManifest and handleManifestData in src/dht/dht_node.go):   *)
(* fetches from controls that may lag behind, manifests from gossip, the   *)
(* cache on disk and restarts.                                             *)
(*                                                                         *)
(* A manifest is its timestamp, 1, 2, ..., and its signature is valid; 0   *)
(* is none.  The fetch callback is SetManifest and the gossip callback is  *)
(* InjectRaw, as their comments say.                                       *)
(***************************************************************************)
EXTENDS Integers, FiniteSets

CONSTANTS
    Servers,      \* controls that serve the manifest
    Listed,       \* Listed[v]: the controls that manifest v lists
    Bootstrap,    \* the URL NewDiscoverer is given
    MaxRestarts   \* bound

Versions == DOMAIN Listed
Newest == Cardinality(Versions)

ASSUME DiscoveryAssumption ==
    /\ Newest \in Nat /\ Versions = 1..Newest
    /\ \A v \in Versions : Listed[v] \subseteq Servers
    /\ Bootstrap \subseteq Servers /\ Bootstrap # {}

VARIABLES
    serves,      \* per control: the manifest it serves
    cur,         \* the manifest whose controls are in memory
    serverURLs,
    fetched,     \* fetchAndApply: 0, or the manifest it has fetched
    toPersist,   \* who has set the controls and not yet persisted: "fetch" and
                 \* "inject", each 0 or a manifest
    cacheFile,
    manifestTS,  \* the DHT node's
    reported,    \* history: the newest manifest SetManifest was given
    restarts

dvars == <<serves, cur, serverURLs, fetched, toPersist, cacheFile, manifestTS, reported, restarts>>

NothingToPersist == [fetch |-> 0, inject |-> 0]

DInit ==
    /\ serves = [c \in Servers |-> 0]
    /\ cur = 0 /\ serverURLs = Bootstrap
    /\ fetched = 0 /\ toPersist = NothingToPersist
    /\ cacheFile = 0 /\ manifestTS = 0 /\ reported = 0 /\ restarts = 0

\* A control gets a newer manifest from the arbiter.
Publish(c) ==
    /\ serves[c] < Newest
    /\ serves' = [serves EXCEPT ![c] = @ + 1]
    /\ UNCHANGED <<cur, serverURLs, fetched, toPersist, cacheFile, manifestTS, reported, restarts>>

\* fetch: the first of the known controls, in random order, that answers.
fetch(c) ==
    /\ fetched = 0 /\ toPersist.fetch = 0
    /\ c \in serverURLs /\ serves[c] > 0
    /\ fetched' = serves[c]
    /\ UNCHANGED <<serves, cur, serverURLs, toPersist, cacheFile, manifestTS, reported, restarts>>

\* The signature is valid; a manifest that lists or leaves no control is not.
verify(v) == Listed[v] # {}

setControls(v) == cur' = v /\ serverURLs' = IF Listed[v] # {} THEN Listed[v] ELSE serverURLs

\* No comparison with the manifest that is replaced.
fetchAndApply ==
    /\ fetched # 0 /\ fetched' = 0
    /\ IF verify(fetched)
       THEN setControls(fetched) /\ toPersist' = [toPersist EXCEPT !.fetch = fetched]
       ELSE UNCHANGED <<cur, serverURLs, toPersist>>
    /\ UNCHANGED <<serves, cacheFile, manifestTS, reported, restarts>>

\* Mutant: the timestamp is not compared.
SetManifestLast(ts) == manifestTS' = ts

SetManifest(ts) == manifestTS' = IF ts > manifestTS THEN ts ELSE manifestTS

\* Mutant: an existing cache is kept.
persistOnce(v) == cacheFile' = IF cacheFile = 0 THEN v ELSE cacheFile

persist(v) == cacheFile' = v

\* The rest of fetchAndApply: persist, then the callback.
FetchDone ==
    /\ toPersist.fetch # 0
    /\ persist(toPersist.fetch)
    /\ SetManifest(toPersist.fetch)
    /\ reported' = IF toPersist.fetch > reported THEN toPersist.fetch ELSE reported
    /\ toPersist' = [toPersist EXCEPT !.fetch = 0]
    /\ UNCHANGED <<serves, cur, serverURLs, fetched, restarts>>

\* A manifest of gossip, if newer than the DHT node's: InjectRaw.
handleManifestData(v) ==
    /\ toPersist.inject = 0
    /\ v > manifestTS /\ verify(v)
    /\ setControls(v)
    /\ toPersist' = [toPersist EXCEPT !.inject = v]
    /\ UNCHANGED <<serves, fetched, cacheFile, manifestTS, reported, restarts>>

InjectDone ==
    /\ toPersist.inject # 0
    /\ persist(toPersist.inject)
    /\ toPersist' = [toPersist EXCEPT !.inject = 0]
    /\ UNCHANGED <<serves, cur, serverURLs, fetched, manifestTS, reported, restarts>>

\* The process starts again; a crash inside WriteFile leaves no usable cache.
LoadCached ==
    /\ restarts < MaxRestarts /\ restarts' = restarts + 1
    /\ cacheFile' \in {cacheFile} \cup IF toPersist # NothingToPersist THEN {0} ELSE {}
    /\ cur' = cacheFile'
    /\ serverURLs' = IF cacheFile' = 0 THEN Bootstrap ELSE Listed[cacheFile']
    /\ fetched' = 0 /\ toPersist' = NothingToPersist
    /\ manifestTS' = 0 /\ reported' = 0
    /\ UNCHANGED serves

Fetch == (\E c \in Servers : fetch(c)) \/ fetchAndApply \/ FetchDone

Gossip == \E v \in Versions : (\E c \in Servers : serves[c] >= v) /\ handleManifestData(v)

DNext == (\E c \in Servers : Publish(c)) \/ Fetch \/ Gossip \/ InjectDone \/ LoadCached

DSpec == DInit /\ [][DNext]_dvars

\* Start's ticker fetches again and again, InjectRaw returns, and the arbiter
\* reaches every control in the end.
DFairness ==
    WF_dvars(Fetch) /\ WF_dvars(InjectDone) /\ WF_dvars(\E c \in Servers : Publish(c))

-----------------------------------------------------------------------------
(* Properties                                                              *)

\* The types of the state; the controls in memory are never an empty list.
DTypeOK ==
    /\ serves \in [Servers -> 0..Newest]
    /\ {cur, fetched, cacheFile, manifestTS, reported} \subseteq 0..Newest
    /\ toPersist \in [fetch : 0..Newest, inject : 0..Newest]
    /\ serverURLs \subseteq Servers /\ serverURLs # {}
    /\ cur # 0 => Listed[cur] # {}

\* Gossip never replaces the controls by those of a manifest no newer than one
\* this session has fetched and reported to the DHT node, however the answers
\* of lagging controls are ordered (handleManifestData with SetManifest).
GossipNotOlderThanReported ==
    [][\A v \in Versions : handleManifestData(v) => v > reported]_dvars

\* When the controls have caught up with the arbiter, memory and cache both
\* come to hold the latest manifest and keep it, whatever old manifests gossip
\* brought before and in whatever order setControls and persist of the two
\* sources interleaved.
CatchesUp == <>[](cur = Newest /\ cacheFile = Newest)

\* However fetches, gossip, restarts and the two savers interleave, the client
\* keeps a list of controls that is not empty, always has a server to ask, and
\* is not taken back by gossip (verify, setControls, handleManifestData).
ControlsSound == []DTypeOK /\ GossipNotOlderThanReported
=============================================================================
