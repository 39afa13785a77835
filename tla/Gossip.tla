------------------------------- MODULE Gossip -------------------------------
(***************************************************************************)
(* How content manifests spread (src/dht/dht_content.go): a node tells its *)
(* contacts which version it has and whether it has all of its files; one  *)
(* that knows less asks for the manifest and hands it to its mirror        *)
(* (src/mirror.go, the callbacks of NewMirrorManager), which gives it back *)
(* to be told on.  Datagrams are lost, and processes start again.          *)
(*                                                                         *)
(* A link holds the message its exchange has come to: an exchange is over, *)
(* or lost, before the next Have 25 s later.  A manifest is its timestamp. *)
(***************************************************************************)
EXTENDS Naturals

CONSTANTS
    Nodes, Origin,   \* Origin: the control that publishes
    Near,            \* Near[n]: the contacts n's routing table returns
    Latest,          \* bound: versions published
    MaxNodeRestarts, \* bound
    MaxLost          \* bound: datagrams lost

ASSUME GossipAssumption ==
    /\ Origin \in Nodes /\ Near \in [Nodes -> SUBSET Nodes]
    /\ Latest \in Nat /\ MaxNodeRestarts \in Nat /\ MaxLost \in Nat

VARIABLES
    content,    \* dht.Node of each node: contentTS, contentComplete
    mirrorTS,   \* MirrorManager.ts
    stateFile,  \* the version in .manifest.json
    index,      \* completePeers: the last Have of each peer
    link,       \* the message under way between each node and a contact
    downloaded, \* history: versions each node has completed, ever
    forgotten,  \* history: a node that had a manifest on disk has been restarted
    nodeRestarts, lost

gvars == <<content, mirrorTS, stateFile, index, link, downloaded, forgotten, nodeRestarts, lost>>
hist == <<downloaded, forgotten, nodeRestarts, lost>>

Edges == {l \in Nodes \X Nodes : l[2] \in Near[l[1]]}
Nothing == [type |-> "none", ts |-> 0, complete |-> FALSE]

GInit ==
    /\ content = [n \in Nodes |-> [ts |-> 0, complete |-> FALSE]]
    /\ mirrorTS = [n \in Nodes |-> 0] /\ stateFile = [n \in Nodes |-> 0]
    /\ index = [n \in Nodes |-> [p \in Nodes |-> [ts |-> 0, complete |-> FALSE]]]
    /\ link = [l \in Edges |-> Nothing]
    /\ downloaded = [n \in Nodes |-> {}] /\ forgotten = FALSE
    /\ nodeRestarts = 0 /\ lost = 0

-----------------------------------------------------------------------------
(* What a node knows                                                       *)

\* Mutant: complete keeps its value.
ContentKept(old, v) == IF v > old.ts THEN [old EXCEPT !.ts = v] ELSE old

\* SetContent: "completeness must be re-earned".
Content(old, v) == IF v > old.ts THEN [ts |-> v, complete |-> FALSE] ELSE old

\* SetContentComplete: no effect when another version is known by now.
Completed(old, v) == IF v = old.ts THEN [old EXCEPT !.complete = TRUE] ELSE old

\* record: the last message counts.
Record(n, p, m) == index' = [index EXCEPT ![n][p] = [ts |-> m.ts, complete |-> m.complete]]

\* Entries older than RelayTTL are left out too; time is not modelled.
peersFor(n, v) == {p \in Nodes : index[n][p].complete /\ index[n][p].ts = v}

-----------------------------------------------------------------------------
(* The exchange: Have, Want, the manifest                                  *)

\* The arbiter's next manifest reaches the control.
PublishContent ==
    /\ mirrorTS[Origin] < Latest
    /\ content' = [content EXCEPT ![Origin] = Content(@, mirrorTS[Origin] + 1)]
    /\ mirrorTS' = [mirrorTS EXCEPT ![Origin] = @ + 1]
    /\ UNCHANGED <<stateFile, index, link, hist>>

\* Both values are read under one lock.
gossipContentHave(n) ==
    /\ content[n].ts # 0
    /\ link' = [l \in Edges |-> IF l[1] = n /\ link[l] = Nothing
            THEN [type |-> "have", ts |-> content[n].ts, complete |-> content[n].complete] ELSE link[l]]
    /\ UNCHANGED <<content, mirrorTS, stateFile, index, hist>>

handleContentHave(n, p) ==
    LET m == link[<<p, n>>] IN
    /\ m.type = "have"
    /\ Record(n, p, m)
    /\ link' = [link EXCEPT ![<<p, n>>] =
            IF m.ts > content[n].ts THEN [Nothing EXCEPT !.type = "want"] ELSE Nothing]
    /\ UNCHANGED <<content, mirrorTS, stateFile, hist>>

\* The manifest p has by now, if it still has one.
handleContentWant(n, p) ==
    /\ link[<<p, n>>].type = "want"
    /\ link' = [link EXCEPT ![<<p, n>>] =
            IF content[p].ts = 0 THEN Nothing ELSE [Nothing EXCEPT !.type = "data", !.ts = content[p].ts]]
    /\ UNCHANGED <<content, mirrorTS, stateFile, index, hist>>

\* Mutant: the manifest is kept for the node's own download and not told on.
AcceptSilently(n, v) ==
    IF v > mirrorTS[n]
    THEN mirrorTS' = [mirrorTS EXCEPT ![n] = v] /\ UNCHANGED content
    ELSE UNCHANGED <<mirrorTS, content>>

\* OnContentManifest: told on before it is downloaded.
Accept(n, v) ==
    IF v > mirrorTS[n]
    THEN mirrorTS' = [mirrorTS EXCEPT ![n] = v] /\ content' = [content EXCEPT ![n] = Content(@, v)]
    ELSE UNCHANGED <<mirrorTS, content>>

handleContentData(n, p) ==
    LET m == link[<<p, n>>] IN
    /\ m.type = "data"
    /\ IF m.ts > content[n].ts THEN Accept(n, m.ts) ELSE UNCHANGED <<mirrorTS, content>>
    /\ link' = [link EXCEPT ![<<p, n>>] = Nothing]
    /\ UNCHANGED <<stateFile, index, hist>>

Lose(l) ==
    /\ link[l] # Nothing /\ link' = [link EXCEPT ![l] = Nothing]
    /\ lost < MaxLost /\ lost' = lost + 1
    /\ UNCHANGED <<content, mirrorTS, stateFile, index, downloaded, forgotten, nodeRestarts>>

-----------------------------------------------------------------------------
\* A sync has saved its state and announces; module Mirror has its steps, and
\* the syncs that are overtaken.
SyncEnds(n) ==
    /\ mirrorTS[n] # 0 /\ mirrorTS[n] \notin downloaded[n]
    /\ stateFile' = [stateFile EXCEPT ![n] = mirrorTS[n]]
    /\ downloaded' = [downloaded EXCEPT ![n] = @ \cup {mirrorTS[n]}]
    /\ content' = [content EXCEPT ![n] = Completed(@, mirrorTS[n])]
    /\ UNCHANGED <<mirrorTS, index, link, forgotten, nodeRestarts, lost>>

\* The mirror's timestamp is read from disk; the DHT node starts with nothing,
\* and learns nothing the mirror does not take for newer.  The control that
\* publishes stays up.
RestartNode(n) ==
    /\ n # Origin
    /\ nodeRestarts < MaxNodeRestarts /\ nodeRestarts' = nodeRestarts + 1
    /\ content' = [content EXCEPT ![n] = [ts |-> 0, complete |-> FALSE]]
    /\ mirrorTS' = [mirrorTS EXCEPT ![n] = stateFile[n]]
    /\ index' = [index EXCEPT ![n] = [p \in Nodes |-> [ts |-> 0, complete |-> FALSE]]]
    /\ forgotten' = (forgotten \/ stateFile[n] # 0)
    /\ UNCHANGED <<stateFile, link, downloaded, lost>>

Handle(l) ==
    handleContentHave(l[2], l[1]) \/ handleContentWant(l[2], l[1]) \/ handleContentData(l[2], l[1])

GNext ==
    \/ PublishContent
    \/ \E n \in Nodes : gossipContentHave(n) \/ SyncEnds(n) \/ RestartNode(n)
    \/ \E l \in Edges : Handle(l) \/ Lose(l)

GSpec == GInit /\ [][GNext]_gvars

\* The maintenance loop gossips on, and a datagram that is not lost is handled.
GFairness ==
    /\ \A n \in Nodes : WF_gvars(gossipContentHave(n))
    /\ \A l \in Edges : WF_gvars(Handle(l))

-----------------------------------------------------------------------------
\* The types of the state; what a node tells is never newer than its mirror.
GTypeOK ==
    /\ \A n \in Nodes :
        /\ mirrorTS[n] \in 0..Latest /\ content[n].ts \in 0..mirrorTS[n]
        /\ stateFile[n] \in 0..mirrorTS[n] /\ downloaded[n] \subseteq 1..Latest
    /\ \A l \in Edges : link[l].type \in {"none", "have", "want", "data"} /\ link[l].ts \in 0..Latest

\* The index of who has a version can be relied on: a peer it lists has finished
\* downloading exactly that version, however stale, lost or overtaken the
\* announcements it was built from, and whoever has been restarted.
IndexIsEarned ==
    \A n, p \in Nodes : \A v \in 1..Latest : p \in peersFor(n, v) => v \in downloaded[p]

\* Announcements can be believed: no node announces or saves a version that its
\* mirror does not know, and whom peersFor returns has that version
\* (gossipContentHave, handleContentHave, peersFor).
IndexSound == GTypeOK /\ IndexIsEarned

\* "this node keeps the epidemic spread going even before its own download
\* finishes": the latest version reaches every node, through nodes that never
\* finish a download too.  The exception is a restart of a node that has a
\* manifest on disk: its mirror knows the version and its DHT node does not, so
\* it takes no part in spreading it again.
Spreads == content[Origin].ts = Latest ~> forgotten \/ \A n \in Nodes : mirrorTS[n] = Latest
=============================================================================
