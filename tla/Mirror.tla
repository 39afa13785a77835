------------------------------- MODULE Mirror -------------------------------
(***************************************************************************)
(* The content mirror of one node (src/mirror.go) with the part of its DHT *)
(* node that advertises it (src/dht/dht_content.go): manifests arrive by   *)
(* gossip in any order, each accepted one starts a sync goroutine, and a   *)
(* newer one supersedes the syncs still running.  The process may crash.   *)
(*                                                                         *)
(* Versions are manifest timestamps; Manifests[v][f] is the content the    *)
(* version lists for file f, or 0 when it does not list it.  A sync is     *)
(* named by its version: gen changes exactly when ts does.  A chunk is     *)
(* represented by the content it belongs to; fetchChunk only returns bytes *)
(* with the right hash, so a fetch yields the chunk asked for, or fails.   *)
(***************************************************************************)
EXTENDS Integers, Sequences, Functions

CONSTANTS
    Files, NoFile,
    Versions,    \* 1..n
    Manifests,
    Chunks,      \* chunks of each file
    Inodes       \* of each file

\* The inodes are enough for the file in place and those that syncs have open.
ASSUME MirrorAssumption ==
    /\ Versions \subseteq Nat \ {0} /\ Chunks \in Nat /\ 0 \notin Inodes /\ Inodes # {}
    /\ \A used \in [Versions \cup {0} -> Inodes] : Inodes # Range(used)

Contents == {Manifests[v][f] : v \in Versions, f \in Files}

VARIABLES
    ts,                   \* MirrorManager.ts; a gen is current when its version is ts
    chunkIdx,             \* the version chunkIdx was built from
    contentTS, complete,  \* dht.Node: contentTS, contentComplete
    sync,                 \* the sync goroutine of each version: where it is, its locals
    part, abs,            \* directory entries of f.part and of f: an inode or 0
    data,                 \* bytes of each inode a file has had, a sequence of chunks
    state,                \* .manifest.json: its version, 0 when absent or corrupt
    earned,               \* history: versions whose sync succeeded in this process
    calm                  \* history: no failed file, overlapping syncs or crash in a sync

dht  == <<contentTS, complete>>
disk == <<part, abs, data, state>>
vars == <<ts, chunkIdx, dht, sync, disk, earned, calm>>

M(v) == IF v = 0 THEN [f \in Files |-> 0] ELSE Manifests[v]
Listed(v) == {f \in Files : M(v)[f] # 0}

\* late: history, files installed after the sync was superseded.
NoSync == [pc |-> "none", prev |-> 0, left |-> {}, file |-> NoFile, out |-> 0,
           written |-> 0, ok |-> TRUE, late |-> 0]
Running(v) == sync[v].pc # "none"

Init ==
    /\ ts = 0 /\ chunkIdx = 0 /\ contentTS = 0 /\ complete = FALSE
    /\ sync = [v \in Versions |-> NoSync]
    /\ part = [f \in Files |-> 0] /\ abs = [f \in Files |-> 0]
    /\ data = [f \in Files |-> [i \in Inodes |-> <<>>]] /\ state = 0
    /\ earned = {} /\ calm = TRUE

-----------------------------------------------------------------------------
(* dht.Node: what this node advertises                                     *)

SetContent(v) ==
    /\ contentTS' = IF v > contentTS THEN v ELSE contentTS
    /\ complete' = IF v > contentTS THEN FALSE ELSE complete

\* Mutant: a finished download marks whatever version is current.
SetContentCompleteAny(v, c) == complete' = c /\ UNCHANGED contentTS

SetContentComplete(v, c) ==
    /\ complete' = IF v = contentTS THEN c ELSE complete
    /\ UNCHANGED contentTS

-----------------------------------------------------------------------------
(* OnContentManifest                                                       *)

\* Where sync v goes next, and what becomes of its locals.
Step(v, label, locals) == sync' = [sync EXCEPT ![v] = [locals EXCEPT !.pc = label]]
Return(v) == sync' = [sync EXCEPT ![v] = NoSync]

\* handleContentData has filtered by contentTS; as contentTS never exceeds ts,
\* the comparison made here decides.
OnContentManifest(v) ==
    /\ v > ts
    /\ ts' = v
    /\ Step(v, "accepted", NoSync)
    /\ calm' = (calm /\ \A w \in Versions : ~Running(w))
    /\ UNCHANGED <<chunkIdx, dht, disk, earned>>

-----------------------------------------------------------------------------
(* sync                                                                    *)

Links(f) == {part[f], abs[f]} \cup {sync[v].out : v \in {w \in Versions : sync[w].file = f}}

\* An inode with no name and no descriptor is freed.
FreeData ==
    data' = [f \in Files |-> [i \in Inodes |-> IF i \in Links(f)' THEN data[f][i] ELSE <<>>]]

superseded(v) == ts # v

\* The rest of OnContentManifest, where SetContentComplete(v, FALSE) finds
\* nothing left to do after SetContent, and sync as far as loadPrevFileList.
\* The two touch different state.
loadPrevFileList(v) ==
    LET gone == Listed(state) \ Listed(v) IN
    /\ sync[v].pc = "accepted"
    /\ SetContent(v)
    /\ Step(v, IF gone = {} THEN "loop" ELSE "delete",
            [sync[v] EXCEPT !.prev = state, !.left = IF gone = {} THEN Listed(v) ELSE gone])
    /\ UNCHANGED <<ts, chunkIdx, disk, earned, calm>>

\* Files no longer listed are removed, in map order; an error is only logged.
Delete(v) ==
    /\ sync[v].pc = "delete"
    /\ \E f \in sync[v].left :
        /\ LET rest == sync[v].left \ {f} IN
            Step(v, IF rest = {} THEN "loop" ELSE "delete",
                 [sync[v] EXCEPT !.left = IF rest = {} THEN Listed(v) ELSE rest])
        /\ \/ abs' = [abs EXCEPT ![f] = 0] /\ UNCHANGED calm
           \/ calm' = FALSE /\ UNCHANGED abs
    /\ UNCHANGED <<ts, chunkIdx, dht, part, state, earned>>
    /\ FreeData

\* Mutant: any file the last manifest listed is taken for unchanged.
sameChunksByName(v, f) == f \in Listed(sync[v].prev)

sameChunks(v, f) == M(sync[v].prev)[f] = M(v)[f]

\* The head of the loop over sm.Files, and the check after it.
Loop(v) ==
    /\ sync[v].pc = "loop"
    /\ \/ superseded(v) /\ Return(v)
       \/ ~superseded(v) /\ sync[v].left = {} /\ Step(v, "persist", sync[v])
       \/ ~superseded(v) /\ \E f \in sync[v].left :
            \/ sameChunks(v, f) /\ Step(v, "loop", [sync[v] EXCEPT !.left = @ \ {f}])
            \/ ~sameChunks(v, f) /\ Step(v, "open", [sync[v] EXCEPT !.left = @ \ {f}, !.file = f])
    /\ UNCHANGED <<ts, chunkIdx, dht, disk, earned, calm>>

-----------------------------------------------------------------------------
(* syncFile                                                                *)

\* O_CREATE|O_TRUNC: every sync of f opens the same name, so one that finds a
\* .part file of another sync empties it and shares it.
OpenPart(v) ==
    /\ sync[v].pc = "open"
    /\ LET f == sync[v].file
           i == IF part[f] # 0 THEN part[f] ELSE CHOOSE j \in Inodes : j \notin Links(f)
       IN /\ part' = [part EXCEPT ![f] = i]
          /\ data' = [data EXCEPT ![f][i] = <<>>]
          /\ Step(v, "chunk", [sync[v] EXCEPT !.out = i, !.written = 0])
    /\ UNCHANGED <<ts, chunkIdx, dht, abs, state, earned, calm>>

\* A file that fails is remembered in ok, and the sync goes on with the next.
FileFailed(v, label) ==
    /\ Step(v, label, [sync[v] EXCEPT !.ok = FALSE])
    /\ calm' = FALSE

\* Neither directory nor temporary file can be made.
OpenFails(v) ==
    /\ sync[v].pc = "open"
    /\ FileFailed(v, "loop")
    /\ UNCHANGED <<ts, chunkIdx, dht, disk, earned>>

\* Before each chunk.
NextChunk(v) ==
    /\ sync[v].pc = "chunk" /\ sync[v].written < Chunks
    /\ \/ superseded(v) /\ FileFailed(v, "remove")
       \/ ~superseded(v) /\ Step(v, "fetch", sync[v]) /\ UNCHANGED calm
    /\ UNCHANGED <<ts, chunkIdx, dht, disk, earned>>

\* A write past the end leaves a hole, as the file may have been emptied.
WriteAt(s, k, c) ==
    [i \in 1..(IF k > Len(s) THEN k ELSE Len(s)) |->
       IF i = k THEN c ELSE IF i <= Len(s) THEN s[i] ELSE 0]

\* fetchChunk returned the chunk: it is written through the open descriptor.
Fetched(v) ==
    LET s == sync[v] IN
    /\ s.pc = "fetch"
    /\ data' = [data EXCEPT ![s.file][s.out] = WriteAt(@, s.written + 1, M(v)[s.file])]
    /\ Step(v, "chunk", [s EXCEPT !.written = @ + 1])
    /\ UNCHANGED <<ts, chunkIdx, dht, part, abs, state, earned, calm>>

\* Mutant: the chunk is asked for again until somebody has it.
FetchFailsRetry(v) ==
    /\ sync[v].pc = "fetch" /\ Step(v, "chunk", sync[v])
    /\ UNCHANGED <<ts, chunkIdx, dht, disk, earned, calm>>

\* No peer and no control had the chunk, or the write failed.
FetchFails(v) ==
    /\ sync[v].pc = "fetch"
    /\ FileFailed(v, "remove")
    /\ UNCHANGED <<ts, chunkIdx, dht, disk, earned>>

\* Rename moves whatever the name .part stands for by now.
Rename(v) ==
    LET f == sync[v].file IN
    /\ sync[v].pc = "chunk" /\ sync[v].written = Chunks
    /\ \/ /\ part[f] # 0
          /\ abs' = [abs EXCEPT ![f] = part[f]] /\ part' = [part EXCEPT ![f] = 0]
          /\ Step(v, "remove", [sync[v] EXCEPT !.late = IF ts # v THEN @ + 1 ELSE @])
          /\ UNCHANGED calm
       \/ FileFailed(v, "remove") /\ UNCHANGED <<part, abs>>
    /\ UNCHANGED <<ts, chunkIdx, dht, state, earned>>
    /\ FreeData

\* The deferred os.Remove(tmp), "no-op once renamed" unless another sync has
\* made a new one.
RemoveTmp(v) ==
    /\ sync[v].pc = "remove"
    /\ part' = [part EXCEPT ![sync[v].file] = 0]
    /\ Step(v, "loop", [sync[v] EXCEPT !.file = NoFile, !.out = 0, !.written = 0])
    /\ UNCHANGED <<ts, chunkIdx, dht, abs, state, earned, calm>>
    /\ FreeData

-----------------------------------------------------------------------------
(* The end of sync                                                         *)

\* The state file is written whether or not every file was synced.
Persist(v) ==
    /\ sync[v].pc = "persist"
    /\ \/ state' = v /\ UNCHANGED calm
       \/ calm' = FALSE /\ UNCHANGED state
    /\ IF sync[v].ok THEN Step(v, "index", sync[v]) ELSE Return(v)
    /\ UNCHANGED <<ts, chunkIdx, dht, part, abs, data, earned>>

Index(v) ==
    /\ sync[v].pc = "index"
    /\ chunkIdx' = v
    /\ Step(v, "announce", sync[v])
    /\ UNCHANGED <<ts, dht, disk, earned, calm>>

AnnounceComplete(v) ==
    /\ sync[v].pc = "announce"
    /\ SetContentComplete(v, TRUE)
    /\ earned' = earned \cup {v}
    /\ Return(v)
    /\ UNCHANGED <<ts, chunkIdx, disk, calm>>

-----------------------------------------------------------------------------
\* The process dies and starts again.  WriteFile truncates first: a crash in
\* it may leave a state file that cannot be parsed.
LoadCached ==
    /\ state' \in {state} \cup {0 : v \in {w \in Versions : sync[w].pc = "persist"}}
    /\ ts' = state'
    /\ chunkIdx' = 0 /\ contentTS' = 0 /\ complete' = FALSE
    /\ sync' = [v \in Versions |-> NoSync]
    /\ earned' = {}
    /\ calm' = (calm /\ \A v \in Versions : ~Running(v))
    /\ UNCHANGED <<part, abs>>
    /\ FreeData

Sync(v) ==
    \/ loadPrevFileList(v) \/ Delete(v) \/ Loop(v)
    \/ OpenPart(v) \/ OpenFails(v) \/ NextChunk(v) \/ Fetched(v) \/ FetchFails(v)
    \/ Rename(v) \/ RemoveTmp(v) \/ Persist(v) \/ Index(v) \/ AnnounceComplete(v)

Next == LoadCached \/ \E v \in Versions : OnContentManifest(v) \/ Sync(v)

Spec == Init /\ [][Next]_vars

\* Sync goroutines run, and their fetches return: peers and controls are asked
\* with timeouts.  As each takes finitely many steps, it is enough that some
\* goroutine runs.
Fairness == WF_vars(\E v \in Versions : Sync(v))

FairSpec == Spec /\ Fairness

-----------------------------------------------------------------------------
Labels == {"none", "accepted", "delete", "loop", "open", "chunk", "fetch", "remove",
           "persist", "index", "announce"}

SyncType ==
    [pc : Labels,
     prev : Versions \cup {0}, left : SUBSET Files, file : Files \cup {NoFile},
     out : Inodes \cup {0}, written : 0..Chunks, ok : BOOLEAN, late : Nat]

\* Every variable stays in its domain; in particular no file grows past its
\* chunks, and the DHT node never knows a version the mirror does not.
TypeOK ==
    /\ ts \in Versions \cup {0} /\ chunkIdx \in Versions \cup {0}
    /\ contentTS \in 0..ts /\ complete \in BOOLEAN
    /\ sync \in [Versions -> SyncType]
    /\ part \in [Files -> Inodes \cup {0}] /\ abs \in [Files -> Inodes \cup {0}]
    /\ \A f \in Files : \A i \in Inodes :
        Len(data[f][i]) <= Chunks /\ Range(data[f][i]) \subseteq Contents \cup {0}
    /\ state \in Versions \cup {0} /\ earned \subseteq Versions /\ calm \in BOOLEAN

\* What the directory shows for f: its content when the file is whole.
Installed(f, c) ==
    IF c = 0 THEN abs[f] = 0
    ELSE abs[f] # 0 /\ data[f][abs[f]] = [k \in 1..Chunks |-> c]

\* "completeness must be re-earned by actually downloading the new version's
\* chunks": a node that advertises itself complete has, since it was started,
\* brought a sync of exactly that version to its end without a failed file,
\* however many older syncs end late.
CompleteIsEarned == complete => contentTS \in earned

\* Syncs that do not overlap, lose no file and are not cut by a crash leave
\* what the manifest promises: when complete is advertised every listed file is
\* there with its content, no other file is, and the index serves that version.
\* Restarts between syncs do no harm.
CompleteWhenCalm ==
    calm /\ complete =>
        chunkIdx = contentTS /\ \A f \in Files : Installed(f, M(contentTS)[f])

\* A superseded sync stops early: it looks before every file and every chunk, so
\* at most the one file it is finishing still reaches the directory.
SupersededInstallsOne == \A v \in Versions : sync[v].late <= 1

\* Overlapping syncs do not spoil one another: "complete" is advertised only
\* for a version that was itself downloaded, and a superseded sync installs at
\* most one more file (syncContent, superseded, SetContentComplete).
SyncSound == TypeOK /\ CompleteIsEarned /\ SupersededInstallsOne

\* Syncs come to an end, whatever fetches, disk and newer manifests do: again
\* and again, as the published versions are finitely many, no sync is left.
SyncsEnd == []<>(\A v \in Versions : ~Running(v))

\* "Only announce "complete" when every file actually synced": a node that
\* advertises itself complete has every listed file.
CompleteMeansAll ==
    complete => \A f \in Files : M(contentTS)[f] # 0 => Installed(f, M(contentTS)[f])
=============================================================================
