---------------------------- MODULE MirrorProofs ----------------------------
(***************************************************************************)
(* The mirror's syncs, for any files, chunks and published versions.       *)
(* SyncSound follows from BaseInv: what each sync knows of its own file,   *)
(* and of a version newer than its own, stays true whatever others do.     *)
(* CompleteWhenCalm follows from CalmInv, which says for every step of the *)
(* one sync that runs which files are already the new version's.           *)
(***************************************************************************)
EXTENDS Mirror, TLAPS

\* The backends, in the order in which a leaf that names none tries them.
USE SMT, ZenonT(20), Z3T(60), SMTT(60)

InPart == {"chunk", "fetch"}

\* What sync v, at s, knows when ts is t, whatever the other syncs have done.
LocalInv(v, s, t) ==
    /\ s.pc # "none" => v <= t
    /\ s.pc \in {"open", "chunk", "fetch", "remove"} => s.file \in Files
    /\ s.pc \in InPart => s.out \in Inodes
    /\ s.pc = "fetch" => s.written < Chunks
    /\ s.late = 0 \/ (s.late = 1 /\ s.pc \in {"loop", "remove"} /\ v < t)

\* What a file may hold.
Chunked == {s \in Seq(Contents \cup {0}) : Len(s) <= Chunks}

\* What holds in every reachable state.
BaseInv ==
    /\ ts \in Versions \cup {0} /\ chunkIdx \in Versions \cup {0}
    /\ contentTS \in Versions \cup {0} /\ contentTS <= ts /\ complete \in BOOLEAN
    /\ sync \in [Versions -> SyncType]
    /\ \A v \in Versions : LocalInv(v, sync[v], ts)
    /\ part \in [Files -> Inodes \cup {0}] /\ abs \in [Files -> Inodes \cup {0}]
    /\ data \in [Files -> [Inodes -> Chunked]]
    /\ state \in Versions \cup {0} /\ earned \subseteq Versions /\ calm \in BOOLEAN
    /\ CompleteIsEarned

\* A sync keeps its bookkeeping, and no other sync's.
LEMMA SyncStep ==
    ASSUME sync \in [Versions -> SyncType], \A w \in Versions : LocalInv(w, sync[w], ts),
           NEW v \in Versions, NEW l \in SyncType, LocalInv(v, l, ts),
           sync' = [sync EXCEPT ![v] = l], ts' = ts
    PROVE  /\ sync' \in [Versions -> SyncType]
           /\ \A w \in Versions : LocalInv(w, sync'[w], ts')
           /\ sync'[v] = l /\ \A w \in Versions \ {v} : sync'[w] = sync[w]
OBVIOUS

\* A sync that is not running knows nothing.
LEMMA NoSyncSound ==
    ASSUME NEW v, NEW t PROVE NoSync \in SyncType /\ LocalInv(v, NoSync, t)
BY MirrorAssumption DEF NoSync, SyncType, Labels, LocalInv, InPart

\* A file may be empty.
LEMMA EmptyChunked == <<>> \in Chunked
BY MirrorAssumption DEF Chunked

\* A chunk written anywhere leaves a file of chunks (WriteAt through the
\* descriptor of a .part file).
LEMMA WriteChunked ==
    ASSUME NEW s \in Chunked, NEW k \in 1..Chunks, NEW c \in Contents \cup {0}
    PROVE  WriteAt(s, k, c) \in Chunked
<1>1. s \in Seq(Contents \cup {0}) /\ Len(s) <= Chunks /\ Len(s) \in Nat
  BY DEF Chunked
<1>2. \A i \in 1..Len(s) : s[i] \in Contents \cup {0}
  BY <1>1
<1> DEFINE n == IF k > Len(s) THEN k ELSE Len(s)
<1> DEFINE x(i) == IF i = k THEN c ELSE IF i <= Len(s) THEN s[i] ELSE 0
<1>3. n \in Nat /\ n <= Chunks
  BY <1>1, MirrorAssumption
<1>4. \A i \in 1..n : x(i) \in Contents \cup {0}
  BY <1>1, <1>2
<1>5. WriteAt(s, k, c) = [i \in 1..n |-> x(i)]
  BY DEF WriteAt
<1> HIDE DEF n, x
<1>6. [i \in 1..n |-> x(i)] \in Seq(Contents \cup {0})
  BY <1>3, <1>4
<1>7. Len([i \in 1..n |-> x(i)]) = n
  BY <1>3
<1> QED
  BY <1>3, <1>5, <1>6, <1>7 DEF Chunked

\* Written in order, the chunks make up the file.
LEMMA WriteNext ==
    ASSUME NEW n \in Nat, NEW c
    PROVE  WriteAt([k \in 1..n |-> c], n + 1, c) = [k \in 1..(n + 1) |-> c]
<1>1. Len([k \in 1..n |-> c]) = n
  OBVIOUS
<1> QED
  BY <1>1 DEF WriteAt

\* Freeing what nobody can reach leaves every other file as it was.
LEMMA FreeKeeps ==
    ASSUME data \in [Files -> [Inodes -> Chunked]], FreeData
    PROVE  /\ data' \in [Files -> [Inodes -> Chunked]]
           /\ \A f \in Files : \A i \in Inodes : i \in Links(f)' => data'[f][i] = data[f][i]
BY EmptyChunked, Zenon DEF FreeData

\* There is always an inode for a new .part file.
LEMMA FreeInode ==
    ASSUME BaseInv, NEW f \in Files, part[f] = 0
    PROVE  /\ (CHOOSE j \in Inodes : j \notin Links(f)) \in Inodes
           /\ (CHOOSE j \in Inodes : j \notin Links(f)) \notin Links(f)
<1>1. PICK one \in Inodes : TRUE
  BY MirrorAssumption
<1> DEFINE held(x) == IF x = 0 THEN abs[f] ELSE sync[x].out
<1> DEFINE used == [x \in Versions \cup {0} |-> IF held(x) \in Inodes THEN held(x) ELSE one]
<1>2. used \in [Versions \cup {0} -> Inodes]
  BY <1>1
<1>3. Range(used) \subseteq Inodes
  BY <1>2, Zenon DEF Range
<1>4. Inodes # Range(used)
  BY <1>2, MirrorAssumption, Zenon
<1>5. PICK j \in Inodes : j \notin Range(used)
  BY <1>3, <1>4
<1>6. \A x \in Versions \cup {0} : used[x] # j
  BY <1>2, <1>5, Zenon DEF Range
<1>7. j # abs[f]
  BY <1>5, <1>6, Zenon
<1>8. \A x \in Versions : sync[x].out # j
  <2>1. TAKE x \in Versions
  <2>2. x # 0 /\ used[x] # j
    BY <1>6, MirrorAssumption, Zenon
  <2> QED
    BY <1>5, <2>2
<1>9. j \notin Links(f)
  BY <1>5, <1>7, <1>8, MirrorAssumption DEF Links
<1> QED
  BY <1>5, <1>9, Zenon

\* The locals of a sync that only goes on to its next step.
LEMMA RelabelLocals ==
    ASSUME NEW s \in SyncType, NEW label \in Labels
    PROVE  LET l == [s EXCEPT !.pc = label] IN
           /\ l \in SyncType /\ l.pc = label /\ l.prev = s.prev /\ l.left = s.left
           /\ l.file = s.file /\ l.out = s.out /\ l.written = s.written /\ l.ok = s.ok
           /\ l.late = s.late
BY DEF SyncType, Labels

\* ... of one that has opened its .part file,
LEMMA OpenLocals ==
    ASSUME NEW s \in SyncType, NEW i \in Inodes
    PROVE  LET l == [[s EXCEPT !.out = i, !.written = 0] EXCEPT !.pc = "chunk"] IN
           /\ l \in SyncType /\ l.pc = "chunk" /\ l.prev = s.prev /\ l.left = s.left
           /\ l.file = s.file /\ l.out = i /\ l.written = 0 /\ l.ok = s.ok /\ l.late = s.late
<1> DEFINE m == [s EXCEPT !.out = i, !.written = 0]
<1>1. 0 \in 0..Chunks
  BY MirrorAssumption
<1>2. m \in SyncType
  BY <1>1, Zenon DEF SyncType
<1>3. /\ m.prev = s.prev /\ m.left = s.left /\ m.file = s.file /\ m.out = i /\ m.written = 0
      /\ m.ok = s.ok /\ m.late = s.late
  BY DEF SyncType
<1> QED
  BY <1>2, <1>3, RelabelLocals, ZenonT(60) DEF Labels

\* ... that has renamed it,
LEMMA LateLocals ==
    ASSUME NEW s \in SyncType, NEW n \in Nat
    PROVE  LET l == [[s EXCEPT !.late = n] EXCEPT !.pc = "remove"] IN
           /\ l \in SyncType /\ l.pc = "remove" /\ l.prev = s.prev /\ l.left = s.left
           /\ l.file = s.file /\ l.ok = s.ok /\ l.late = n
<1> DEFINE m == [s EXCEPT !.late = n]
<1>1. m \in SyncType
  BY DEF SyncType
<1>2. /\ m.prev = s.prev /\ m.left = s.left /\ m.file = s.file /\ m.ok = s.ok
      /\ m.late = n
  BY DEF SyncType
<1> QED
  BY <1>1, <1>2, RelabelLocals, Zenon DEF Labels

\* ... and that is done with the file.
LEMMA CloseLocals ==
    ASSUME NEW s \in SyncType
    PROVE  LET l == [[s EXCEPT !.file = NoFile, !.out = 0, !.written = 0] EXCEPT !.pc = "loop"] IN
           /\ l \in SyncType /\ l.pc = "loop" /\ l.prev = s.prev /\ l.left = s.left
           /\ l.ok = s.ok /\ l.late = s.late
<1> DEFINE m == [s EXCEPT !.file = NoFile, !.out = 0, !.written = 0]
<1>1. 0 \in 0..Chunks
  BY MirrorAssumption
<1>2. m \in SyncType
  BY <1>1, Zenon DEF SyncType
<1>3. m.prev = s.prev /\ m.left = s.left /\ m.ok = s.ok /\ m.late = s.late
  BY DEF SyncType
<1> QED
  BY <1>2, <1>3, RelabelLocals, ZenonT(60) DEF Labels

\* Each step of a sync keeps what the sync knows of itself.
LEMMA LocalStep ==
    ASSUME BaseInv, NEW v \in Versions, Sync(v)
    PROVE  \E l \in SyncType : LocalInv(v, l, ts) /\ sync' = [sync EXCEPT ![v] = l]
<1> DEFINE s == sync[v]
<1>1. s \in SyncType /\ LocalInv(v, s, ts) /\ v \in Nat /\ ts \in Nat /\ Chunks \in Nat
  BY MirrorAssumption DEF BaseInv
<1>2. NoSync \in SyncType /\ LocalInv(v, NoSync, ts)
  BY NoSyncSound
<1>3. \A w \in Versions \cup {0} : Listed(w) \subseteq Files
  BY DEF Listed
<1>4. CASE loadPrevFileList(v)
  <2>1. state \in Versions \cup {0} /\ Listed(state) \ Listed(v) \subseteq Files
    BY <1>3 DEF BaseInv
  <2> QED
    BY <1>1, <1>3, <1>4, <2>1, Zenon DEF loadPrevFileList, Step, SyncType, Labels, LocalInv,
       InPart
<1>5. CASE Delete(v)
  BY <1>1, <1>3, <1>5, Zenon DEF Delete, Step, SyncType, Labels, LocalInv, InPart
<1>6. CASE Loop(v)
  <2>1. CASE Return(v)
    BY <1>2, <2>1, Zenon DEF Return
  <2>2. CASE ~superseded(v) /\ s.pc = "loop" /\ Step(v, "persist", s)
    <3> DEFINE l == [s EXCEPT !.pc = "persist"]
    <3>1. l \in SyncType /\ l.pc = "persist" /\ l.late = s.late
      BY <1>1, RelabelLocals, Zenon DEF Labels
    <3>2. LocalInv(v, l, ts)
      BY <1>1, <2>2, <3>1 DEF superseded, LocalInv, InPart
    <3> QED
      BY <2>2, <3>1, <3>2, Zenon DEF Step
  <2>3. ASSUME ~superseded(v), s.pc = "loop", NEW f \in s.left,
               Step(v, "loop", [s EXCEPT !.left = @ \ {f}])
        PROVE  \E l \in SyncType : LocalInv(v, l, ts) /\ sync' = [sync EXCEPT ![v] = l]
    BY <1>1, <2>3, Zenon DEF Step, superseded, SyncType, Labels, LocalInv, InPart
  <2>4. ASSUME ~superseded(v), s.pc = "loop", NEW f \in s.left,
               Step(v, "open", [s EXCEPT !.left = @ \ {f}, !.file = f])
        PROVE  \E l \in SyncType : LocalInv(v, l, ts) /\ sync' = [sync EXCEPT ![v] = l]
    <3> DEFINE l == [[s EXCEPT !.left = @ \ {f}, !.file = f] EXCEPT !.pc = "open"]
    <3>1. l \in SyncType /\ l.pc = "open" /\ l.file = f /\ l.late = s.late /\ f \in Files
      BY <1>1, <2>4, Zenon DEF SyncType, Labels
    <3>2. LocalInv(v, l, ts)
      BY <1>1, <2>4, <3>1 DEF superseded, LocalInv, InPart
    <3> QED
      BY <2>4, <3>1, <3>2, Zenon DEF Step
  <2> QED
    BY <1>6, <2>1, <2>2, <2>3, <2>4, Zenon DEF Loop
<1>7. CASE OpenPart(v)
  <2>1. PICK i \in Inodes : Step(v, "chunk", [s EXCEPT !.out = i, !.written = 0])
    BY <1>1, <1>7, FreeInode, Zenon DEF OpenPart, BaseInv, LocalInv
  <2> DEFINE l == [[s EXCEPT !.out = i, !.written = 0] EXCEPT !.pc = "chunk"]
  <2>2. l \in SyncType /\ l.pc = "chunk" /\ l.file = s.file /\ l.late = s.late /\ l.out = i
    BY <1>1, OpenLocals, Zenon
  <2>3. LocalInv(v, l, ts)
    BY <1>1, <1>7, <2>2 DEF OpenPart, LocalInv, InPart
  <2> QED
    BY <2>1, <2>2, <2>3, Zenon DEF Step
<1>8. CASE OpenFails(v)
  BY <1>1, <1>8, Zenon DEF OpenFails, FileFailed, Step, SyncType, Labels, LocalInv, InPart
<1>9. CASE NextChunk(v)
  BY <1>1, <1>9, Zenon DEF NextChunk, FileFailed, Step, SyncType, Labels, LocalInv, InPart
<1>10. CASE Fetched(v)
  <2> DEFINE l == [[s EXCEPT !.written = @ + 1] EXCEPT !.pc = "chunk"]
  <2>1. s.pc = "fetch" /\ s.written + 1 \in 0..Chunks
    BY <1>1, <1>10 DEF Fetched, SyncType, LocalInv
  <2>2. l \in SyncType /\ l.pc = "chunk" /\ l.file = s.file /\ l.late = s.late /\ l.out = s.out
    BY <1>1, <2>1, Zenon DEF SyncType, Labels
  <2>3. LocalInv(v, l, ts)
    BY <1>1, <2>1, <2>2 DEF LocalInv, InPart
  <2> QED
    BY <1>10, <2>2, <2>3, Zenon DEF Fetched, Step
<1>11. CASE FetchFails(v)
  BY <1>1, <1>11, Zenon DEF FetchFails, FileFailed, Step, SyncType, Labels, LocalInv, InPart
<1>12. CASE Rename(v)
  <2>1. CASE FileFailed(v, "remove")
    BY <1>1, <1>12, <2>1, Zenon DEF Rename, FileFailed, Step, SyncType, Labels, LocalInv, InPart
  <2>2. CASE Step(v, "remove", [s EXCEPT !.late = IF ts # v THEN @ + 1 ELSE @])
    <3> DEFINE n == IF ts # v THEN s.late + 1 ELSE s.late
               l == [[s EXCEPT !.late = n] EXCEPT !.pc = "remove"]
    <3>1. s.pc = "chunk" /\ s.late = 0 /\ v <= ts /\ s.file \in Files
      BY <1>1, <1>12 DEF Rename, LocalInv
    <3>2. n = (IF ts # v THEN 1 ELSE 0) /\ n \in Nat
      BY <3>1
    <3>3. l \in SyncType /\ l.pc = "remove" /\ l.file = s.file /\ l.late = n
      <4> HIDE DEF n
      <4> QED
        BY <1>1, <3>2, LateLocals, ZenonT(60)
    <3>4. LocalInv(v, l, ts)
      BY <1>1, <3>1, <3>2, <3>3 DEF LocalInv, InPart
    <3> QED
      BY <2>2, <3>3, <3>4, Zenon DEF Step
  <2> QED
    BY <1>12, <2>1, <2>2 DEF Rename
<1>13. CASE RemoveTmp(v)
  <2> DEFINE l == [[s EXCEPT !.file = NoFile, !.out = 0, !.written = 0] EXCEPT !.pc = "loop"]
  <2>1. l \in SyncType /\ l.pc = "loop" /\ l.late = s.late
    BY <1>1, CloseLocals, Zenon
  <2>2. LocalInv(v, l, ts)
    BY <1>1, <1>13, <2>1 DEF RemoveTmp, LocalInv, InPart
  <2> QED
    BY <1>13, <2>1, <2>2, Zenon DEF RemoveTmp, Step
<1>14. CASE Persist(v)
  BY <1>1, <1>2, <1>14 DEF Persist, Return, Step, SyncType, Labels, LocalInv, InPart
<1>15. CASE Index(v)
  BY <1>1, <1>15, Zenon DEF Index, Step, SyncType, Labels, LocalInv, InPart
<1>16. CASE AnnounceComplete(v)
  BY <1>2, <1>16, Zenon DEF AnnounceComplete, Return
<1> QED
  BY <1>4, <1>5, <1>6, <1>7, <1>8, <1>9, <1>10, <1>11, <1>12, <1>13, <1>14, <1>15, <1>16
  DEF Sync

\* Each step of a sync leaves directory entries and inodes well formed.
LEMMA DiskStep ==
    ASSUME BaseInv, NEW v \in Versions, Sync(v)
    PROVE  /\ part' \in [Files -> Inodes \cup {0}] /\ abs' \in [Files -> Inodes \cup {0}]
           /\ data' \in [Files -> [Inodes -> Chunked]] /\ state' \in Versions \cup {0}
<1> DEFINE s == sync[v]
<1>1. /\ part \in [Files -> Inodes \cup {0}] /\ abs \in [Files -> Inodes \cup {0}]
      /\ data \in [Files -> [Inodes -> Chunked]] /\ state \in Versions \cup {0}
  BY DEF BaseInv
<1>2. s \in SyncType /\ LocalInv(v, s, ts)
  BY DEF BaseInv
<1>3. CASE UNCHANGED disk
  BY <1>1, <1>3 DEF disk
<1>4. CASE Delete(v)
  BY <1>1, <1>4, FreeKeeps, Zenon DEF Delete
<1>5. CASE OpenPart(v)
  <2> DEFINE f == s.file
  <2>1. f \in Files
    BY <1>2, <1>5 DEF OpenPart, LocalInv
  <2>2. PICK i \in Inodes : part' = [part EXCEPT ![f] = i] /\ data' = [data EXCEPT ![f][i] = <<>>]
    BY <1>1, <1>5, <2>1, FreeInode, Zenon DEF OpenPart
  <2> QED
    BY <1>1, <1>5, <2>1, <2>2, EmptyChunked DEF OpenPart
<1>6. CASE Fetched(v)
  <2>1. s.file \in Files /\ s.out \in Inodes /\ s.written + 1 \in 1..Chunks
    BY <1>2, <1>6, MirrorAssumption DEF Fetched, SyncType, Labels, LocalInv, InPart
  <2>2. M(v)[s.file] \in Contents \cup {0}
    BY <2>1, MirrorAssumption DEF M, Contents
  <2>3. data[s.file][s.out] \in Chunked
    BY <1>1, <2>1
  <2>4. WriteAt(data[s.file][s.out], s.written + 1, M(v)[s.file]) \in Chunked
    BY <2>1, <2>2, <2>3, WriteChunked
  <2> QED
    BY <1>1, <1>6, <2>1, <2>4 DEF Fetched
<1>7. CASE Rename(v)
  <2>1. part' \in [Files -> Inodes \cup {0}] /\ abs' \in [Files -> Inodes \cup {0}]
    BY <1>1, <1>7 DEF Rename
  <2> QED
    BY <1>1, <1>7, <2>1, FreeKeeps, Zenon DEF Rename
<1>8. CASE RemoveTmp(v)
  BY <1>1, <1>8, FreeKeeps, Zenon DEF RemoveTmp
<1>9. CASE Persist(v)
  BY <1>1, <1>9, Zenon DEF Persist
<1> QED
  BY <1>3, <1>4, <1>5, <1>6, <1>7, <1>8, <1>9, Zenon
  DEF Sync, loadPrevFileList, Loop, OpenFails, NextChunk, FetchFails, Index, AnnounceComplete

\* Each step of a sync leaves what the node advertises earned.
LEMMA AdvertStep ==
    ASSUME BaseInv, NEW v \in Versions, Sync(v)
    PROVE  /\ ts' = ts /\ chunkIdx' \in Versions \cup {0}
           /\ contentTS' \in Versions \cup {0} /\ contentTS' <= ts' /\ complete' \in BOOLEAN
           /\ earned' \subseteq Versions /\ calm' \in BOOLEAN /\ CompleteIsEarned'
<1>1. /\ chunkIdx \in Versions \cup {0} /\ contentTS \in Versions \cup {0} /\ contentTS <= ts
      /\ complete \in BOOLEAN /\ earned \subseteq Versions /\ calm \in BOOLEAN
      /\ CompleteIsEarned
  BY DEF BaseInv
<1>2. CASE loadPrevFileList(v)
  <2>1. v <= ts
    BY <1>2 DEF BaseInv, LocalInv, loadPrevFileList
  <2>2. ts' = ts /\ chunkIdx' = chunkIdx /\ earned' = earned /\ calm' = calm /\ SetContent(v)
    BY <1>2 DEF loadPrevFileList
  <2> QED
    BY <1>1, <2>1, <2>2, Zenon DEF SetContent, CompleteIsEarned
<1>3. CASE AnnounceComplete(v)
  BY <1>1, <1>3, Zenon DEF AnnounceComplete, SetContentComplete, CompleteIsEarned
<1>4. CASE Index(v)
  BY <1>1, <1>4 DEF Index, dht, CompleteIsEarned
<1>5. CASE UNCHANGED <<ts, chunkIdx, contentTS, complete, earned>> /\ calm' \in {calm, FALSE}
  BY <1>1, <1>5, Zenon DEF CompleteIsEarned
<1> QED
  BY <1>2, <1>3, <1>4, <1>5, Zenon
  DEF Sync, Delete, Loop, OpenPart, OpenFails, FileFailed, NextChunk, Fetched, FetchFails, Rename,
      RemoveTmp, Persist, dht

\* The invariant holds when the node starts with an empty directory.
LEMMA BaseInit == Init => BaseInv
<1> SUFFICES ASSUME Init PROVE BaseInv
  OBVIOUS
<1>1. sync \in [Versions -> SyncType] /\ \A v \in Versions : LocalInv(v, sync[v], ts)
  BY NoSyncSound DEF Init
<1>2. data \in [Files -> [Inodes -> Chunked]]
  BY EmptyChunked DEF Init
<1>3. part \in [Files -> Inodes \cup {0}] /\ abs \in [Files -> Inodes \cup {0}]
  BY Zenon DEF Init
<1>4. contentTS <= ts
  BY DEF Init
<1> QED
  BY <1>1, <1>2, <1>3, <1>4, Zenon DEF Init, BaseInv, CompleteIsEarned

\* Every step of every goroutine, and a crash, keeps it.
LEMMA BaseNext == BaseInv /\ [Next]_vars => BaseInv'
<1> SUFFICES ASSUME BaseInv, [Next]_vars PROVE BaseInv'
  OBVIOUS
<1>1. CASE UNCHANGED vars
  BY <1>1 DEF vars, dht, disk, BaseInv, CompleteIsEarned
<1>2. ASSUME NEW v \in Versions, Sync(v) PROVE BaseInv'
  <2>1. sync' \in [Versions -> SyncType] /\ \A w \in Versions : LocalInv(w, sync'[w], ts')
    BY <1>2, LocalStep, AdvertStep, SyncStep DEF BaseInv
  <2> QED
    BY <1>2, <2>1, DiskStep, AdvertStep DEF BaseInv
<1>3. ASSUME NEW v \in Versions, OnContentManifest(v) PROVE BaseInv'
  <2> DEFINE l == [NoSync EXCEPT !.pc = "accepted"]
  <2>1. ts \in Nat /\ v \in Nat /\ v > ts /\ ts' = v /\ sync' = [sync EXCEPT ![v] = l]
    BY <1>3, MirrorAssumption DEF OnContentManifest, Step, BaseInv
  <2>2. l \in SyncType /\ l.pc = "accepted" /\ l.late = 0
    BY NoSyncSound, Zenon DEF SyncType, Labels, NoSync
  <2>3. LocalInv(v, l, v)
    BY <2>1, <2>2 DEF LocalInv, InPart
  <2>4. \A w \in Versions : w \in Nat /\ LocalInv(w, sync[w], v)
    BY <2>1, MirrorAssumption DEF BaseInv, LocalInv
  <2>5. sync' \in [Versions -> SyncType] /\ \A w \in Versions : LocalInv(w, sync'[w], ts')
    BY <2>1, <2>2, <2>3, <2>4 DEF BaseInv
  <2>6. contentTS' = contentTS /\ contentTS <= ts'
    BY <1>3, <2>1, MirrorAssumption DEF OnContentManifest, dht, BaseInv
  <2> QED
    BY <1>3, <2>1, <2>5, <2>6 DEF OnContentManifest, dht, disk, BaseInv, CompleteIsEarned
<1>4. CASE LoadCached
  <2>1. sync' \in [Versions -> SyncType] /\ \A v \in Versions : LocalInv(v, sync'[v], ts')
    BY <1>4, NoSyncSound DEF LoadCached
  <2>2. data' \in [Files -> [Inodes -> Chunked]]
    BY <1>4, FreeKeeps, Zenon DEF LoadCached, BaseInv
  <2>3. state' \in Versions \cup {0} /\ ts' = state' /\ ts' \in Nat
    <3>1. state' \in {state, 0}
      BY <1>4 DEF LoadCached
    <3> QED
      <4>1. ts' = state' /\ state \in Versions \cup {0}
        BY <1>4 DEF LoadCached, BaseInv
      <4> QED
        BY <3>1, <4>1, MirrorAssumption
  <2>4. /\ chunkIdx' = 0 /\ contentTS' = 0 /\ complete' = FALSE /\ earned' = {}
        /\ calm' \in BOOLEAN /\ part' = part /\ abs' = abs
    BY <1>4 DEF LoadCached
  <2> QED
    <3>1. contentTS' <= ts'
      BY <2>3, <2>4
    <3> QED
      BY <2>1, <2>2, <2>3, <2>4, <3>1, Zenon DEF BaseInv, CompleteIsEarned
<1> QED
  BY <1>1, <1>2, <1>3, <1>4 DEF Next

\* Overlapping syncs do not spoil one another (sync, superseded in mirror.go,
\* SetContentComplete in dht_content.go), for any number of files, chunks and
\* published versions.
THEOREM SyncCorrect == Spec => []SyncSound
<1>1. BaseInv => SyncSound
  <2> SUFFICES ASSUME BaseInv PROVE SyncSound
    OBVIOUS
  <2>1. contentTS \in 0..ts
    BY MirrorAssumption DEF BaseInv
  <2>2. ASSUME NEW f \in Files, NEW i \in Inodes
        PROVE  Len(data[f][i]) <= Chunks /\ Range(data[f][i]) \subseteq Contents \cup {0}
    <3>1. data[f][i] \in Chunked
      BY DEF BaseInv
    <3> QED
      BY <3>1 DEF Chunked, Range
  <2>3. TypeOK
    BY <2>1, <2>2 DEF BaseInv, TypeOK
  <2>4. SupersededInstallsOne
    BY DEF BaseInv, LocalInv, SupersededInstallsOne
  <2> QED
    BY <2>3, <2>4 DEF SyncSound, BaseInv
<1> QED
  BY <1>1, BaseInit, BaseNext, PTL DEF Spec

\* The first n chunks of content c.
Filled(n, c) == [k \in 1..n |-> c]

\* A name for i, in a directory whose inodes are d, shows content c.
Holds(i, d, c) == IF c = 0 THEN i = 0 ELSE i # 0 /\ d[i] = Filled(Chunks, c)

\* The directory as sync v has it while it works through its list: what is left
\* to do is as the previous version had it, the rest as v has it.
Worked(v, f) ==
    LET s == sync[v] IN
    IF s.pc = "delete"
    THEN IF f \in (Listed(s.prev) \ Listed(v)) \ s.left THEN abs[f] = 0
         ELSE Holds(abs[f], data[f], M(s.prev)[f])
    ELSE IF f \in s.left \/ (s.pc \in {"open", "chunk", "fetch"} /\ f = s.file)
    THEN Holds(abs[f], data[f], M(s.prev)[f]) ELSE Holds(abs[f], data[f], M(v)[f])

\* The node advertises what the state file and the index say.
Agreed == chunkIdx = contentTS /\ state = contentTS

\* The .part file of sync v is its own and holds the chunks written so far.
Growing(v) ==
    LET s == sync[v] IN
    /\ part[s.file] = s.out /\ s.out # abs[s.file]
    /\ data[s.file][s.out] = Filled(s.written, M(v)[s.file])

\* A sync that nothing disturbs, by where it is.
CalmSync(v) ==
    LET s == sync[v] IN
    /\ s.ok
    /\ \A f \in Files : part[f] # 0 => s.pc \in InPart /\ f = s.file
    /\ s.pc = "accepted" =>
        /\ contentTS < v /\ (complete => Agreed)
        /\ \A f \in Files : Holds(abs[f], data[f], M(state)[f])
    /\ s.pc # "accepted" =>
        contentTS = v /\ ~complete /\ \A f \in Files : Worked(v, f)
    /\ s.left \subseteq IF s.pc = "delete" THEN Listed(s.prev) \ Listed(v) ELSE Listed(v)
    /\ s.pc \in {"open", "chunk", "fetch"} => s.file \in Listed(v) \ s.left
    /\ s.pc \in InPart => Growing(v)
    /\ s.pc \in {"persist", "index", "announce"} => s.left = {}
    /\ s.pc \in {"index", "announce"} => state = v
    /\ s.pc = "announce" => chunkIdx = v

\* No sync is running.
AtRest ==
    /\ \A f \in Files : part[f] = 0 /\ Holds(abs[f], data[f], M(state)[f])
    /\ complete => Agreed

\* What calm means: at most one sync, the newest, in a directory of its own.
CalmInv ==
    /\ \A v \in Versions : Running(v) => v = ts /\ CalmSync(v)
    /\ (\A v \in Versions : ~Running(v)) => AtRest

\* A file is what it was when its name and its inode are.
LEMMA HoldsKept ==
    ASSUME NEW i, NEW d, NEW e, NEW c, Holds(i, d, c), i # 0 => e[i] = d[i]
    PROVE  Holds(i, e, c)
BY DEF Holds

\* Freeing inodes changes no file.
LEMMA HoldsFreed ==
    ASSUME BaseInv, abs' \in [Files -> Inodes \cup {0}], FreeData,
           NEW f \in Files, NEW c, Holds(abs'[f], data[f], c)
    PROVE  Holds(abs'[f], data'[f], c)
<1>1. abs'[f] # 0 => abs'[f] \in Inodes /\ abs'[f] \in Links(f)'
  BY DEF Links
<1>2. abs'[f] # 0 => data'[f][abs'[f]] = data[f][abs'[f]]
  BY <1>1, FreeKeeps DEF BaseInv
<1> QED
  BY <1>2, HoldsKept

\* While one sync runs, calm is about that sync alone.
LEMMA CalmFrame ==
    ASSUME BaseInv, CalmInv, NEW v \in Versions, Running(v), NEW l,
           sync' = [sync EXCEPT ![v] = l], ts' = ts,
           (l.pc # "none" /\ CalmSync(v)') \/ (l.pc = "none" /\ AtRest')
    PROVE  CalmInv'
<1>1. v = ts /\ \A w \in Versions \ {v} : ~Running(w)
  BY DEF CalmInv
<1>2. sync'[v] = l /\ \A w \in Versions \ {v} : sync'[w] = sync[w]
  BY DEF BaseInv
<1>3. \A w \in Versions \ {v} : ~Running(w)'
  BY <1>1, <1>2 DEF Running
<1>4. Running(v)' <=> l.pc # "none"
  BY <1>2 DEF Running
<1>5. CASE l.pc # "none" /\ CalmSync(v)'
  <2>1. \A w \in Versions : Running(w)' => w = ts' /\ CalmSync(w)'
    BY <1>1, <1>3, <1>5
  <2> QED
    BY <1>4, <1>5, <2>1 DEF CalmInv
<1>6. CASE l.pc = "none" /\ AtRest'
  BY <1>3, <1>4, <1>6 DEF CalmInv
<1> QED
  BY <1>5, <1>6

\* A sync that starts reads the version it starts from.
LEMMA CalmStart ==
    ASSUME BaseInv, CalmInv, NEW v \in Versions, loadPrevFileList(v) PROVE CalmInv'
<1> DEFINE s    == sync[v]
           gone == Listed(state) \ Listed(v)
           m    == [s EXCEPT !.prev = state, !.left = IF gone = {} THEN Listed(v) ELSE gone]
           l    == [m EXCEPT !.pc = IF gone = {} THEN "loop" ELSE "delete"]
<1>1. Running(v) /\ s.pc = "accepted" /\ s \in SyncType /\ v = ts /\ CalmSync(v)
  BY DEF loadPrevFileList, Running, CalmInv, BaseInv
<1>2. /\ sync' = [sync EXCEPT ![v] = l] /\ SetContent(v)
      /\ ts' = ts /\ part' = part /\ abs' = abs /\ data' = data /\ state' = state
  BY DEF loadPrevFileList, Step, disk
<1>3. sync'[v] = l
  BY <1>2 DEF BaseInv
<1>4. /\ l.pc = (IF gone = {} THEN "loop" ELSE "delete") /\ l.prev = state /\ l.ok = s.ok
      /\ l.left = (IF gone = {} THEN Listed(v) ELSE gone)
  BY <1>1 DEF SyncType
<1>5. contentTS' = v /\ complete' = FALSE
  BY <1>1, <1>2, MirrorAssumption DEF SetContent, CalmSync, BaseInv
<1>6. ASSUME NEW f \in Files PROVE Worked(v, f)'
  <2>1. Holds(abs[f], data[f], M(state)[f])
    BY <1>1 DEF CalmSync
  <2>2. gone = {} /\ f \notin Listed(v) => M(state)[f] = 0 /\ M(v)[f] = 0
    BY DEF Listed
  <2> HIDE DEF gone, l
  <2>3. CASE gone = {}
    BY <1>2, <1>3, <1>4, <2>1, <2>2, <2>3 DEF Worked
  <2>4. CASE gone # {}
    BY <1>2, <1>3, <1>4, <2>1, <2>4 DEF Worked, gone
  <2> QED
    BY <2>3, <2>4
<1>7. s.ok
  BY <1>1 DEF CalmSync
<1>8. \A f \in Files : part[f] = 0
  BY <1>1 DEF CalmSync, InPart
<1> HIDE DEF l
<1>9. CalmSync(v)'
  BY <1>2, <1>3, <1>4, <1>5, <1>6, <1>7, <1>8, Zenon DEF CalmSync, InPart
<1> QED
  BY <1>1, <1>2, <1>4, <1>9, CalmFrame, Zenon

\* The files that v no longer lists go, one by one.
LEMMA CalmDelete ==
    ASSUME BaseInv, BaseInv', CalmInv, NEW v \in Versions, Delete(v), calm' PROVE CalmInv'
<1> DEFINE s == sync[v]
<1>1. Running(v) /\ s.pc = "delete" /\ s \in SyncType /\ v = ts /\ CalmSync(v)
  BY DEF Delete, Running, CalmInv, BaseInv
<1>2. PICK f \in s.left :
        /\ Step(v, IF s.left \ {f} = {} THEN "loop" ELSE "delete",
                [s EXCEPT !.left = IF s.left \ {f} = {} THEN Listed(v) ELSE s.left \ {f}])
        /\ abs' = [abs EXCEPT ![f] = 0]
  BY Zenon DEF Delete
<1> DEFINE rest == s.left \ {f}
           m == [s EXCEPT !.left = IF rest = {} THEN Listed(v) ELSE rest]
           l == [m EXCEPT !.pc = IF rest = {} THEN "loop" ELSE "delete"]
<1>3. /\ sync' = [sync EXCEPT ![v] = l] /\ FreeData /\ ts' = ts /\ part' = part
      /\ contentTS' = contentTS /\ complete' = complete
  BY <1>2, Zenon DEF Delete, Step, dht
<1>4. sync'[v] = l
  BY <1>3, Zenon DEF BaseInv
<1>5. /\ l.pc = (IF rest = {} THEN "loop" ELSE "delete") /\ l.prev = s.prev /\ l.ok = s.ok
      /\ l.left = (IF rest = {} THEN Listed(v) ELSE rest)
  BY <1>1 DEF SyncType
<1>6. s.left \subseteq Listed(s.prev) \ Listed(v)
  BY <1>1 DEF CalmSync
<1>7. ASSUME NEW g \in Files PROVE Worked(v, g)'
  <2>1. Worked(v, g)
    BY <1>1 DEF CalmSync
  <2>2. abs'[g] = IF g = f THEN 0 ELSE abs[g]
    BY <1>2 DEF BaseInv
  <2>3. g \notin Listed(v) => M(v)[g] = 0
    BY DEF Listed
  <2>4. g \notin Listed(s.prev) => M(s.prev)[g] = 0
    BY DEF Listed
  <2>5. g \in (Listed(s.prev) \ Listed(v)) \ rest => abs'[g] = 0
    BY <1>1, <1>6, <2>1, <2>2 DEF Worked
  <2>6. g \notin (Listed(s.prev) \ Listed(v)) \ rest =>
          Holds(abs[g], data[g], M(s.prev)[g]) /\ abs'[g] = abs[g]
    BY <1>1, <1>2, <1>6, <2>1, <2>2 DEF Worked
  <2>7. g \notin (Listed(s.prev) \ Listed(v)) \ rest => Holds(abs'[g], data'[g], M(s.prev)[g])
    BY <1>3, <2>6, HoldsFreed, Zenon DEF BaseInv
  <2> HIDE DEF rest, l
  <2>8. CASE rest = {}
    <3>1. g \in Listed(v) => Holds(abs'[g], data'[g], M(s.prev)[g])
      BY <2>7
    <3>2. g \notin Listed(v) => Holds(abs'[g], data'[g], M(v)[g])
      BY <2>3, <2>4, <2>5, <2>7, <2>8 DEF Holds
    <3> QED
      BY <1>4, <1>5, <2>8, <3>1, <3>2 DEF Worked
  <2>9. CASE rest # {}
    BY <1>4, <1>5, <2>5, <2>7, <2>9 DEF Worked
  <2> QED
    BY <2>8, <2>9
<1>8. s.ok /\ contentTS = v /\ ~complete /\ \A g \in Files : part[g] = 0
  BY <1>1 DEF CalmSync, InPart
<1>9. rest \subseteq Listed(s.prev) \ Listed(v)
  BY <1>6
<1> HIDE DEF l, rest
<1>10. CalmSync(v)'
  BY <1>3, <1>4, <1>5, <1>7, <1>8, <1>9, Zenon DEF CalmSync, InPart
<1> QED
  BY <1>1, <1>3, <1>5, <1>10, CalmFrame, Zenon

\* A file that did not change is passed over, any other is opened.
LEMMA CalmLoop ==
    ASSUME BaseInv, CalmInv, NEW v \in Versions, Loop(v) PROVE CalmInv'
<1> DEFINE s == sync[v]
<1>1. Running(v) /\ s.pc = "loop" /\ s \in SyncType /\ v = ts /\ CalmSync(v)
  BY Zenon DEF Loop, Running, CalmInv, BaseInv
<1>2. /\ ts' = ts /\ part' = part /\ abs' = abs /\ data' = data /\ state' = state
      /\ contentTS' = contentTS /\ complete' = complete
  BY Zenon DEF Loop, dht, disk
<1>3. /\ s.ok /\ contentTS = v /\ ~complete /\ s.left \subseteq Listed(v)
      /\ \A g \in Files : part[g] = 0 /\ Worked(v, g)
  BY <1>1 DEF CalmSync, InPart
<1>4. CASE s.left = {} /\ Step(v, "persist", s)
  <2> DEFINE l == [s EXCEPT !.pc = "persist"]
  <2>1. l.pc = "persist" /\ l.left = s.left /\ l.ok = s.ok /\ l.prev = s.prev
    BY <1>1, RelabelLocals DEF Labels
  <2>2. sync' = [sync EXCEPT ![v] = l] /\ sync'[v] = l
    BY <1>4 DEF Step, BaseInv
  <2> HIDE DEF l
  <2>3. \A g \in Files : Worked(v, g)'
    BY <1>1, <1>2, <1>3, <2>1, <2>2 DEF Worked
  <2>4. CalmSync(v)'
    BY <1>2, <1>3, <1>4, <2>1, <2>2, <2>3, Zenon DEF CalmSync, InPart
  <2> QED
    BY <1>1, <1>2, <2>1, <2>2, <2>4, CalmFrame, Zenon
<1>5. ASSUME NEW f \in s.left, sameChunks(v, f), Step(v, "loop", [s EXCEPT !.left = @ \ {f}])
      PROVE  CalmInv'
  <2> DEFINE l == [[s EXCEPT !.left = @ \ {f}] EXCEPT !.pc = "loop"]
  <2>1. l.pc = "loop" /\ l.left = s.left \ {f} /\ l.ok = s.ok /\ l.prev = s.prev
    BY <1>1 DEF SyncType
  <2>2. sync' = [sync EXCEPT ![v] = l] /\ sync'[v] = l
    BY <1>5 DEF Step, BaseInv
  <2> HIDE DEF l
  <2>3. \A g \in Files : Worked(v, g)'
    BY <1>1, <1>2, <1>3, <1>5, <2>1, <2>2 DEF Worked, sameChunks
  <2>4. CalmSync(v)'
    BY <1>2, <1>3, <2>1, <2>2, <2>3, Zenon DEF CalmSync, InPart
  <2> QED
    BY <1>1, <1>2, <2>1, <2>2, <2>4, CalmFrame, Zenon
<1>6. ASSUME NEW f \in s.left, Step(v, "open", [s EXCEPT !.left = @ \ {f}, !.file = f])
      PROVE  CalmInv'
  <2> DEFINE l == [[s EXCEPT !.left = @ \ {f}, !.file = f] EXCEPT !.pc = "open"]
  <2>1. l.pc = "open" /\ l.left = s.left \ {f} /\ l.ok = s.ok /\ l.prev = s.prev /\ l.file = f
    BY <1>1 DEF SyncType
  <2>2. sync' = [sync EXCEPT ![v] = l] /\ sync'[v] = l
    BY <1>6 DEF Step, BaseInv
  <2> HIDE DEF l
  <2>3. \A g \in Files : Worked(v, g)'
    BY <1>1, <1>2, <1>3, <1>6, <2>1, <2>2 DEF Worked
  <2>4. CalmSync(v)'
    BY <1>2, <1>3, <2>1, <2>2, <2>3, Zenon DEF CalmSync, InPart
  <2> QED
    BY <1>1, <1>2, <2>1, <2>2, <2>4, CalmFrame, Zenon
<1> QED
  BY <1>1, <1>4, <1>5, <1>6, Zenon DEF Loop, superseded

\* The .part file is a new one.
LEMMA CalmOpen ==
    ASSUME BaseInv, CalmInv, NEW v \in Versions, OpenPart(v) PROVE CalmInv'
<1> DEFINE s == sync[v]
           h == s.file
<1>1. Running(v) /\ s.pc = "open" /\ s \in SyncType /\ v = ts /\ CalmSync(v) /\ h \in Files
  BY DEF OpenPart, Running, CalmInv, BaseInv, LocalInv
<1>2. /\ s.ok /\ contentTS = v /\ ~complete /\ s.left \subseteq Listed(v)
      /\ h \in Listed(v) \ s.left
      /\ \A g \in Files : part[g] = 0 /\ Worked(v, g)
  BY <1>1 DEF CalmSync, InPart
<1>3. PICK i \in Inodes :
        /\ i \notin Links(h) /\ part' = [part EXCEPT ![h] = i]
        /\ data' = [data EXCEPT ![h][i] = <<>>]
        /\ Step(v, "chunk", [s EXCEPT !.out = i, !.written = 0])
  BY <1>1, <1>2, FreeInode, Zenon DEF OpenPart
<1>4. /\ ts' = ts /\ abs' = abs /\ state' = state /\ contentTS' = contentTS /\ complete' = complete
  BY DEF OpenPart, dht
<1> DEFINE l == [[s EXCEPT !.out = i, !.written = 0] EXCEPT !.pc = "chunk"]
<1>5. sync' = [sync EXCEPT ![v] = l] /\ sync'[v] = l
  BY <1>3 DEF Step, BaseInv
<1>6. /\ l.pc = "chunk" /\ l.prev = s.prev /\ l.left = s.left /\ l.file = h /\ l.out = i
      /\ l.written = 0 /\ l.ok = s.ok
  BY <1>1, OpenLocals, ZenonT(60)
<1>7. /\ part'[h] = i /\ \A g \in Files \ {h} : part'[g] = 0
      /\ data'[h][i] = <<>> /\ i # abs[h]
      /\ \A g \in Files : \A j \in Inodes : g # h \/ j # i => data'[g][j] = data[g][j]
  BY <1>1, <1>2, <1>3 DEF Links, BaseInv
<1> HIDE DEF l
<1>8. ASSUME NEW g \in Files PROVE Worked(v, g)'
  <2>1. abs[g] # 0 => data'[g][abs[g]] = data[g][abs[g]]
    BY <1>7 DEF BaseInv
  <2>2. \A c : Holds(abs[g], data[g], c) => Holds(abs[g], data'[g], c)
    BY <2>1, HoldsKept
  <2> QED
    BY <1>1, <1>2, <1>4, <1>5, <1>6, <2>2 DEF Worked
<1>9. data'[h][i] = Filled(0, M(v)[h])
  BY <1>7 DEF Filled
<1>10. Growing(v)'
  BY <1>4, <1>5, <1>6, <1>7, <1>9 DEF Growing
<1>11. CalmSync(v)'
  BY <1>1, <1>2, <1>4, <1>5, <1>6, <1>7, <1>8, <1>10, Zenon DEF CalmSync, InPart
<1> QED
  BY <1>1, <1>4, <1>5, <1>6, <1>11, CalmFrame, Zenon

\* The next chunk is asked for.
LEMMA CalmChunk ==
    ASSUME BaseInv, CalmInv, NEW v \in Versions, NextChunk(v), calm' PROVE CalmInv'
<1> DEFINE s == sync[v]
           l == [s EXCEPT !.pc = "fetch"]
<1>1. Running(v) /\ s.pc = "chunk" /\ s \in SyncType /\ v = ts /\ CalmSync(v)
  BY DEF NextChunk, Running, CalmInv, BaseInv
<1>2. /\ sync' = [sync EXCEPT ![v] = l] /\ sync'[v] = l
      /\ ts' = ts /\ part' = part /\ abs' = abs /\ data' = data /\ state' = state
      /\ contentTS' = contentTS /\ complete' = complete
  BY <1>1 DEF NextChunk, FileFailed, Step, superseded, dht, disk, BaseInv
<1>3. /\ l.pc = "fetch" /\ l.prev = s.prev /\ l.left = s.left /\ l.file = s.file /\ l.out = s.out
      /\ l.written = s.written /\ l.ok = s.ok
  BY <1>1, RelabelLocals DEF Labels
<1> HIDE DEF l
<1>4. \A g \in Files : Worked(v, g)'
  <2>1. \A g \in Files : Worked(v, g)
    BY <1>1 DEF CalmSync
  <2> QED
    BY <1>1, <1>2, <1>3, <2>1 DEF Worked
<1>5. Growing(v)'
  <2>1. Growing(v)
    BY <1>1 DEF CalmSync, InPart
  <2> QED
    BY <1>2, <1>3, <2>1 DEF Growing
<1>6. CalmSync(v)'
  BY <1>1, <1>2, <1>3, <1>4, <1>5, Zenon DEF CalmSync, InPart
<1> QED
  BY <1>1, <1>2, <1>3, <1>6, CalmFrame, Zenon

\* A chunk is written behind those already there.
LEMMA CalmFetched ==
    ASSUME BaseInv, CalmInv, NEW v \in Versions, Fetched(v) PROVE CalmInv'
<1> DEFINE s == sync[v]
           h == s.file
           i == s.out
           l == [[s EXCEPT !.written = @ + 1] EXCEPT !.pc = "chunk"]
<1>1. /\ Running(v) /\ s.pc = "fetch" /\ s \in SyncType /\ v = ts /\ CalmSync(v)
      /\ h \in Files /\ i \in Inodes
  BY DEF Fetched, Running, CalmInv, BaseInv, LocalInv, InPart
<1>2. /\ s.ok /\ contentTS = v /\ ~complete /\ s.left \subseteq Listed(v)
      /\ h \in Listed(v) \ s.left
      /\ \A g \in Files : (part[g] # 0 => g = h) /\ Worked(v, g)
      /\ part[h] = i /\ i # abs[h] /\ data[h][i] = Filled(s.written, M(v)[h])
  BY <1>1 DEF CalmSync, Growing, InPart
<1>3. /\ sync' = [sync EXCEPT ![v] = l] /\ sync'[v] = l
      /\ ts' = ts /\ part' = part /\ abs' = abs /\ state' = state
      /\ contentTS' = contentTS /\ complete' = complete
  BY DEF Fetched, Step, dht, BaseInv
<1>4. /\ l.pc = "chunk" /\ l.prev = s.prev /\ l.left = s.left /\ l.file = h /\ l.out = i
      /\ l.written = s.written + 1 /\ l.ok = s.ok /\ s.written \in Nat
  BY <1>1 DEF SyncType
<1>5. data'[h][i] = WriteAt(data[h][i], s.written + 1, M(v)[h])
  BY <1>1 DEF Fetched, BaseInv
<1>6. \A g \in Files : \A j \in Inodes : g # h \/ j # i => data'[g][j] = data[g][j]
  BY <1>1 DEF Fetched, BaseInv
<1>7. data'[h][i] = Filled(s.written + 1, M(v)[h])
  <2>1. WriteAt(Filled(s.written, M(v)[h]), s.written + 1, M(v)[h]) = Filled(s.written + 1, M(v)[h])
    BY <1>4, WriteNext, Zenon DEF Filled
  <2> QED
    BY <1>2, <1>5, <2>1
<1> HIDE DEF l
<1>8. ASSUME NEW g \in Files PROVE Worked(v, g)'
  <2>1. abs[g] # 0 => data'[g][abs[g]] = data[g][abs[g]]
    BY <1>2, <1>6 DEF BaseInv
  <2>2. \A c : Holds(abs[g], data[g], c) => Holds(abs[g], data'[g], c)
    BY <2>1, HoldsKept
  <2> QED
    BY <1>1, <1>2, <1>3, <1>4, <2>2 DEF Worked
<1>9. Growing(v)'
  BY <1>2, <1>3, <1>4, <1>7 DEF Growing
<1>10. CalmSync(v)'
  BY <1>1, <1>2, <1>3, <1>4, <1>8, <1>9, Zenon DEF CalmSync, InPart
<1> QED
  BY <1>1, <1>3, <1>4, <1>10, CalmFrame, Zenon

\* The file that is renamed has all its chunks.
LEMMA CalmRename ==
    ASSUME BaseInv, BaseInv', CalmInv, NEW v \in Versions, Rename(v), calm' PROVE CalmInv'
<1> DEFINE s == sync[v]
           h == s.file
           n == IF ts # v THEN s.late + 1 ELSE s.late
           l == [[s EXCEPT !.late = n] EXCEPT !.pc = "remove"]
<1>1. /\ Running(v) /\ s.pc = "chunk" /\ s.written = Chunks /\ s \in SyncType
      /\ v = ts /\ CalmSync(v) /\ h \in Files /\ s.out \in Inodes
  BY DEF Rename, Running, CalmInv, BaseInv, LocalInv, InPart
<1>2. /\ s.ok /\ contentTS = v /\ ~complete /\ s.left \subseteq Listed(v)
      /\ h \in Listed(v) \ s.left
      /\ \A g \in Files : (part[g] # 0 => g = h) /\ Worked(v, g)
      /\ part[h] = s.out /\ data[h][s.out] = Filled(Chunks, M(v)[h])
  BY <1>1 DEF CalmSync, Growing, InPart
<1>3. /\ abs' = [abs EXCEPT ![h] = part[h]] /\ part' = [part EXCEPT ![h] = 0]
      /\ sync' = [sync EXCEPT ![v] = l] /\ sync'[v] = l
      /\ FreeData /\ ts' = ts /\ contentTS' = contentTS /\ complete' = complete
  BY DEF Rename, FileFailed, Step, dht, BaseInv
<1>4. l.pc = "remove" /\ l.prev = s.prev /\ l.left = s.left /\ l.ok = s.ok
  <2>1. n \in Nat
    BY <1>1 DEF SyncType
  <2> HIDE DEF n
  <2> QED
    BY <1>1, <2>1, LateLocals, ZenonT(60)
<1>5. \A g \in Files : part'[g] = 0 /\ abs'[g] = IF g = h THEN s.out ELSE abs[g]
  BY <1>1, <1>2, <1>3 DEF BaseInv
<1> HIDE DEF l
<1>6. ASSUME NEW g \in Files PROVE Worked(v, g)'
  <2>1. CASE g = h
    <3>1. Holds(abs'[h], data[h], M(v)[h])
      BY <1>1, <1>2, <1>5, MirrorAssumption DEF Holds, Listed
    <3>2. Holds(abs'[h], data'[h], M(v)[h])
      BY <1>1, <1>3, <3>1, HoldsFreed, Zenon DEF BaseInv
    <3> QED
      BY <1>2, <1>3, <1>4, <2>1, <3>2 DEF Worked
  <2>2. CASE g # h
    <3>1. \A c : Holds(abs[g], data[g], c) => Holds(abs'[g], data'[g], c)
      BY <1>3, <1>5, <2>2, HoldsFreed, Zenon DEF BaseInv
    <3> QED
      BY <1>1, <1>2, <1>3, <1>4, <2>2, <3>1 DEF Worked
  <2> QED
    BY <2>1, <2>2
<1>7. CalmSync(v)'
  BY <1>1, <1>2, <1>3, <1>4, <1>5, <1>6, Zenon DEF CalmSync, InPart
<1> QED
  BY <1>1, <1>3, <1>4, <1>7, CalmFrame, Zenon

\* There is no .part file left to remove.
LEMMA CalmRemove ==
    ASSUME BaseInv, BaseInv', CalmInv, NEW v \in Versions, RemoveTmp(v) PROVE CalmInv'
<1> DEFINE s == sync[v]
           l == [[s EXCEPT !.file = NoFile, !.out = 0, !.written = 0] EXCEPT !.pc = "loop"]
<1>1. Running(v) /\ s.pc = "remove" /\ s \in SyncType /\ v = ts /\ CalmSync(v)
  BY DEF RemoveTmp, Running, CalmInv, BaseInv
<1>2. /\ s.ok /\ contentTS = v /\ ~complete /\ s.left \subseteq Listed(v)
      /\ \A g \in Files : part[g] = 0 /\ Worked(v, g)
  BY <1>1 DEF CalmSync, InPart
<1>3. /\ part' = [part EXCEPT ![s.file] = 0] /\ sync' = [sync EXCEPT ![v] = l] /\ sync'[v] = l
      /\ FreeData /\ ts' = ts /\ abs' = abs /\ contentTS' = contentTS /\ complete' = complete
  BY DEF RemoveTmp, Step, dht, BaseInv
<1>4. l.pc = "loop" /\ l.prev = s.prev /\ l.left = s.left /\ l.ok = s.ok
  BY <1>1, CloseLocals, Zenon
<1>5. \A g \in Files : part'[g] = 0
  BY <1>2, <1>3 DEF BaseInv
<1> HIDE DEF l
<1>6. ASSUME NEW g \in Files PROVE Worked(v, g)'
  <2>1. \A c : Holds(abs[g], data[g], c) => Holds(abs'[g], data'[g], c)
    BY <1>3, HoldsFreed DEF BaseInv
  <2> QED
    BY <1>1, <1>2, <1>3, <1>4, <2>1 DEF Worked
<1>7. CalmSync(v)'
  BY <1>2, <1>3, <1>4, <1>5, <1>6, Zenon DEF CalmSync, InPart
<1> QED
  BY <1>1, <1>3, <1>4, <1>7, CalmFrame, Zenon

\* The state file, the index and the advertisement follow, in this order.
LEMMA CalmEnd ==
    ASSUME BaseInv, CalmInv, NEW v \in Versions, calm',
           Persist(v) \/ Index(v) \/ AnnounceComplete(v)
    PROVE  CalmInv'
<1> DEFINE s == sync[v]
<1>1. /\ Running(v) /\ s.pc \in {"persist", "index", "announce"} /\ s \in SyncType /\ v = ts
      /\ CalmSync(v)
  BY Zenon DEF Persist, Index, AnnounceComplete, Running, CalmInv, BaseInv
<1>2. /\ s.ok /\ contentTS = v /\ ~complete /\ s.left = {} /\ \A g \in Files : part[g] = 0
      /\ (s.pc \in {"index", "announce"} => state = v) /\ (s.pc = "announce" => chunkIdx = v)
  BY <1>1 DEF CalmSync, InPart
<1>3. \A g \in Files : Holds(abs[g], data[g], M(v)[g])
  BY <1>1, <1>2 DEF CalmSync, Worked
<1>4. ts' = ts /\ part' = part /\ abs' = abs /\ data' = data /\ contentTS' = contentTS
  BY Zenon DEF Persist, Index, AnnounceComplete, SetContentComplete, disk, dht
<1>5. ASSUME NEW label \in {"index", "announce"}, Step(v, label, s), complete' = complete,
             state' = v, label = "announce" => chunkIdx' = v
      PROVE  CalmInv'
  <2> DEFINE l == [s EXCEPT !.pc = label]
  <2>1. l.pc = label /\ l.left = s.left /\ l.ok = s.ok
    BY <1>1, RelabelLocals DEF Labels
  <2>2. sync' = [sync EXCEPT ![v] = l] /\ sync'[v] = l
    BY <1>5 DEF Step, BaseInv
  <2> HIDE DEF l
  <2>3. \A g \in Files : Worked(v, g)'
    BY <1>2, <1>3, <1>4, <1>5, <2>1, <2>2 DEF Worked
  <2>4. CalmSync(v)'
    BY <1>2, <1>4, <1>5, <2>1, <2>2, <2>3, Zenon DEF CalmSync, InPart
  <2> QED
    BY <1>1, <1>4, <1>5, <2>1, <2>2, <2>4, CalmFrame, Zenon
<1>6. CASE Persist(v)
  BY <1>2, <1>5, <1>6 DEF Persist, dht
<1>7. CASE Index(v)
  BY <1>2, <1>5, <1>7 DEF Index, disk, dht
<1>8. CASE AnnounceComplete(v)
  <2>1. chunkIdx' = v /\ state' = v /\ sync' = [sync EXCEPT ![v] = NoSync] /\ NoSync.pc = "none"
    BY <1>2, <1>8 DEF AnnounceComplete, Return, disk, NoSync
  <2>2. AtRest'
    BY <1>2, <1>3, <1>4, <2>1, Zenon DEF AtRest, Agreed
  <2> QED
    BY <1>1, <1>4, <2>1, <2>2, CalmFrame, Zenon
<1> QED
  BY <1>6, <1>7, <1>8

\* A manifest that arrives while no sync runs.
LEMMA CalmAccept ==
    ASSUME BaseInv, CalmInv, NEW v \in Versions, OnContentManifest(v), calm' PROVE CalmInv'
<1> DEFINE l == [NoSync EXCEPT !.pc = "accepted"]
<1>1. (\A w \in Versions : ~Running(w)) /\ AtRest
  BY Zenon DEF OnContentManifest, CalmInv
<1>2. /\ sync' = [sync EXCEPT ![v] = l] /\ sync'[v] = l /\ ts' = v /\ contentTS < v
      /\ chunkIdx' = chunkIdx /\ contentTS' = contentTS /\ complete' = complete
      /\ part' = part /\ abs' = abs /\ data' = data /\ state' = state
  BY MirrorAssumption DEF OnContentManifest, Step, dht, disk, BaseInv
<1>3. l.pc = "accepted" /\ l.left = {} /\ l.ok
  BY DEF NoSync
<1>4. \A w \in Versions : Running(w)' => w = v
  BY <1>1, <1>2 DEF Running, BaseInv
<1> HIDE DEF l
<1>5. CalmSync(v)'
  BY <1>1, <1>2, <1>3 DEF CalmSync, AtRest, Agreed, InPart
<1>6. Running(v)'
  BY <1>2, <1>3 DEF Running
<1> QED
  BY <1>2, <1>4, <1>5, <1>6 DEF CalmInv

\* A restart between syncs.
LEMMA CalmRestart ==
    ASSUME BaseInv, CalmInv, LoadCached, calm' PROVE CalmInv'
<1>1. (\A w \in Versions : ~Running(w)) /\ AtRest
  BY Zenon DEF LoadCached, CalmInv
<1>2. state' = state
  BY <1>1 DEF LoadCached, AtRest, Running
<1>3. \A w \in Versions : ~Running(w)'
  BY DEF LoadCached, Running, NoSync
<1>4. FreeData /\ part' = part /\ abs' = abs /\ complete' = FALSE
  BY DEF LoadCached
<1>5. \A f \in Files : Holds(abs'[f], data'[f], M(state)[f])
  BY <1>1, <1>4, HoldsFreed DEF AtRest, BaseInv
<1>6. AtRest'
  BY <1>1, <1>2, <1>4, <1>5 DEF AtRest
<1> QED
  BY <1>3, <1>6 DEF CalmInv

\* Calm syncs leave what the manifest promises (sync, syncFile and LoadCached
\* in mirror.go): for any number of files, chunks and published versions.
THEOREM CalmCorrect == Spec => []CompleteWhenCalm
<1> DEFINE Inv == BaseInv /\ (calm => CalmInv)
<1>1. Init => Inv
  <2> SUFFICES ASSUME Init PROVE CalmInv
    BY BaseInit
  <2>1. \A v \in Versions : ~Running(v)
    BY DEF Init, Running, NoSync
  <2>2. \A f \in Files : part[f] = 0 /\ abs[f] = 0 /\ M(state)[f] = 0
    BY DEF Init, M
  <2> QED
    BY <2>1, <2>2 DEF Init, CalmInv, AtRest, Holds
<1>2. Inv /\ [Next]_vars => Inv'
  <2> SUFFICES ASSUME Inv, [Next]_vars, calm' PROVE CalmInv'
    BY BaseNext
  <2>1. BaseInv'
    BY BaseNext
  <2>2. calm
    BY Zenon
    DEF Next, vars, OnContentManifest, LoadCached, Sync, loadPrevFileList, Delete, Loop, OpenPart,
        OpenFails, FileFailed, NextChunk, Fetched, FetchFails, Rename, RemoveTmp, Persist, Index,
        AnnounceComplete
  <2>3. CalmInv
    BY <2>2
  <2>4. CASE UNCHANGED vars
    <3>1. /\ sync' = sync /\ ts' = ts /\ chunkIdx' = chunkIdx /\ contentTS' = contentTS
          /\ complete' = complete /\ part' = part /\ abs' = abs /\ data' = data /\ state' = state
      BY <2>4, Zenon DEF vars, dht, disk
    <3>2. /\ \A v : Running(v)' = Running(v) /\ Growing(v)' = Growing(v)
          /\ \A v, f : Worked(v, f)' = Worked(v, f)
          /\ Agreed' = Agreed
      BY <3>1, ZenonT(60) DEF Running, Growing, Worked, Agreed
    <3>3. /\ \A v : CalmSync(v)' = CalmSync(v)
          /\ AtRest' = AtRest
      BY <3>1, <3>2 DEF CalmSync, AtRest
    <3> QED
      BY <2>3, <3>1, <3>2, <3>3 DEF CalmInv
  <2>5. ASSUME NEW v \in Versions, Sync(v) PROVE CalmInv'
    BY <2>1, <2>3, <2>5, CalmStart, CalmDelete, CalmLoop, CalmOpen, CalmChunk, CalmFetched,
       CalmRename, CalmRemove, CalmEnd
    DEF Sync, OpenFails, FetchFails, FileFailed
  <2> QED
    BY <2>3, <2>4, <2>5, CalmAccept, CalmRestart DEF Next
<1>3. Inv => CompleteWhenCalm
  <2> SUFFICES ASSUME Inv, calm, complete
               PROVE  chunkIdx = contentTS /\ \A f \in Files : Installed(f, M(contentTS)[f])
    BY DEF CompleteWhenCalm
  <2>1. Agreed /\ \A f \in Files : Holds(abs[f], data[f], M(state)[f])
    BY Zenon DEF CalmInv, CalmSync, AtRest, Running
  <2> QED
    BY <2>1, Zenon DEF Agreed, Installed, Holds, Filled
<1> QED
  BY <1>1, <1>2, <1>3, PTL DEF Spec
=============================================================================
