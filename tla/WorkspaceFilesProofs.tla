------------------------- MODULE WorkspaceFilesProofs -------------------------
(***************************************************************************)
(* Proofs about WorkspaceFiles, for any number of uploads and requests,    *)
(* any destinations, body sizes and limit.                                 *)
(***************************************************************************)
EXTENDS WorkspaceFiles, TLAPS

(***************************************************************************)
(* Each step of write_upload keeps what the thread has told the world so   *)
(* far true: the temporary holds exactly the units read, they are within   *)
(* the limit until the upload is given up, and it exists only while the    *)
(* thread is on its way (or was lost in a restart).  UploadsAreAtomic is   *)
(* not inductive without it: os.replace moves whatever the temporary       *)
(* holds.                                                                  *)
(***************************************************************************)
Temporaries ==
    \A u \in Uploads :
        /\ up[u].pc \in {"idle", "done"} => u \notin DOMAIN files
        /\ u \in DOMAIN files /\ up[u].pc \in {"read", "replace"} =>
              files[u].from = u /\ files[u].size = up[u].total

Progress(t) ==
    /\ t.total <= t.size
    /\ t.pc = "idle" => t.total = 0 /\ t.answer = "none"
    /\ t.pc \in {"read", "replace"} => t.total <= MaxUpload /\ t.answer = "none"
    /\ t.pc = "replace" => t.total = t.size
    /\ t.answer = "tooLarge" => t.total > MaxUpload
    /\ t.answer = "ok" => t.size <= MaxUpload

(* A download whose headers are out has announced the length of a whole    *)
(* version: the opened file is compared with it, so CompleteDownload is    *)
(* not inductive without this.                                             *)
Downloads ==
    \A r \in Readers :
        /\ rd[r].pc = "open" \/ rd[r].answer = "served" =>
              rd[r].announced \in File /\ Whole(rd[r].announced)
        /\ rd[r].answer = "served" => rd[r].got \in File

FilesInv ==
    /\ Temporaries
    /\ \A u \in Uploads : Progress(up[u])
    /\ UploadsAreAtomic
    /\ Downloads

(* What a step may do to a request: leave its download alone, take the     *)
(* length, or send the body.                                               *)
Kept(q) ==
    /\ rd'[q].announced = rd[q].announced
    /\ rd'[q].pc = "open" => rd[q].pc = "open"
    /\ rd'[q].answer = "served" => rd[q].answer = "served" /\ rd'[q].got = rd[q].got

Took(q) ==
    /\ rd[q].path \in DOMAIN files /\ rd'[q].announced = files[rd[q].path]
    /\ rd'[q].answer = "none"

Sent(q) ==
    /\ rd[q].path \in DOMAIN files /\ Delivers(files[rd[q].path], rd[q].announced.size)
    /\ rd[q].pc = "open" /\ rd'[q].pc = "done" /\ rd'[q].announced = rd[q].announced
    /\ rd'[q].got = [files[rd[q].path] EXCEPT !.size = rd[q].announced.size]

(* One move of an upload's thread. *)
LEMMA ThreadEffect ==
  ASSUME up \in [Uploads -> Upload], NEW u \in Uploads, NEW from,
         NEW to \in {"idle", "read", "replace", "unlink", "done", "lost"},
         NEW answer \in {"none", "ok", "refused", "tooLarge", "failed"},
         Thread(u, from, to, answer)
  PROVE  /\ up' \in [Uploads -> Upload]
         /\ up'[u].pc = to /\ up'[u].answer = answer
         /\ up'[u].path = up[u].path /\ up'[u].size = up[u].size /\ up'[u].total = up[u].total
         /\ \A v \in Uploads : v # u => up'[v] = up[v]
         /\ up[u].pc = from /\ UNCHANGED <<dirs, rd>>
<1>1. up[u] \in Upload
  OBVIOUS
<1>2. up' = [up EXCEPT ![u] = [[up[u] EXCEPT !.pc = to] EXCEPT !.answer = answer]]
  BY DEF Thread
<1>3. [[up[u] EXCEPT !.pc = to] EXCEPT !.answer = answer] \in Upload
  BY <1>1 DEF Upload
<1> QED BY <1>1, <1>2, <1>3 DEF Thread, Upload

(* The thread reads and writes one chunk. *)
LEMMA ChunkEffect ==
  ASSUME TypeOK, NEW u \in Uploads, NEW n \in 1..MaxSize, WriteChunk(u, n)
  PROVE  /\ up' \in [Uploads -> Upload]
         /\ up'[u].pc = IF Exceeds(u, n) THEN "unlink" ELSE "read"
         /\ up'[u].answer = IF Exceeds(u, n) THEN "tooLarge" ELSE "none"
         /\ up'[u].size = up[u].size /\ up'[u].path = up[u].path
         /\ up'[u].total = up[u].total + n /\ up[u].total + n <= up[u].size
         /\ \A v \in Uploads : v # u => up'[v] = up[v]
         /\ up[u].pc = "read" /\ UNCHANGED <<dirs, rd>>
<1> DEFINE p == IF Exceeds(u, n) THEN "unlink" ELSE "read"
           a == IF Exceeds(u, n) THEN "tooLarge" ELSE "none"
<1>1. up[u] \in Upload /\ up[u].total \in Sizes /\ up[u].size \in Sizes
  BY DEF TypeOK, Upload
<1>2. n \in 1..(up[u].size - up[u].total)
  BY DEF WriteChunk
<1>3. up[u].total + n \in Sizes /\ up[u].total + n <= up[u].size
  BY <1>1, <1>2, FilesAssumption DEF Sizes
<1>4. up' = [up EXCEPT ![u] = [up[u] EXCEPT !.total = up[u].total + n, !.pc = p, !.answer = a]]
  BY DEF WriteChunk
<1>5. p \in {"unlink", "read"} /\ a \in {"tooLarge", "none"}
  OBVIOUS
<1> HIDE DEF p, a
<1>6. [up[u] EXCEPT !.total = up[u].total + n, !.pc = p, !.answer = a] \in Upload
  BY <1>1, <1>3, <1>5 DEF Upload
<1>7. /\ up' \in [Uploads -> Upload]
      /\ up'[u].pc = p /\ up'[u].answer = a
      /\ up'[u].size = up[u].size /\ up'[u].path = up[u].path
      /\ up'[u].total = up[u].total + n
      /\ \A v \in Uploads : v # u => up'[v] = up[v]
  BY <1>1, <1>4, <1>6 DEF TypeOK, Upload
<1> QED BY <1>3, <1>7 DEF p, a, WriteChunk

(* One move of a request that serves nothing. *)
LEMMA RequestEffect ==
  ASSUME TypeOK, NEW r \in Readers, NEW from,
         NEW to \in {"idle", "list", "stat", "done"},
         NEW answer \in {"none", "listed", "notFound", "failed"},
         Request(r, from, to, answer)
  PROVE  /\ rd' \in [Readers -> Reader]
         /\ \A q \in Readers : Kept(q)
         /\ UNCHANGED <<files, dirs, up>>
<1>1. rd[r] \in Reader
  BY DEF TypeOK
<1>2. rd' = [rd EXCEPT ![r] = [[rd[r] EXCEPT !.pc = to] EXCEPT !.answer = answer]]
  BY DEF Request
<1>3. [[rd[r] EXCEPT !.pc = to] EXCEPT !.answer = answer] \in Reader
  BY <1>1 DEF Reader
<1> QED BY <1>1, <1>2, <1>3 DEF Request, TypeOK, Reader, Kept

(* What a listing or a download may do at all: move its own request on. *)
LEMMA ReaderEffect ==
  ASSUME TypeOK, NEW r \in Readers,
         \/ IterDir(r) \/ StatEntry(r) \/ ListDone(r)
         \/ IsFile(r) \/ StatFile(r) \/ OpenFile(r)
  PROVE  /\ rd' \in [Readers -> Reader]
         /\ \A q \in Readers : Kept(q) \/ Took(q) \/ Sent(q)
         /\ UNCHANGED <<files, dirs, up>>
<1>1. rd[r] \in Reader /\ Entries \subseteq Paths \cup Uploads
  BY DEF TypeOK, Entries
<1>2. CASE IterDir(r)
  <2>1. [rd[r] EXCEPT !.pc = "list", !.left = Entries] \in Reader
    BY <1>1 DEF Reader
  <2>2. rd' = [rd EXCEPT ![r] = [rd[r] EXCEPT !.pc = "list", !.left = Entries]]
    BY <1>2 DEF IterDir
  <2> QED BY <1>1, <1>2, <2>1, <2>2 DEF IterDir, TypeOK, Reader, Kept
<1>3. ASSUME NEW n \in rd[r].left, rd' = [rd EXCEPT ![r].left = @ \ {n}],
             UNCHANGED <<files, dirs, up>>
      PROVE  /\ rd' \in [Readers -> Reader]
             /\ \A q \in Readers : Kept(q)
             /\ UNCHANGED <<files, dirs, up>>
  <2>1. [rd[r] EXCEPT !.left = @ \ {n}] \in Reader
    BY <1>1 DEF Reader
  <2>2. rd' = [rd EXCEPT ![r] = [rd[r] EXCEPT !.left = @ \ {n}]]
    BY <1>3
  <2> QED BY <1>1, <1>3, <2>1, <2>2 DEF TypeOK, Reader, Kept
<1>4. CASE StatEntry(r)
  BY <1>3, <1>4, RequestEffect DEF StatEntry
<1>5. CASE ListDone(r) \/ IsFile(r)
  BY <1>5, RequestEffect DEF ListDone, IsFile
<1>k. ASSUME \A q \in Readers : q # r => rd'[q] = rd[q] PROVE \A q \in Readers : q # r => Kept(q)
  BY <1>k DEF Kept
<1>6. CASE StatFile(r)
  <2>1. CASE rd[r].path \notin DOMAIN files /\ Request(r, "stat", "done", "failed")
    BY <2>1, RequestEffect
  <2>2. CASE rd[r].path \in DOMAIN files /\ UNCHANGED <<files, dirs, up>> /\
             rd' = [rd EXCEPT ![r].pc = "open", ![r].answer = "none",
                              ![r].announced = files[rd[r].path]]
    <3> DEFINE f == files[rd[r].path]
    <3>1. f \in File
      BY <2>2 DEF TypeOK
    <3>2. rd' = [rd EXCEPT ![r] = [rd[r] EXCEPT !.pc = "open", !.answer = "none", !.announced = f]]
      BY <2>2
    <3> HIDE DEF f
    <3>3. [rd[r] EXCEPT !.pc = "open", !.answer = "none", !.announced = f] \in Reader
      BY <1>1, <3>1 DEF Reader
    <3>4. /\ rd' \in [Readers -> Reader] /\ rd'[r].announced = f /\ rd'[r].answer = "none"
          /\ \A q \in Readers : q # r => rd'[q] = rd[q]
      BY <1>1, <3>2, <3>3 DEF TypeOK, Reader
    <3>5. Took(r)
      BY <2>2, <3>4 DEF Took, f
    <3> QED BY <1>k, <2>2, <3>4, <3>5
  <2> QED BY <1>6, <2>1, <2>2 DEF StatFile
<1>7. CASE OpenFile(r)
  <2> DEFINE path == rd[r].path
             n == rd[r].announced.size
  <2>1. CASE Request(r, "open", "done", "failed")
    BY <2>1, RequestEffect
  <2>2. CASE /\ rd[r].pc = "open" /\ path \in DOMAIN files /\ Delivers(files[path], n)
             /\ rd' = [rd EXCEPT ![r].pc = "done", ![r].answer = "served",
                                 ![r].got = [files[path] EXCEPT !.size = n]]
             /\ UNCHANGED <<files, dirs, up>>
    <3> DEFINE g == [files[path] EXCEPT !.size = n]
    <3>1. g \in File
      <4>1. files[path] \in File /\ n \in Sizes
        BY <1>1, <2>2, FilesAssumption DEF TypeOK, Reader, File, NoFile, Sizes
      <4> QED BY <4>1 DEF File
    <3>2. rd' = [rd EXCEPT ![r] = [rd[r] EXCEPT !.pc = "done", !.answer = "served", !.got = g]]
      BY <2>2
    <3> HIDE DEF g
    <3>3. [rd[r] EXCEPT !.pc = "done", !.answer = "served", !.got = g] \in Reader
      BY <1>1, <3>1 DEF Reader
    <3>4. /\ rd' \in [Readers -> Reader] /\ rd'[r].got = g /\ rd'[r].pc = "done"
          /\ rd'[r].announced = rd[r].announced
          /\ \A q \in Readers : q # r => rd'[q] = rd[q]
      BY <1>1, <3>2, <3>3 DEF TypeOK, Reader
    <3>5. Sent(r)
      BY <2>2, <3>4 DEF Sent, g
    <3> QED BY <1>k, <2>2, <3>4, <3>5
  <2> QED BY <1>7, <2>1, <2>2 DEF OpenFile
<1> QED BY <1>2, <1>4, <1>5, <1>6, <1>7

(* The container's restart loses the threads that run and nothing else. *)
LEMMA RestartEffect ==
  ASSUME TypeOK, Restart
  PROVE  /\ up' \in [Uploads -> Upload] /\ rd' \in [Readers -> Reader]
         /\ \A u \in Uploads :
               \/ up'[u] = up[u]
               \/ /\ up[u].pc \notin {"idle", "done"} /\ up'[u].pc = "lost"
                  /\ up'[u].size = up[u].size /\ up'[u].total = up[u].total
                  /\ up'[u].answer = up[u].answer
         /\ \A r \in Readers : Kept(r)
         /\ UNCHANGED <<files, dirs>>
<1>1. ASSUME NEW u \in Uploads PROVE
         /\ up'[u] \in Upload
         /\ \/ up'[u] = up[u]
            \/ /\ up[u].pc \notin {"idle", "done"} /\ up'[u].pc = "lost"
               /\ up'[u].size = up[u].size /\ up'[u].total = up[u].total
               /\ up'[u].answer = up[u].answer
  <2>1. up[u] \in Upload
    BY DEF TypeOK
  <2>2. [up[u] EXCEPT !.pc = "lost"] \in Upload
    BY <2>1 DEF Upload
  <2>3. up'[u] = IF Running(up[u].pc) THEN [up[u] EXCEPT !.pc = "lost"] ELSE up[u]
    BY DEF Restart
  <2> QED BY <2>1, <2>2, <2>3 DEF Upload, Running
<1>2. ASSUME NEW r \in Readers PROVE
         /\ rd'[r] \in Reader
         /\ Kept(r)
  <2>1. rd[r] \in Reader
    BY DEF TypeOK
  <2>2. [rd[r] EXCEPT !.pc = "done", !.answer = "failed"] \in Reader
    BY <2>1 DEF Reader
  <2>3. rd'[r] = IF Running(rd[r].pc)
                   THEN [rd[r] EXCEPT !.pc = "done", !.answer = "failed"] ELSE rd[r]
    BY DEF Restart
  <2> QED BY <2>1, <2>2, <2>3 DEF Reader, Kept
<1>3. up' = [u \in Uploads |-> up'[u]] /\ rd' = [r \in Readers |-> rd'[r]]
  BY DEF Restart
<1>4. up' \in [Uploads -> Upload] /\ rd' \in [Readers -> Reader]
  BY <1>1, <1>2, <1>3
<1> QED BY <1>1, <1>2, <1>4 DEF Restart

-----------------------------------------------------------------------------
(* Type correctness of the workspace: in particular no name is a file and  *)
(* a directory at once, since os.replace never lands on a directory.       *)
THEOREM FilesTypeCorrect == Spec => []TypeOK
<1>1. Init => TypeOK
  <2> SUFFICES ASSUME Init PROVE TypeOK
    OBVIOUS
  <2>1. up \in [Uploads -> Upload]
    BY FilesAssumption DEF Init, Upload, Sizes
  <2>2. rd \in [Readers -> Reader]
    BY DEF Init, Reader
  <2> QED BY <2>1, <2>2 DEF Init, TypeOK
<1>2. TypeOK /\ [Next]_vars => TypeOK'
  <2> SUFFICES ASSUME TypeOK, [Next]_vars PROVE TypeOK'
    OBVIOUS
  <2>u. up \in [Uploads -> Upload]
    BY DEF TypeOK
  <2>1. ASSUME NEW u \in Uploads, RefuseUpload(u) \/ BodyEnds(u) \/ UploadFails(u)
        PROVE  TypeOK'
    BY <2>1, <2>u, ThreadEffect DEF TypeOK, RefuseUpload, BodyEnds, UploadFails
  <2>2. ASSUME NEW u \in Uploads, OpenTemporary(u) PROVE TypeOK'
    <3>1. /\ files' = [m \in DOMAIN files \cup {u} |->
                          IF m = u THEN [from |-> u, size |-> 0] ELSE files[m]]
          /\ up' \in [Uploads -> Upload] /\ UNCHANGED <<dirs, rd>>
      BY <2>2, <2>u, ThreadEffect DEF OpenTemporary, Put, Temporary
    <3>2. [from |-> u, size |-> 0] \in File
      BY FilesAssumption DEF File, Sizes
    <3> QED BY <3>1, <3>2, FilesAssumption DEF TypeOK
  <2>3. ASSUME NEW u \in Uploads, NEW n \in 1..MaxSize, WriteChunk(u, n) PROVE TypeOK'
    <3>1. /\ up' \in [Uploads -> Upload] /\ UNCHANGED <<dirs, rd>>
          /\ up[u].total + n <= up[u].size
      BY <2>3, ChunkEffect
    <3>2. CASE u \in DOMAIN files /\ files' = [files EXCEPT ![u].size = up[u].total + n]
      <4>1. up[u].total + n \in Sizes /\ files[u] \in File
        BY <3>1, <3>2, FilesAssumption DEF TypeOK, Upload, Sizes
      <4>2. [files[u] EXCEPT !.size = up[u].total + n] \in File
        BY <4>1 DEF File
      <4>3. files' = [files EXCEPT ![u] = [files[u] EXCEPT !.size = up[u].total + n]]
        BY <3>2
      <4> QED BY <3>1, <3>2, <4>2, <4>3 DEF TypeOK
    <3>3. CASE files' = files
      BY <3>1, <3>3 DEF TypeOK
    <3> QED BY <2>3, <3>2, <3>3 DEF WriteChunk, Temporary
  <2>4. ASSUME NEW u \in Uploads, Replace(u) PROVE TypeOK'
    <3>1. CASE ~CanReplace(u) /\ Thread(u, "replace", "unlink", "failed") /\ UNCHANGED files
      BY <3>1, <2>u, ThreadEffect DEF TypeOK
    <3>2. CASE CanReplace(u) /\ Thread(u, "replace", "done", "ok") /\
               files' = [m \in (DOMAIN files \ {Temporary(u)}) \cup {up[u].path} |->
                            IF m = up[u].path THEN files[Temporary(u)] ELSE files[m]]
      <4>1. up' \in [Uploads -> Upload] /\ UNCHANGED <<dirs, rd>>
        BY <3>2, <2>u, ThreadEffect
      <4>2. up[u].path \in Paths \ dirs /\ files[u] \in File
        BY <3>2 DEF CanReplace, Temporary, TypeOK, Upload
      <4> QED BY <3>2, <4>1, <4>2 DEF TypeOK, Temporary
    <3> QED BY <2>4, <3>1, <3>2 DEF Replace
  <2>5. ASSUME NEW u \in Uploads, UnlinkTemporary(u) PROVE TypeOK'
    <3>1. up[u].answer \in {"none", "ok", "refused", "tooLarge", "failed"}
      BY <2>u DEF Upload
    <3>2. up' \in [Uploads -> Upload] /\ UNCHANGED <<dirs, rd>>
      BY <2>5, <2>u, <3>1, ThreadEffect DEF UnlinkTemporary
    <3> QED BY <2>5, <3>2 DEF TypeOK, UnlinkTemporary, Unlink, Remove
  <2>6. ASSUME NEW r \in Readers,
               \/ IterDir(r) \/ StatEntry(r) \/ ListDone(r)
               \/ IsFile(r) \/ StatFile(r) \/ OpenFile(r)
        PROVE  TypeOK'
    BY <2>6, ReaderEffect DEF TypeOK
  <2>7. ASSUME NEW n \in Paths \cup Uploads, CommandRemoves(n) PROVE TypeOK'
    BY <2>7 DEF TypeOK, CommandRemoves, Remove
  <2>8. ASSUME NEW p \in Paths, CommandMakesDirectory(p) PROVE TypeOK'
    BY <2>8 DEF TypeOK, CommandMakesDirectory, Entries
  <2>9. CASE Restart
    BY <2>9, RestartEffect DEF TypeOK
  <2>10. CASE UNCHANGED vars
    BY <2>10 DEF TypeOK, vars
  <2> QED BY <2>1, <2>2, <2>3, <2>4, <2>5, <2>6, <2>7, <2>8, <2>9, <2>10
          DEF Next, Terminated
<1> QED BY <1>1, <1>2, PTL DEF Spec

(* A step that changes no upload's size leaves whole files whole. *)
LEMMA WholeKept ==
  ASSUME TypeOK, \A u \in Uploads : up'[u].size = up[u].size,
         NEW f \in File, Whole(f)
  PROVE  f.size = up'[f.from].size /\ f.size <= MaxUpload
BY DEF Whole, File

(* A body sent of an opened file that is whole, under the announced length *)
(* of a whole file: the whole of it, or a prefix of another version.       *)
LEMMA SentBody ==
  ASSUME TypeOK, NEW f \in File, NEW a \in File, Whole(f), Whole(a), Delivers(f, a.size)
  PROVE  /\ [f EXCEPT !.size = a.size] \in File
         /\ CompleteDownload([announced |-> a, got |-> [f EXCEPT !.size = a.size]])
<1> DEFINE g == [f EXCEPT !.size = a.size]
<1>1. /\ g \in File /\ g.from = f.from /\ g.size = a.size
      /\ f.from \in Uploads /\ a.from \in Uploads /\ f.size \in Nat /\ a.size \in Nat
  BY FilesAssumption DEF File, Sizes
<1>2. f.size = up[f.from].size /\ f.size <= MaxUpload /\ a.size = up[a.from].size
  BY DEF Whole
<1> HIDE DEF g
<1>3. CASE f.size = a.size
  BY <1>1, <1>2, <1>3 DEF CompleteDownload, Whole, g
<1>4. CASE f.size > a.size /\ a.size % Chunk = 0
  <2>1. g.from # a.from /\ g.size < up[g.from].size /\ g.size % Chunk = 0
    BY <1>1, <1>2, <1>4
  <2> QED BY <1>1, <2>1 DEF CompleteDownload, g
<1> QED BY <1>1, <1>3, <1>4 DEF Delivers, g

(* What a step has to show of the destinations and the downloads, when a   *)
(* destination it changes holds a whole file.                              *)
LEMMA AtomicStep ==
  ASSUME TypeOK, FilesInv, \A u \in Uploads : up'[u].size = up[u].size,
         \A p \in Paths \cap DOMAIN files' :
            \/ p \in DOMAIN files /\ files'[p] = files[p]
            \/ files'[p] \in File /\ Whole(files'[p]),
         \A r \in Readers : Kept(r) \/ Took(r) \/ Sent(r)
  PROVE  UploadsAreAtomic' /\ Downloads'
<1>1. ASSUME NEW p \in Paths \cap DOMAIN files' PROVE Whole(files[p])'
  <2>1. files'[p] \in File /\ Whole(files'[p])
    BY <1>1 DEF TypeOK, FilesInv, UploadsAreAtomic
  <2>2. files'[p].size = up'[files'[p].from].size /\ files'[p].size <= MaxUpload
    BY <2>1, WholeKept
  <2> QED BY <2>2 DEF Whole
<1>2. ASSUME NEW r \in Readers
      PROVE  /\ rd'[r].pc = "open" \/ rd'[r].answer = "served" =>
                   rd'[r].announced \in File /\ Whole(rd'[r].announced)
             /\ rd'[r].answer = "served" => rd'[r].got \in File /\ CompleteDownload(rd'[r])
  <2>1. /\ rd[r].path \in DOMAIN files =>
              files[rd[r].path] \in File /\ Whole(files[rd[r].path])
        /\ rd[r].pc = "open" \/ rd[r].answer = "served" =>
              rd[r].announced \in File /\ Whole(rd[r].announced)
        /\ rd[r].answer = "served" => rd[r].got \in File /\ CompleteDownload(rd[r])
    BY DEF TypeOK, FilesInv, UploadsAreAtomic, Downloads, Reader
  <2>2. CASE Kept(r)
    BY <2>1, <2>2 DEF Kept, CompleteDownload
  <2>3. CASE Took(r)
    BY <2>1, <2>3 DEF Took
  <2>4. CASE Sent(r)
    <3> DEFINE f == files[rd[r].path]
               a == rd[r].announced
               g == [f EXCEPT !.size = a.size]
    <3>1. f \in File /\ a \in File /\ Whole(f) /\ Whole(a) /\ Delivers(f, a.size)
      BY <2>1, <2>4 DEF Sent
    <3>2. rd'[r].announced = a /\ rd'[r].got = g
      BY <2>4 DEF Sent
    <3> HIDE DEF f, a
    <3>3. g \in File /\ CompleteDownload([announced |-> a, got |-> g])
      BY <3>1, SentBody
    <3> HIDE DEF g
    <3> QED BY <3>1, <3>2, <3>3 DEF CompleteDownload
  <2> QED BY <2>2, <2>3, <2>4
<1>3. ASSUME NEW r \in Readers, rd'[r].answer = "served" PROVE CompleteDownload(rd[r])'
  <2>1. /\ rd'[r].announced \in File /\ rd'[r].got \in File /\ CompleteDownload(rd'[r])
    BY <1>2, <1>3
  <2>2. /\ up'[rd'[r].announced.from].size = up[rd'[r].announced.from].size
        /\ up'[rd'[r].got.from].size = up[rd'[r].got.from].size
    BY <2>1 DEF File
  <2> QED BY <2>1, <2>2 DEF CompleteDownload, Whole
<1>4. Downloads'
  <2> SUFFICES ASSUME NEW r \in Readers
               PROVE  /\ rd'[r].pc = "open" \/ rd'[r].answer = "served" =>
                            rd'[r].announced \in File /\ Whole(rd[r].announced)'
                      /\ rd'[r].answer = "served" => rd'[r].got \in File
    BY DEF Downloads
  <2>1. ASSUME rd'[r].pc = "open" \/ rd'[r].answer = "served"
        PROVE  rd'[r].announced \in File /\ Whole(rd[r].announced)'
    <3>1. rd'[r].announced \in File /\ Whole(rd'[r].announced)
      BY <1>2, <2>1
    <3>2. /\ rd'[r].announced.size = up'[rd'[r].announced.from].size
          /\ rd'[r].announced.size <= MaxUpload
      BY <3>1, WholeKept
    <3> QED BY <3>1, <3>2 DEF Whole
  <2> QED BY <1>2, <2>1
<1> QED BY <1>1, <1>3, <1>4 DEF UploadsAreAtomic

LEMMA FilesStep == TypeOK /\ FilesInv /\ [Next]_vars => FilesInv'
<1> SUFFICES ASSUME TypeOK, FilesInv, [Next]_vars PROVE FilesInv'
  OBVIOUS
<1>u. /\ up \in [Uploads -> Upload] /\ \A u \in Uploads : up[u].path \in Paths
      /\ \A r \in Readers : rd[r].path \in Paths
  BY DEF TypeOK, Upload, Reader
<1>k. rd' = rd => \A r \in Readers : Kept(r)
  BY DEF Kept
<1>1. ASSUME NEW u \in Uploads, RefuseUpload(u) \/ BodyEnds(u) \/ UploadFails(u)
      PROVE  FilesInv'
  <2>1. /\ files' = files /\ rd' = rd
        /\ up'[u].size = up[u].size /\ up'[u].total = up[u].total
        /\ \A v \in Uploads : v # u => up'[v] = up[v]
        /\ \/ up[u].pc = "idle" /\ up'[u].pc = "done" /\ up'[u].answer = "refused"
           \/ up[u].pc = "read" /\ up'[u].pc = "replace" /\ up'[u].answer = "none"
              /\ up[u].total = up[u].size
           \/ up[u].pc = "read" /\ up'[u].pc = "unlink" /\ up'[u].answer = "failed"
    BY <1>1, <1>u, ThreadEffect DEF RefuseUpload, BodyEnds, UploadFails
  <2>2. Temporaries'
    BY <2>1 DEF FilesInv, Temporaries
  <2>3. \A v \in Uploads : Progress(up'[v])
    BY <2>1 DEF FilesInv, Progress
  <2> QED BY <2>1, <2>2, <2>3, <1>k, AtomicStep DEF FilesInv
<1>2. ASSUME NEW u \in Uploads, OpenTemporary(u) PROVE FilesInv'
  <2>1. /\ files' = [m \in DOMAIN files \cup {u} |->
                        IF m = u THEN [from |-> u, size |-> 0] ELSE files[m]]
        /\ rd' = rd
        /\ up'[u].size = up[u].size /\ up'[u].total = up[u].total
        /\ \A v \in Uploads : v # u => up'[v] = up[v]
        /\ up[u].pc = "idle" /\ up'[u].pc = "read" /\ up'[u].answer = "none"
    BY <1>2, <1>u, ThreadEffect DEF OpenTemporary, Put, Temporary
  <2>2. Temporaries'
    BY <2>1 DEF FilesInv, Temporaries, Progress
  <2>3. \A v \in Uploads : Progress(up'[v])
    BY <2>1, FilesAssumption DEF FilesInv, Progress
  <2>4. \A p \in Paths \cap DOMAIN files' : p \in DOMAIN files /\ files'[p] = files[p]
    BY <2>1, FilesAssumption
  <2> QED BY <2>1, <2>2, <2>3, <2>4, <1>k, AtomicStep DEF FilesInv
<1>3. ASSUME NEW u \in Uploads, NEW n \in 1..MaxSize, WriteChunk(u, n) PROVE FilesInv'
  <2>1. /\ up'[u].pc = IF Exceeds(u, n) THEN "unlink" ELSE "read"
        /\ up'[u].answer = IF Exceeds(u, n) THEN "tooLarge" ELSE "none"
        /\ up'[u].size = up[u].size
        /\ up'[u].total = up[u].total + n /\ up[u].total + n <= up[u].size
        /\ \A v \in Uploads : v # u => up'[v] = up[v]
        /\ up[u].pc = "read" /\ rd' = rd
    BY <1>3, ChunkEffect
  <2>2. /\ DOMAIN files' = DOMAIN files
        /\ \A m \in DOMAIN files : m # u => files'[m] = files[m]
        /\ u \in DOMAIN files /\ ~Exceeds(u, n) =>
              files'[u].from = files[u].from /\ files'[u].size = up[u].total + n
    <3>1. CASE u \in DOMAIN files /\ files' = [files EXCEPT ![u].size = up[u].total + n]
      <4>1. files[u] \in File
        BY <3>1 DEF TypeOK
      <4>2. files'[u] = [files[u] EXCEPT !.size = up[u].total + n]
        BY <3>1
      <4> QED BY <3>1, <4>1, <4>2 DEF File
    <3>2. CASE files' = files /\ ~(~Exceeds(u, n) /\ u \in DOMAIN files)
      BY <3>2
    <3> QED BY <1>3, <3>1, <3>2 DEF WriteChunk, Temporary
  <2>3. Temporaries'
    BY <2>1, <2>2 DEF FilesInv, Temporaries
  <2>4. \A v \in Uploads : Progress(up'[v])
    <3>1. up[u].total \in Nat /\ up[u].size \in Nat
      BY FilesAssumption DEF TypeOK, Upload, Sizes
    <3>2. Progress(up'[u])
      BY <2>1, <3>1, FilesAssumption DEF FilesInv, Progress, Exceeds
    <3> QED BY <2>1, <3>2 DEF FilesInv
  <2>5. \A p \in Paths \cap DOMAIN files' : p \in DOMAIN files /\ files'[p] = files[p]
    BY <2>2, FilesAssumption
  <2> QED BY <2>1, <2>3, <2>4, <2>5, <1>k, AtomicStep DEF FilesInv
<1>4. ASSUME NEW u \in Uploads, Replace(u) PROVE FilesInv'
  <2>1. CASE ~CanReplace(u) /\ Thread(u, "replace", "unlink", "failed") /\ UNCHANGED files
    <3>1. /\ rd' = rd /\ up'[u].size = up[u].size /\ up'[u].total = up[u].total
          /\ \A v \in Uploads : v # u => up'[v] = up[v]
          /\ up[u].pc = "replace" /\ up'[u].pc = "unlink" /\ up'[u].answer = "failed"
      BY <2>1, <1>u, ThreadEffect
    <3>2. Temporaries' /\ \A v \in Uploads : Progress(up'[v])
      BY <2>1, <3>1 DEF FilesInv, Temporaries, Progress
    <3> QED BY <2>1, <3>1, <3>2, <1>k, AtomicStep DEF FilesInv
  <2>2. CASE CanReplace(u) /\ Thread(u, "replace", "done", "ok") /\
             files' = [m \in (DOMAIN files \ {Temporary(u)}) \cup {up[u].path} |->
                          IF m = up[u].path THEN files[Temporary(u)] ELSE files[m]]
    <3>1. /\ rd' = rd /\ up'[u].size = up[u].size /\ up'[u].total = up[u].total
          /\ \A v \in Uploads : v # u => up'[v] = up[v]
          /\ up[u].pc = "replace" /\ up'[u].pc = "done" /\ up'[u].answer = "ok"
      BY <2>2, <1>u, ThreadEffect
    <3>2. /\ u \in DOMAIN files /\ u \notin Paths /\ up[u].path \in Paths
          /\ files' = [m \in (DOMAIN files \ {u}) \cup {up[u].path} |->
                          IF m = up[u].path THEN files[u] ELSE files[m]]
      BY <2>2, <1>u, FilesAssumption DEF CanReplace, Temporary
    <3>3. files[u] \in File /\ Whole(files[u])
      BY <3>1, <3>2 DEF TypeOK, FilesInv, Temporaries, Progress, Whole
    <3>4. Temporaries'
      <4>1. \A v \in Uploads : v # up[u].path
        BY <1>u, FilesAssumption
      <4>2. u \notin DOMAIN files'
        BY <3>2, <4>1
      <4>3. \A v \in Uploads : v # u => /\ v \in DOMAIN files' <=> v \in DOMAIN files
                                        /\ v \in DOMAIN files' => files'[v] = files[v]
        BY <3>2, <4>1
      <4> QED BY <3>1, <4>2, <4>3 DEF FilesInv, Temporaries
    <3>5. \A v \in Uploads : Progress(up'[v])
      BY <3>1 DEF FilesInv, Progress
    <3>6. \A p \in Paths \cap DOMAIN files' :
             \/ p \in DOMAIN files /\ files'[p] = files[p]
             \/ files'[p] \in File /\ Whole(files'[p])
      BY <3>2, <3>3
    <3> QED BY <3>1, <3>4, <3>5, <3>6, <1>k, AtomicStep DEF FilesInv
  <2> QED BY <1>4, <2>1, <2>2 DEF Replace
<1>5. ASSUME NEW u \in Uploads, UnlinkTemporary(u) PROVE FilesInv'
  <2>1. up[u].answer \in {"none", "ok", "refused", "tooLarge", "failed"}
    BY <1>u DEF Upload
  <2>2. /\ rd' = rd /\ up'[u].size = up[u].size /\ up'[u].total = up[u].total
        /\ \A v \in Uploads : v # u => up'[v] = up[v]
        /\ up'[u].pc = "done" /\ up'[u].answer = up[u].answer
        /\ files' = [m \in DOMAIN files \ {u} |-> files[m]]
    BY <1>5, <1>u, <2>1, ThreadEffect DEF UnlinkTemporary, Unlink, Remove, Temporary
  <2>3. Temporaries'
    BY <2>2 DEF FilesInv, Temporaries
  <2>4. \A v \in Uploads : Progress(up'[v])
    BY <2>2 DEF FilesInv, Progress
  <2> QED BY <2>2, <2>3, <2>4, <1>k, AtomicStep DEF FilesInv
<1>6. ASSUME NEW r \in Readers,
             \/ IterDir(r) \/ StatEntry(r) \/ ListDone(r)
             \/ IsFile(r) \/ StatFile(r) \/ OpenFile(r)
      PROVE  FilesInv'
  <2>1. /\ \A q \in Readers : Kept(q) \/ Took(q) \/ Sent(q)
        /\ UNCHANGED <<files, dirs, up>>
    BY <1>6, ReaderEffect
  <2>2. Temporaries' /\ \A v \in Uploads : Progress(up'[v])
    BY <2>1 DEF FilesInv, Temporaries
  <2> QED BY <1>u, <2>1, <2>2, AtomicStep DEF FilesInv
<1>7. ASSUME NEW n \in Paths \cup Uploads, CommandRemoves(n) PROVE FilesInv'
  <2>1. files' = [m \in DOMAIN files \ {n} |-> files[m]] /\ UNCHANGED <<up, rd>>
    BY <1>7 DEF CommandRemoves, Remove
  <2>2. Temporaries' /\ \A v \in Uploads : Progress(up'[v])
    BY <2>1 DEF FilesInv, Temporaries
  <2> QED BY <2>1, <2>2, <1>k, AtomicStep DEF FilesInv
<1>8. ASSUME NEW p \in Paths, CommandMakesDirectory(p) PROVE FilesInv'
  <2>1. UNCHANGED <<files, up, rd>>
    BY <1>8 DEF CommandMakesDirectory
  <2> QED BY <2>1, <1>k, AtomicStep DEF FilesInv, Temporaries
<1>9. CASE Restart
  <2>1. /\ \A u \in Uploads :
              \/ up'[u] = up[u]
              \/ /\ up[u].pc \notin {"idle", "done"} /\ up'[u].pc = "lost"
                 /\ up'[u].size = up[u].size /\ up'[u].total = up[u].total
                 /\ up'[u].answer = up[u].answer
        /\ \A r \in Readers : Kept(r)
        /\ UNCHANGED <<files, dirs>>
    BY <1>9, RestartEffect
  <2>2. Temporaries'
    BY <2>1 DEF FilesInv, Temporaries
  <2>3. \A v \in Uploads : Progress(up'[v])
    BY <2>1 DEF FilesInv, Progress
  <2> QED BY <2>1, <2>2, <2>3, <1>k, AtomicStep DEF FilesInv
<1>10. CASE UNCHANGED vars
  <2>1. UNCHANGED <<files, up, rd>>
    BY <1>10 DEF vars
  <2> QED BY <2>1, <1>k, AtomicStep DEF FilesInv, Temporaries
<1> QED BY <1>1, <1>2, <1>3, <1>4, <1>5, <1>6, <1>7, <1>8, <1>9, <1>10
        DEF Next, Terminated

LEMMA FilesInvariant == Spec => []FilesInv
<1>1. Init => FilesInv
  <2> SUFFICES ASSUME Init PROVE FilesInv
    OBVIOUS
  <2>1. \A u \in Uploads : /\ up[u].pc = "idle" /\ up[u].total = 0
                           /\ up[u].answer = "none" /\ up[u].size \in Nat
    BY FilesAssumption DEF Init, Sizes
  <2>2. DOMAIN files = {} /\ \A r \in Readers : rd[r].answer = "none" /\ rd[r].pc = "idle"
    BY DEF Init
  <2> QED BY <2>1, <2>2, FilesAssumption DEF FilesInv, Temporaries, Progress, UploadsAreAtomic,
                                               Downloads
<1> QED BY <1>1, FilesTypeCorrect, FilesStep, PTL DEF Spec

(* "Write an upload atomically" (core.py 253): no destination ever shows   *)
(* part of a body, two mixed bodies or one beyond the limit.  A download   *)
(* that looks complete has the length of a whole version and is whole,     *)
(* unless the file was replaced between its stat and its open; only then,  *)
(* and only at a chunk's end, is it a prefix of the newer version.         *)
THEOREM UploadsAtomic == Spec => []UploadsAreAtomic
<1>1. FilesInv => UploadsAreAtomic
  BY DEF FilesInv
<1> QED BY <1>1, FilesInvariant, PTL

(* The finally block of write_upload leaves no temporary behind on any     *)
(* path that answers (core.py 273-275).                                    *)
THEOREM UploadsLeaveNothing == Spec => []NoLeftovers
<1>1. FilesInv => NoLeftovers
  BY DEF FilesInv, Temporaries, NoLeftovers
<1> QED BY <1>1, FilesInvariant, PTL

(* maximum_upload_bytes is exact: "too large" is only said of a larger     *)
(* body, and none such is accepted, however it is cut into chunks          *)
(* (core.py 263-269).                                                      *)
THEOREM UploadLimitExact == Spec => []LimitIsExact
<1>1. TypeOK /\ FilesInv => LimitIsExact
  <2> SUFFICES ASSUME TypeOK, FilesInv, NEW u \in Uploads
               PROVE  /\ up[u].answer = "tooLarge" => up[u].size > MaxUpload
                      /\ up[u].answer = "ok" => up[u].size <= MaxUpload
    BY DEF LimitIsExact
  <2>1. up[u].total \in Nat /\ up[u].size \in Nat /\ Progress(up[u])
    BY FilesAssumption DEF TypeOK, FilesInv, Upload, Sizes
  <2> QED BY <2>1, FilesAssumption DEF Progress
<1> QED BY <1>1, FilesTypeCorrect, FilesInvariant, PTL
=============================================================================
