---------------------------- MODULE WorkspaceFiles ----------------------------
(***************************************************************************)
(* The file API of the runtime service over one workspace directory:       *)
(* write_upload and list_directory (xolis_runtime/core.py 250-299) with    *)
(* their endpoints (app.py 95-133).  Uploads run in worker threads, the    *)
(* other endpoints on the event loop, so each system call of an upload may *)
(* fall between two of a listing or a download; a command may remove or    *)
(* create entries at any time.                                             *)
(*                                                                         *)
(* A file is what was written to it: the upload it comes from and the      *)
(* units it holds.  A path is either refused by resolve_workspace_path or  *)
(* one of Paths, all in one directory, which exists.  External: the file   *)
(* system, the command, the container's restart, and FileResponse with the *)
(* HTTP server: the length of the file is taken and announced, the path is *)
(* opened and sent in chunks, and the server holds the body to the length. *)
(***************************************************************************)
EXTENDS Integers, FiniteSets

CONSTANTS Uploads,    \* upload requests
          Readers,    \* list and download requests
          Paths,      \* destinations inside the workspace
          MaxUpload,  \* settings.maximum_upload_bytes, in units
          MaxSize,    \* bound: units of a request body
          Chunk       \* units FileResponse reads and sends at a time

ASSUME FilesAssumption ==
    /\ MaxUpload \in Nat /\ MaxSize \in Nat /\ Chunk \in Nat \ {0}
    /\ Uploads \cap Paths = {}

VARIABLES files,      \* the directory: name -> file; a temporary is named by its upload
          dirs,       \* destinations that are directories
          up,         \* per upload: its thread
          rd          \* per reader: its request

vars == <<files, dirs, up, rd>>

Sizes == 0..MaxSize
File == [from : Uploads, size : Sizes]
NoFile == [from |-> "none", size |-> 0]
Entries == DOMAIN files \cup dirs

(* size: the whole body; total: units read of it. *)
Upload == [pc : {"idle", "read", "replace", "unlink", "done", "lost"}, path : Paths,
           size : Sizes, total : Sizes, answer : {"none", "ok", "refused", "tooLarge", "failed"}]

(* left: entries still to be listed; announced: the file whose length a    *)
(* download announces (only its size is known to the code); got: the body  *)
(* it delivers, a prefix when got.size is less than the upload's.          *)
Reader == [pc : {"idle", "list", "stat", "open", "done"}, path : Paths,
           left : SUBSET (Paths \cup Uploads),
           announced : File \cup {NoFile}, got : File \cup {NoFile},
           answer : {"none", "listed", "served", "notFound", "failed"}]

Init ==
    /\ files = [n \in {} |-> NoFile]
    /\ dirs = {}
    /\ up \in [Uploads -> [pc : {"idle"}, path : Paths, size : Sizes, total : {0}, answer : {"none"}]]
    /\ rd \in [Readers -> [pc : {"idle"}, path : Paths, left : {{}},
                           announced : {NoFile}, got : {NoFile}, answer : {"none"}]]

Put(n, f) == files' = [m \in DOMAIN files \cup {n} |-> IF m = n THEN f ELSE files[m]]
Remove(n) == files' = [m \in DOMAIN files \ {n} |-> files[m]]

-----------------------------------------------------------------------------
(* write_upload.  What is raised once the temporary file exists is raised  *)
(* through the finally block, which is the step from "unlink".             *)

Thread(u, from, to, answer) ==
    /\ up[u].pc = from
    /\ up' = [up EXCEPT ![u].pc = to, ![u].answer = answer]
    /\ UNCHANGED <<dirs, rd>>

\* Slip: the upload is written in place.
TemporarySlip(u) == up[u].path

(* NamedTemporaryFile in the destination's directory: a new name. *)
Temporary(u) == u

(* No filename, or PathViolation. *)
RefuseUpload(u) == Thread(u, "idle", "done", "refused") /\ UNCHANGED files

OpenTemporary(u) ==
    /\ Thread(u, "idle", "read", "none")
    /\ Put(Temporary(u), [from |-> u, size |-> 0])

\* Slip: the limit is compared before the chunk is counted.
ExceedsSlip(u, n) == up[u].total > MaxUpload

Exceeds(u, n) == up[u].total + n > MaxUpload

(* A chunk is read: UploadTooLarge, or it is written (to an unlinked file  *)
(* when a command has removed the temporary).                              *)
WriteChunk(u, n) ==
    /\ up[u].pc = "read"
    /\ n \in 1..(up[u].size - up[u].total)
    /\ up' = [up EXCEPT ![u].total = @ + n,
                        ![u].pc = IF Exceeds(u, n) THEN "unlink" ELSE "read",
                        ![u].answer = IF Exceeds(u, n) THEN "tooLarge" ELSE "none"]
    /\ IF ~Exceeds(u, n) /\ Temporary(u) \in DOMAIN files
         THEN files' = [files EXCEPT ![Temporary(u)].size = up[u].total + n]
         ELSE UNCHANGED files
    /\ UNCHANGED <<dirs, rd>>

(* The body is at its end and the temporary file closed. *)
BodyEnds(u) ==
    up[u].total = up[u].size /\ Thread(u, "read", "replace", "none") /\ UNCHANGED files

(* OSError from a read, a write or the close. *)
UploadFails(u) == Thread(u, "read", "unlink", "failed") /\ UNCHANGED files

CanReplace(u) == Temporary(u) \in DOMAIN files /\ up[u].path \notin dirs

(* os.replace, atomic; it raises when the temporary is gone or the         *)
(* destination is a directory.                                             *)
Replace(u) ==
    \/ /\ CanReplace(u)
       /\ Thread(u, "replace", "done", "ok")
       /\ files' = [m \in (DOMAIN files \ {Temporary(u)}) \cup {up[u].path} |->
                       IF m = up[u].path THEN files[Temporary(u)] ELSE files[m]]
    \/ ~CanReplace(u) /\ Thread(u, "replace", "unlink", "failed") /\ UNCHANGED files

\* Slip: the finally block does not unlink the temporary.
UnlinkSlip(u) == UNCHANGED files

Unlink(u) == Remove(Temporary(u))

(* finally: unlink(missing_ok=True), then the exception goes on. *)
UnlinkTemporary(u) == Thread(u, "unlink", "done", up[u].answer) /\ Unlink(u)

-----------------------------------------------------------------------------
(* Listing and download. *)

Request(r, from, to, answer) ==
    /\ rd[r].pc = from
    /\ rd' = [rd EXCEPT ![r].pc = to, ![r].answer = answer]
    /\ UNCHANGED <<files, dirs, up>>

(* list_directory: the names are read first and looked at one by one. *)
IterDir(r) ==
    /\ rd[r].pc = "idle"
    /\ rd' = [rd EXCEPT ![r].pc = "list", ![r].left = Entries]
    /\ UNCHANGED <<files, dirs, up>>

(* entry.stat(): a name that is gone raises FileNotFoundError, a 404. *)
StatEntry(r) ==
    \E n \in rd[r].left :
        \/ /\ n \in Entries /\ rd[r].pc = "list"
           /\ rd' = [rd EXCEPT ![r].left = @ \ {n}]
           /\ UNCHANGED <<files, dirs, up>>
        \/ n \notin Entries /\ Request(r, "list", "done", "notFound")

ListDone(r) == rd[r].left = {} /\ Request(r, "list", "done", "listed")

(* download: is_file, then FileResponse takes the length and opens. *)
IsFile(r) ==
    \/ rd[r].path \in DOMAIN files /\ Request(r, "idle", "stat", "none")
    \/ rd[r].path \notin DOMAIN files /\ Request(r, "idle", "done", "notFound")

StatFile(r) ==
    \/ /\ rd[r].pc = "stat" /\ rd[r].path \in DOMAIN files
       /\ rd' = [rd EXCEPT ![r].pc = "open", ![r].answer = "none",
                           ![r].announced = files[rd[r].path]]
       /\ UNCHANGED <<files, dirs, up>>
    \/ rd[r].path \notin DOMAIN files /\ Request(r, "stat", "done", "failed")

(* The announced length n is met by a file of that length, or by the       *)
(* chunks sent before the one that would exceed it and closes the          *)
(* connection; anything else the client sees as a broken response.         *)
Delivers(f, n) == f.size = n \/ (f.size > n /\ n % Chunk = 0)

(* The headers are out, then the path is opened and read; an open file     *)
(* does not change, since an upload replaces the name.                     *)
OpenFile(r) ==
    LET path == rd[r].path
        n == rd[r].announced.size
    IN  \/ /\ rd[r].pc = "open" /\ path \in DOMAIN files /\ Delivers(files[path], n)
           /\ rd' = [rd EXCEPT ![r].pc = "done", ![r].answer = "served",
                               ![r].got = [files[path] EXCEPT !.size = n]]
           /\ UNCHANGED <<files, dirs, up>>
        \/ /\ path \in DOMAIN files => ~Delivers(files[path], n)
           /\ Request(r, "open", "done", "failed")

-----------------------------------------------------------------------------
(* A command in the workspace removes an entry or creates a directory. *)

CommandRemoves(n) ==
    /\ n \in Entries
    /\ Remove(n) /\ dirs' = dirs \ {n}
    /\ UNCHANGED <<up, rd>>

CommandMakesDirectory(p) ==
    /\ p \notin Entries
    /\ dirs' = dirs \cup {p}
    /\ UNCHANGED <<files, up, rd>>

(* The runtime's container dies and is restarted (restartPolicy: Always);  *)
(* the workspace is an emptyDir and outlives it.                           *)
Running(pc) == pc \notin {"idle", "done", "lost"}

Restart ==
    /\ \E u \in Uploads : Running(up[u].pc)
    /\ up' = [u \in Uploads |-> IF Running(up[u].pc) THEN [up[u] EXCEPT !.pc = "lost"] ELSE up[u]]
    /\ rd' = [r \in Readers |-> IF Running(rd[r].pc)
                                   THEN [rd[r] EXCEPT !.pc = "done", !.answer = "failed"] ELSE rd[r]]
    /\ UNCHANGED <<files, dirs>>

Terminated ==
    /\ \A u \in Uploads : up[u].pc \in {"done", "lost"}
    /\ \A r \in Readers : rd[r].pc = "done"
    /\ UNCHANGED vars

Next ==
    \/ \E u \in Uploads :
          \/ RefuseUpload(u) \/ OpenTemporary(u) \/ BodyEnds(u) \/ UploadFails(u)
          \/ Replace(u) \/ UnlinkTemporary(u)
          \/ \E n \in 1..MaxSize : WriteChunk(u, n)
    \/ \E r \in Readers :
          \/ IterDir(r) \/ StatEntry(r) \/ ListDone(r)
          \/ IsFile(r) \/ StatFile(r) \/ OpenFile(r)
    \/ \E n \in Paths \cup Uploads : CommandRemoves(n)
    \/ \E p \in Paths : CommandMakesDirectory(p)
    \/ Restart \/ Terminated

Spec == Init /\ [][Next]_vars

-----------------------------------------------------------------------------
(* Files, threads and requests keep their types, and no name is a file and *)
(* a directory at once: os.replace never lands on a directory.             *)
TypeOK ==
    /\ DOMAIN files \subseteq Paths \cup Uploads
    /\ \A n \in DOMAIN files : files[n] \in File
    /\ dirs \subseteq Paths
    /\ dirs \cap DOMAIN files = {}
    /\ up \in [Uploads -> Upload]
    /\ rd \in [Readers -> Reader]

Whole(f) == f.size = up[f.from].size /\ f.size <= MaxUpload

(* A complete response has the announced length of a whole version, and   *)
(* its body is whole unless the file was replaced after its length was     *)
(* taken; then it is a prefix, cut at a chunk, of the newer version.       *)
CompleteDownload(d) ==
    /\ Whole(d.announced) /\ d.got.size = d.announced.size
    /\ \/ Whole(d.got)
       \/ /\ d.got.from # d.announced.from
          /\ d.got.size < up[d.got.from].size /\ d.got.size % Chunk = 0

(* core.py 253, "Write an upload atomically": whatever uploads, failures,  *)
(* restarts and commands interleave, a destination only ever holds the     *)
(* whole body of one upload within the limit.  A download that looks       *)
(* complete (app.py 113-120) is then whole too, except when an upload      *)
(* comes between its stat and its open and the old length is a multiple of *)
(* the chunk.                                                              *)
UploadsAreAtomic ==
    /\ \A p \in Paths \cap DOMAIN files : Whole(files[p])
    /\ \A r \in Readers : rd[r].answer = "served" => CompleteDownload(rd[r])

(* An upload that has been answered, however it ended, leaves no temporary *)
(* file behind (the finally block, core.py 273-275).                       *)
NoLeftovers == \A u \in Uploads : up[u].pc = "done" => u \notin DOMAIN files

(* An upload is refused as too large exactly when its body exceeds the     *)
(* limit, wherever its chunks are cut (unless it fails first).             *)
LimitIsExact ==
    \A u \in Uploads :
        /\ up[u].answer = "tooLarge" => up[u].size > MaxUpload
        /\ up[u].answer = "ok" => up[u].size <= MaxUpload
=============================================================================
