# Xolis in TLA+

A verification project for Xolis: the sandbox API (`services/xolis-api`, Rust), the
runtime service inside every sandbox (`services/xolis-runtime-python`, Python), and the
operator's tools around them (`tools/`, Python). TLA+ modules model the parts with
behaviour of their own, TLC checks them on small instances, and TLAPS proves the
central invariants for every value of the constants. `PROJECT.json` maps each
definition to the source lines it models.

## The system

| Part | State it keeps | Operations | What is hard |
|---|---|---|---|
| In-memory store (`store.rs`) | sandboxes, idempotency records, one lock | create, list, get, delete | the two maps must agree after any sequence of calls |
| Kubernetes store (`kubernetes.rs`) | none of its own: SandboxClaims on the API server | the same, as one or two requests each | other calls, expiry and the controller act between two requests; answers are lost; clients retry |
| HTTP handlers (`api.rs`) | configuration | validate, look up the running sandbox, call the runtime | the sandbox looked up may be gone when it is used |
| Runtime client and proxy (`runtime.rs`) | an HTTP client; two halves of a WebSocket | forward commands, files, sessions | its own timeout against the runtime's; a direction that ends first |
| Buffered commands (`core.py`, `POST /execute`) | process, two reader tasks | spawn, wait with timeout, kill, gather | deadline, exit and end of streams in any order |
| Streamed commands (`core.py`, `POST /execute/stream`) | generator, queue, readers | the same, yielding events | a client that leaves or stalls at any yield or await |
| Interactive sessions (`interactive.py`) | PTY, process, three tasks, WebSocket | start, input, output, TTL, cancel | which of four ends comes first, cleanup on every path |
| Workspace files (`core.py`, `app.py`) | the workspace directory | upload, list, download, exists | threads, commands and restarts between system calls |
| AWS lab (`xolis_aws_lab.py`) | capacity of an Auto Scaling group, nodes, warm pools, a report | start, stop, bootstrap, cycle, service, benchmark | a failure or Ctrl-C anywhere; polling two systems that change meanwhile; cleanup that itself fails |
| Hermes demo (`hermes_demo.py`) | API environment, warm pool, a sandbox, a port-forward, a terminal | prepare, create, session, clean up | undoing what was done so far; demos that rely on what another one left |
| Image builder (`xolis_image_builder.py`) | an EC2 instance, a versioned object, a remote command | upload, launch, build, read references, clean up | cleanup over several resources; a remote build that ends in many ways |

The API looks a sandbox up in a store and forwards the request through the
router to the runtime of that sandbox. The stores share nothing with the runtime;
they interact only through the SandboxClaim (state, sandbox name, pod address).
Inside the runtime the three ways to run a command share one policy: a command
is the leader of a new session and process group, output is cut at a limit, and a
deadline or TTL ends in `killpg`. The tools share the cluster: each finds what the
ones before it left.

What makes each part correct:

* stores: one sandbox per tenant and key, tenants stay apart, deletions are seen,
  every sandbox expires;
* requests: each is answered, and given up only when its command is over;
* commands and sessions: the reported exit code is true, also two hops away, output
  arrives complete up to the limit and before the exit, a timeout kills the group,
  whatever way it ends nothing is left behind, and it does end;
* files: a destination holds whole uploads only, temporary files disappear;
* tools: they end, what they report is true, what they use is really there, and what
  they acquired is given back.

## Modules

| Module | Models | State and actions |
|---|---|---|
| `SandboxStore` | the trait `SandboxStore`, as a contract | stored sandboxes, names that keys give them, used ids, what the last answer showed; create, read, remove |
| `InMemoryStore` | `InMemorySandboxStore` | `sandboxes`, `idempotency` are its maps; a method holds the lock for its whole body, so it is one action (`create` and `delete` are split by their early return). `reply` is the last answer |
| `KubernetesStore` | `KubernetesSandboxStore` | `claims` is the API server; each call is a small program counter whose steps are the awaited requests. `Fails` loses an answer, with or without the effect. The controller and the clock are external actions. `last` and `deleted` only observe |
| `RuntimeCommand` | one `POST /execute` as its caller can tell, as a contract | the command, who holds its streams, its limit, the answer; not started, ends, releases, answers |
| `RuntimeSession` | one interactive session as the other end of its WebSocket can tell, as a contract | open or ended, how it ended, a stop request, what was sent and not yet taken; output, failure, exit, close |
| `SessionProxy` | `RouterRuntimeClient::interactive` and the terminal client of `hermes_demo.py` | extends `RuntimeSession` with client and proxy and the other three of the four queues between them |
| `SandboxApi` | the handlers of `api.rs` that reach into a sandbox, and the runtime client | composes `KubernetesStore`, `SessionProxy` and `RuntimeCommand`; a request, its limit, the time it has been out |
| `ProcessGroup` | `_kill_process_group` and, externally, the operating system and asyncio's process | live processes, the leader's group, who holds which stream, what is in the pipes, the leader's status and asyncio's `returncode` |
| `CommandExec` | `execute_command`, `_read_limited` | extends `ProcessGroup` |
| `CommandStream` | `stream_command`, `execute_stream` | extends `ProcessGroup`; a step is the code between two awaits or yields |
| `InteractiveSession` | `run_interactive_session` | extends `ProcessGroup`; coroutine, `output_task`, `input_task`, `wait_task`, and each message to the client as a step of its own |
| `WorkspaceFiles` | `write_upload`, `list_directory`, the file endpoints | one directory; a step is one system call of a thread or request |
| `Cluster` | external: what the tools act upon | Auto Scaling group, instances, node objects, warm pools, API environment, the clock and Ctrl-C |
| `AwsLab` | `AwsLab` | a workflow is data: stages (try blocks, often one phase) of operations, each with the stage an exception leads to; one action per operation |
| `HermesDemo` | `main` of the demo and what it calls | one action per step, with the local variables the `finally` block decides on |
| `ImageBuilder` | `ImageBuilder.run` and `cleanup` | one action per AWS call; the remote script runs line by line |
| `Workbench` | an operator who runs tools one after another | composes the three tools over one `Cluster` |
| `*Proofs` | | theorems about the module they extend; `SandboxApiProofs` holds those of `KubernetesStore`, `InMemoryStoreProofs` that of `SandboxStore`, `WorkbenchProofs` those of the three tools |
| `MC*` | | instances for TLC |

Modelling decisions worth knowing:

* **Process.wait().** Some CPython releases wake a waiter when the leader is
  reaped, others only when its pipes have ended as well. The images use more than
  one Python release, so `waitNeedsEof` is chosen once per behaviour and the
  properties hold, or fail, under both.
* **Kill and death.** `killpg` reaches the processes that are in the group at that
  moment. A helper may have left the group with `setsid` (`CanEscape`); what
  it does from then on is outside the policy, but it still holds the streams.
* **Clients.** A disconnect closes the stream's generator where it is suspended.
  The server may cancel the same request again at a later await, so the wait of the
  `finally` block can be cut short (`CancelledAgain`).
* **Hashes** that name claims are injective; a keyed name is the pair of tenant
  and key. Uuids are fresh among the names in use.
* **Time** is a flag the clock raises (`expired`, `due`, `late`), so every order of a
  deadline and other events is explored. Only `SandboxApi` counts it, because there
  two limits are compared.
* **Commands of the tools** (`aws`, `kubectl`, `helm`) succeed, fail with or without
  their effect, or are interrupted (`Outcome`, `Command`). A node object outlives its
  instance for a while and may still be Ready.
* **Restarts.** The profiles use `restartPolicy: Always` and an `emptyDir`
  workspace, so a restart of the runtime loses the threads and keeps the files.
* Operators named `...Slip` are plausible mistakes in the definition that follows
  them. They are never used by a specification; replacing the definition by its
  slip must break the property that guards against it.

## Runs

Passing runs:

| Run | Question |
|---|---|
| `memory_store` | Do the two maps agree, and does every call amount to a step of the contract? |
| `kube_store` | With two calls of two tenants in flight, lost answers, expiry and finalisation between requests: do the requests add up to steps of the contract (one claim per key, own sandboxes only), are deletions the caller's own, is an answered deletion seen by every later read? |
| `api` | Is every request answered, and is the command over when the API gives up on it? Does a session report a true code, and stop when its client vanishes? Does a claim go away when nobody calls? |
| `exec` | Is the answer of `POST /execute` true and complete, is the group dead after a timeout, does the call return once its streams are released? |
| `stream` | Is the event protocol kept, the exit code true, no output lost, everything cleaned up, the deadline enforced; does a stream end? |
| `session` | The same for interactive sessions: messages, exit code, cleanup, TTL, end |
| `files` | Are uploads atomic, exactly limited and without leftovers against other uploads, readers, commands and a restart? |
| `tools` | Do lab, demo and builder end, clean up after every failure, report the truth, and use only what is really there? |

`ImplementsSandboxStore` is the refinement: in both stores the abstract variables of
`SandboxStore` are functions of the concrete ones (`Stored`, `Named`, `Shown` or
`ShownNow`), and the specification of the contract is a property of the run.

`ImplementsRuntime` and `ImplementsRuntimeSession` join the runtime to the API in the same
way. `SandboxApi` and `SessionProxy` are built from the actions of `RuntimeCommand` and
`RuntimeSession`; the runs `exec` and `session` show that `CommandExec` and
`InteractiveSession` implement these contracts, with mappings that say what the other side
can tell (`CommandSeen`, `StreamsHeld`, `AnswerSeen`; `EndSeen`, `SentSeen`, `DownSeen`). So
what the `api` run assumes of the runtime is checked, except the fairness: that a killed
command's answer comes once its streams are released is `ReturnsOnceReleased`, and that a
session which was asked to stop or lost its client ends is `SessionEnds`.

Runs that show a disagreement between the code and what the repository says of it
(each is a finding in `PROJECT.json`):

| Run | What happens |
|---|---|
| `kube_retry` | POST answers 409, the claim is finalised, GET answers 404: the retry fails |
| `stream_disconnect` | the leader has exited, a process of its group still holds a stream; the client leaves; `returncode` is set, so the group is not killed |
| `lab_cycle` | a node start fails or times out before the `try` of `cycle`: the group stays scaled up and nothing tries to scale it down |
| `hermes_restore` | the rollout inside `configure_api` fails: `original_api` is still `None`, so the environment is not restored and nothing is said |

Observations from the same models that have no run of their own. Most follow from a
hypothesis that a property has to make:

* Buffered commands: a process that left the group and keeps a stream open blocks the
  final `gather` (`core.py` 154) for as long as it lives; `ReturnsOnceReleased` needs
  the streams released. At the API only the client's timeout ends such a request
  (`RequestsAreAnswered`).
* `StreamEnds` and `SessionEnds` need a client that takes what it is sent or leaves. A
  client that does neither suspends the generator at a yield (`core.py` 219), where the
  deadline is not looked at, and blocks the error reply of a session (`interactive.py`
  136), which is sent before the kill.
* `TtlKillsGroup` speaks of sessions that timed out. A session that ends by the exit
  of its leader kills nothing (`interactive.py` 118, 142): the rest of the group may
  survive it.
* `CleanSession` speaks of the master side of the terminal: with a terminal size out of
  range the slave descriptor stays open (`interactive.py` 51).
* delete answers while the claim is still stored (`kubernetes.rs` 99): what holds is
  `DeletionIsSeen`, later reads show it as Terminating.
* A listing answers 404 for an existing directory when an entry disappears between
  `iterdir` and `stat` (`StatEntry`).
* `FileResponse` announces the length it finds at its `stat` and opens the path
  afterwards (`StatFile`, `OpenFile`). When an upload of another size comes in between,
  the server breaks the response off, or, when the new file is longer and the announced
  length is a multiple of the chunk (an empty file included), the client gets a prefix of
  the new version that looks complete. `UploadsAreAtomic` says that this is the only way
  to a cut download.
* Sessions: a Close frame without an exit message makes the terminal client return 0,
  and a keystroke sent while the session ends can cost it the exit code (it raises
  instead): `SessionCodeIsTrue` excludes only a wrong code.
* Benchmark: the wait for the replenished pool between two warm samples is outside
  every phase (`xolis_aws_lab.py` 287-288), so a failure there shows in no phase; the
  sample counts show it, and `ReportTellsTruth` says so. A sample file that was cut short
  makes `write_benchmark_summary` raise (line 381): there is no workflow report then, and
  the summary's error replaces the first failure (`SummaryFails`). `CleanupIsTried` speaks
  of every run that ended, `ReportTellsTruth` of the reports that were written.
* Demo: a failure before anything was prepared still scales an existing prepared pool to
  zero; a demo that starts after a failed `configure_api` takes the demo's environment
  for the original one; `ensure_prerequisites` counts Ready node objects of terminated
  instances.
* Builder: when the answer of `run-instances` is lost, cleanup does not know the
  instance; when the termination or its verification fails, the source is not removed
  (`dirty` in `BuildLeavesNothing`).

### Bounds

* Processes: the leader and one helper. A helper can be in or out of the group and
  outlive the leader, which are all the roles the code can tell apart.
* Output: `MaxWrite` exceeds `MaxOutput` in the safety runs, so that chunks end
  before, at and after the limit.
* Exit codes: 3 stands for what a process chooses (0 and 3 in `exec`, 0 and 1 in `api`);
  -9, 124, 125, 127 and 130 arise from the code.
* `kube_store`: two calls, two tenants, one key, one uuid, two claims ever stored:
  a name can be reused once, and each call can meet the other at any request. Calls
  and tenants are symmetric.
* `api`: one request into a sandbox at a time, followed by others, over one store call,
  one key and two claims ever stored (so the sandbox can vanish and its name be taken
  again while the request is out). No unkeyed claims: `kube_store` has them. Limits 0 to
  `MaxTimeout + Slack + 1` = 4 meet every order of the two timeouts. The
  controller reports only Ready; the other reports are in `kube_store`. Two messages
  towards the client, and one followed by a cancel towards the runtime, are enough for one
  to be lost behind another; the exit message and the close frame come on top.
* `files`: two uploads to one destination, where they collide (destinations meet only in
  a listing, which has temporary files besides), one reader, bodies below, at and above
  the limit in every division into chunks. With `Chunk` = 2 and bodies of 0 to 3 units a
  replaced file is shorter, longer at a multiple of the chunk (0 and 2) and longer
  elsewhere than what the download announced.
* `MaxReplies`: one error reply to an unsupported message; the task returns to the
  state it was in.
* `tools`: `MaxInstances` = 2, a stale and a fresh one; one node as desired size; one
  Ctrl-C, which can strike during cleanup; two samples per benchmark mode, so that
  there is a wait between two samples; two images, none or one converted to Nydus. The
  sequences are those of the documentation: a benchmark, a failed cycle followed by a
  stop, demos on a started node with and without preparation, a service run over a kept
  demo, builds.

`CHECK_DEADLOCK` is on everywhere: a finished instance stutters in `Terminated`.

Types are proved rather than checked: every component has a type theorem, and only the run
of `CommandStream`, where the type says that output never exceeds the limit, has `TypeOK`
among its invariants.

### Fairness

* Runtime: weak fairness of the event loop's own steps, the clock and the child watcher:
  a running asyncio loop runs what is ready, and the kernel reports a death. Nothing is
  assumed of the command. The stream and the session add a client that takes what it is
  sent (or disconnects).
* `KubernetesStore`: the clock and the controller are fair (`ControllerFair`); callers
  owe nothing.
* `SandboxApi`: the requests of the handlers are served or fail, the clock ticks, and the
  tasks of proxy and runtime run (`SessionFair`). The user and the command owe nothing.
* `Workbench`: the commands of a tool return and the clock reaches every deadline.
  Nothing is assumed of the cluster, which may never reach what is waited for.

`StreamEnds` holds unless a process that left the group keeps a stream open:
`process.wait()` after the kill may then not return in the releases that wait for the
pipes; the leader is stopped all the same.

## Proofs

TLAPS checks, for arbitrary constants satisfying the named assumptions:

* `InMemoryStoreProofs`: `TypeCorrect`, `RecordsStayLive`, `ConflictUnreachable`,
  `KeysStayStable`, `TenantsStaySeparate`. `NoStaleRecordAnswer` is not
  inductive: it needs `RecordsAreLive`, which in turn needs that `issued` ids are
  never handed out twice (part of `TypeOK`). The action properties follow from the
  same invariant. `MemoryImplementsContract` is the refinement: every method is one
  step of the contract, given `TypeOK` and `RecordsAreLive`. `ContractKeepsPromises` is
  about the contract alone, over variables of its own: a key names one stored sandbox of
  its tenant, an id has one owner, answers show stored sandboxes of the caller. It needs
  that stored ids are among the used ones.
* `SandboxApiProofs`, the store: `KubernetesTypeCorrect`, `AnswersStayOwn`,
  `DeletesStayOwn`, `DeletionStaysSeen`, `OneClaimStaysPerKey` and the refinement
  `KubernetesImplementsContract`, for any number of concurrent calls. They rest on
  `StoreInv`: a keyed claim has the name its tenant and key determine and uids are
  unique (`ClaimsOK`); only a create posts, and posts its own name (`CallsOK`); from the
  GET of delete on, its name can only belong to the caller's tenant, even after the
  claim is gone and the name taken again (`DeletesOK`); a uuid about to be posted is no
  claim's and no other call's (`FreshOK`). None of the properties is inductive without
  it: `DeletesAreOwn` speaks of a DELETE whose check happened an unbounded number of
  steps earlier. The steps are grouped by what they do to the claims (`Touch`, a stored
  claim, a finalised one), so that the invariant and the refinement use the same lemmas.
  The assumption `NamesAssumption` says that a uuid is never the hash of a tenant and
  a key.
* `SandboxApiProofs`, the API: `ApiUsesStore` says that every behaviour of the API is one
  of the store, so the theorems above hold of it as well. `ApiTimeoutMeansKilled` rests on
  `RequestInv`: a request that is out carries a limit that was accepted, and its command
  runs only as long as that limit; with `TimeoutAssumption` (the client's timeout lies
  `Slack` > 0 behind the largest limit, as in `main.rs`) giving up comes later.
  `ApiSessionCodeTrue` rests on `SessionInv`, over queues of any length: an exit message
  carries the code of the session (`Marked`), and a client that still reads meets the
  message that makes it leave before the close frame, in the queue it reads or in the one
  behind it (`CloseIsLast`); what the runtime announced is still on its way to a client
  that reads (`Coming`). Without `CloseIsLast` a lost exit message could become code 0.
  `ApiTypeCorrect` needs both invariants: a client's
  result has its type because the code in the message has.
* `ProcessGroupProofs`: lemmas on what a step of the command, a kill and a reaping
  may change: a dead leader stays dead, an emptied group stays empty, a status
  is never overwritten. The three command runners below share them.
* `CommandStreamProofs`: `StreamTypeCorrect`; `StreamExitCodeTrue`,
  `StreamTimeoutKills` and `StreamEndsClean` from `StreamInv`, which says what is
  known at each program counter: nothing lives and nothing was yielded before the
  spawn, the group is empty from the kill on, `returncode` is set once
  `process.wait()` came back (for a stream its client has not closed), an exit code
  exists only at the end of the generator and agrees with `timed_out` and
  `returncode`. `StreamEventsOrdered` adds `EventInv`: while the generator can still yield
  output no last event was yielded, and a timeout event is the one just before the exit.
  `StreamNothingLost` follows each unit of output from the pipe through the reader and
  the queue to the client. What is in the queue has to be summed, which would take
  induction over data; the invariant instead asserts partial sums along the queue
  (`Sums`), and putting or taking an item shifts them by one. It needs that
  `Streams` is finite, as it is (stdout and stderr).
* `CommandExecProofs`: `ExecTypeCorrect`, `ExecResultTrue`, `ExecOutputComplete`. The
  invariant balances the books of each stream (`Accounted`: what was captured is what was
  written and is no longer in the pipe, cut at the limit), says what a reader that never
  started or has ended knows of it, and what the coroutine knows of the process at each
  await. `ExecImplementsRuntime` is the refinement of `RuntimeCommand`. It adds `SeenInv`:
  where the coroutine is when limit and timeout are seen (`Timed`), a call that spawned
  nothing leaves nothing to be reaped (`Unborn`), the readers are gathered only with a
  status at hand (`Returned`), and an answer finds every stream released (`Closed`).
  `ExecOverMeansDead` says what the contract's words mean in the process group: a command
  that is over has a dead leader, a killed one an empty group. Together with
  `ApiTimeoutMeansKilled` this reaches from the API down to the processes: when the API
  gives up on a command at its timeout, its leader is dead (given that the runtime's timer
  fires promptly, which `Tick` assumes).
* `InteractiveSessionProofs`: `SessionTypeCorrect`, `SessionMessagesOrdered`,
  `SessionExitTrue`, `SessionTtlKills`, `SessionEndsClean`. Not even the type invariant is
  inductive alone: the exit code has its type only because the code after `asyncio.wait`
  knows what ended the session (`Decided`). `SessionImplementsWire` is the refinement of
  `RuntimeSession`, for any number of messages. The step that takes an argument is the exit
  message: 124 was preceded by the timeout message (`TimeoutTold`), 125 by the error of the
  output limit (`LimitReached`), 130 by a stop request (`VerdictHolds`). It adds
  `ToldAll`: after the exit message the `finally` block has nothing to wait for, so no task
  runs and nothing follows the message but the close.
* `WorkspaceFilesProofs`: `FilesTypeCorrect`, `UploadsAtomic`, `UploadsLeaveNothing`,
  `UploadLimitExact`, for any number of uploads and readers. `os.replace` moves whatever
  the temporary file holds, so atomicity needs that a temporary holds exactly what its
  thread has read (`Temporaries`) and that the thread replaces only after the whole body
  (`Progress`). The part on downloads needs that an announced length is that of a whole
  version (`Downloads`): two whole files of one upload have one length, so a body that is
  cut comes from another upload than the one announced (`SentBody`).
* `WorkbenchProofs`: the tools, for every plan of an operator, and any number of
  instances, interrupts, iterations and images. Everything uses `OneTool`: while one
  tool runs the others do nothing, so its locals stay true although it shares the cluster.
  * Demo: `DemoLeavesNothing`, `DemoKeepsPrepared`, `UsePreparedStaysReadOnly`. `DemoInv`
    says which steps each way of calling it takes, what has been prepared so far
    (`Preparing`), and what the `finally` block finds and has undone (`CleaningUp`).
  * Builder: `BuilderLeavesNothing`, `BuilderReferencesBuilt`. `BuildInv` follows cleanup
    step by step (`Removed`) and the remote script line by line (`Executed`); the lemma
    `ScriptChecks` shows that the script has a check for every converted image, for every
    finite set of images (`ImagesAssumption`; the code's table of repositories is finite).
  * Lab: `ZeroCapacityAfterSuccess`, `StartsOnLiveNode`, `CleanupAlwaysTried`,
    `ReportsAgree`. The workflows are data, so their shape is a lemma of its own
    (`WorkflowShape`): an exception leads forward, nodes are waited for only after the
    group was scaled down in the same stage, the workflows that stop the nodes do it
    last, and those with a report cannot end around that stage. `LabInv` adds what is
    known of the cluster: while nodes are waited for the group stays at zero, so an empty
    first reading is still true at the second (`Draining`); what was read as in service
    was in service during the run (`Counting`). `ReportsAgree` is the part of
    `ReportTellsTruth` that needs no counting of samples; `ReportsTellTruth` is all of it.
    `Tally` counts as the cardinality of a set of positions, which one more sample
    enlarges by at most one (`Tallied` and the lemmas after it), so no induction over data
    is needed. `Sampling` ties the number of samples to the stage the benchmark has
    reached; `Accounted` says that a failure is in a phase or fell between two warm
    samples, and that a sample phase that passed has its sample.
  * `WorkbenchTypeCorrect`: the variables of cluster and tools keep their types.

Every inductive invariant of `WorkbenchProofs` was also checked by TLC on the instance
of the `tools` run.

Only model-checked: the liveness properties `ClaimsExpire`, `RequestsAreAnswered`,
`SessionStops`, `ReturnsOnceReleased`, `StreamEnds`, `SessionEnds` and `ToolsEnd` (TLAPS has
no fairness reasoning). Every invariant, action property and refinement of a passing run
is also a theorem.

## Not modelled

* The AWS lab's `doctor` (reads only) and `infra` (hands its action to OpenTofu); the
  parsing of its configuration.
* The cost report: queries and arithmetic over one answer of Cost Explorer, without
  state. The service smoke test: a sequential client, one command in the lab's model.
* Settings, domain types and process start have no behaviour of their own. Build
  scripts, kernel configuration checks, manifests and OpenTofu are configuration.
* The router: how it resolves sandbox id and pod address, and what it does when an
  address is reused, is not in the repository.
* Inside the modelled parts: text decoding, the bytes of input and output, the terminal
  size once accepted, path resolution beyond accept or refuse, the worker threads behind
  `asyncio.to_thread` (a cancelled task ends at once, its thread may not), WebSocket
  framing, dry runs of the lab, and the wording of errors and reports.

## Plan

Done: stores and their contract, the runtime's commands, sessions and files, the API in
front of them and the contracts that join the two, the tools; a theorem for every safety
property of a passing run. What is left, in this order:

1. The relay of a streamed command through the API (`runtime.rs`), with the stream as a
   third contract between it and `CommandStream`.
2. The worker threads behind `asyncio.to_thread` as a bounded pool, for the hazard at
   `interactive.py` 69.
3. Several requests into sandboxes at a time in `SandboxApi`.
