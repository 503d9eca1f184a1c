# TLA+ models of cache-imagewarm

These are TLA+ models of the image pre-warming system in `src/`. They are checked with TLC.

## The system

Two programs cooperate through the Kubernetes API:

* **The controller** (`src/pkg/reconciler/`).
  * For every `Image` custom resource, it keeps one `ImageWarm` per eligible node. A node is eligible when it has no taint of any kind and is not marked unschedulable (`shouldPullImage`, `image.go:184-189`). It keeps none on other nodes.
  * It marks the `Image` Ready when every `ImageWarm` it lists is Ready (`PropagateImageCacheReadyStatus`).
  * It is a Knative reconciler. A workqueue serialises each key. Image events, ImageWarm Add/Update events of an owned warm, node Add/Update/Delete events and a 10 s resync enqueue the Image.
* **The warmer daemon** (`src/pkg/warmer/`) runs on every node.
  * Its reconciler (`warmer/reconciler/imagewarm.go`) reconciles the ImageWarms it is handed:
    * If the image is present in its own runtime, it marks the warm Ready.
    * Otherwise it hands the image to the serial puller and marks the warm Unknown.
    * Its finalizer cancels the pull.
  * Which ImageWarms it is handed is decided in `warmer/controller.go`. The ImageWarm informer handlers (filtered by the node label) call `impl.EnqueueControllerOf`. That enqueues the key of the Image that controls the ImageWarm, not the ImageWarm's key. The reconciler finds no ImageWarm under that key and returns. ImageWarm keys reach the queue only when the generated reconciler is promoted at daemon start: it then enqueues every ImageWarm in its lister, of every node. This is knative's `PromoteFunc` behaviour. The model assumes the daemon runs without leader election. With leader election, only one daemon in the cluster would be promoted.
  * The puller (`warmer/images/puller.go`) has three parts:
    * a map from image to request, under a mutex;
    * a buffered channel of 10 requests;
    * one worker goroutine, which re-checks existence, pulls through docker and sets `finishPull`.
  * Docker (`warmer/cri/docker/`) does the pulling:
    * `doPullImage` tries the anonymous pull or each credential.
    * `PullImage` decodes the JSON progress stream.
    * A progress reporter cancels a pull whose progress stalls past a deadline.

### Inventory

| Component | State | Operations | Interactions |
|---|---|---|---|
| Fan-out reconciler (`image.go`, `controller.go`, `cruds.go`) | Image spec and status, ImageWarms in the API, node list, ImageWarm lister, workqueue | ReconcileKind (reconcileImageWarm → apply/delete per node → Propagate), AddNode/UpdateNode, ImageWarm handlers, resync | writes ImageWarm spec, reads ImageWarm status written by warmers |
| Warm reconciler (`warmer/reconciler/imagewarm.go`) | ImageWarm status, finalizer | ReconcileKind, FinalizeKind | calls PullImage/StopPullImage/ImageExists |
| Serial puller (`puller.go`) | `imagesNeedPull`, `pullRequests` channel, `finishPull` flags | PullImage, StopPullImage, processImagePullRequests, ImageExists | called by reconcile goroutines; drives docker |
| Docker service and reporter (`docker.go`, `progress.go`) | stream, progress counters, ticker | PullImage, doPullImage, reporter start/stop | runtime (ImagePull), credentials |
| Credentials (`helper.go`, `utils/util.go`) | none | ConvertToRegistryAuths, ParseRegistry | feeds doPullImage |
| Reference matching (`puller.go` ImageExists, `cri/interface.go`, `helper.go`) | none | docker.io trim, ParseRepositoryTag, ContainsImage, ContainsImageHash | decides whether a warm is Ready or pulled |
| API types (`apis/caching/v1alpha1`) | conditions | IsReady, MarkReady* | shared by both sides |
| Generated client/informers | n/a | generated | the lister is modelled as a lagging cache |

### Hard behaviours

Several things make this system hard to get right:

* **Lagging caches.** The node list and the ImageWarm lister are informer caches, so the controller sees them late.
* **Partial failure of a pass.** A pass stops at the first failing node. Also, a create never succeeds as a whole. After a `Create`, `Get` returns an empty object for NotFound. The merge patch is then sent with an empty name, so every pass that creates an ImageWarm ends in an error and a requeue.
* **Check-then-act in the puller.** PullImage and StopPullImage each check the map and then act on it under separate lock acquisitions.
* **Bounded channel.** A full channel blocks the reconcile goroutine.
* **Worker failures.** The single worker can hang inside ImagePull, or panic on the nil stream that `doPullImage` returns when a secret has no credentials for the registry. A panic restarts the daemon and loses its in-memory state.
* **No ImageWarm delete handler.** A deleted ImageWarm is noticed only at the next resync.
* **Warmer event wiring.** The warmer reconciles ImageWarms only at daemon start, and then those of every node (see above).
* **Reference forms.** `spec.image` is compared as text with the forms docker lists.

`PROJECT.json` lists each hazard at its source line, with the properties that cover it.

## Modules

### `ImageCacheReconciler` — the fan-out and the warmers' reconcile of ImageWarms

**Constants.** The constants are the sets `Nodes`, `Caches`, `Images` and `Secrets`, plus `NodeStates`. Node states are Eligible, Tainted and Absent. The bounds are `MaxNodeChanges`, `MaxCacheEdits`, `MaxApiErrors`, `MaxRestarts` (warmer daemon starts after the first one, which happens before any ImageWarm exists) and `MaxCacheDeletes` (deletions of Images).

**Variables.**

| Variable | What it holds |
|---|---|
| `nodeState` | the cluster's nodes |
| `cache` | the Image spec, and whether the Image is still in the API |
| `cacheReady` | the Image's Ready condition |
| `warm[c, n]` | the ImageWarm in the API server: spec, Ready, and phase New (created, never reconciled), Live or Deleting (has a deletion timestamp and is waiting for its finalizer) |
| `lister[c, n]` | the controller's informer copy |
| `queue` | the workqueue |
| `pass[c]` | an in-progress ReconcileKind: the node snapshot still to visit, and the spec it read |
| `imagesOn`, `pulling` | images present on or being pulled to each node |
| `wq[n]` | the ImageWarm keys in node n's warmer workqueue; these may be any node's ImageWarms |

**Action to code correspondence.**

| Action | Code | Effect |
|---|---|---|
| `Reconcile(c)` | `ReconcileKind` and the start of `reconcileImageWarm` | takes the node snapshot |
| `applyImageWarm(c, n)` | `applyImageWarm` | has four disjuncts: API error; create followed by the failing patch; up to date; patch |
| `deleteImageWarm(c, n)` | `deleteImageWarm` | — |
| `PropagateImageCacheReadyStatus(c)` | `PropagateImageCacheReadyStatus` | reads the lister; ends the pass |
| `SyncImageWarm(c, n)` | the ImageWarm informer handler | copies the API object into the lister and enqueues the owner if it exists (there is no DeleteFunc) |
| `ChangeNode` | the node handlers | change the cluster; enqueue only when `AddNode`/`UpdateNode` would |
| `Resync` | the resync period | — |
| `EditCache` | the Image handler | — |
| `DeleteCache(c)` | the Image handler, on a deletion | the Image leaves the API and its key is enqueued |
| `ReconcileDeleted(c)` | the generated reconciler's not-found case and `ReconcileKind`'s deletion-timestamp return | drops the key; a pass already running goes on with its snapshot |
| `GarbageCollect(c, n)` | Kubernetes' garbage collector, through the owner reference `MakeImageWarm` sets | deletes an ImageWarm whose Image is gone; one with the warmer's finalizer only gets its deletion timestamp |
| `NewWarmDaemon(n)` | `NewWarmDaemon` and the reconciler's promotion | new empty puller; every ImageWarm in the API enqueued on n |
| `WarmerReconcile(n, c, m)` | the warmer's `ReconcileKind` on node n for the ImageWarm of node m | has a disjunct for a key whose ImageWarm is gone; asks n's runtime, not m's |
| `WarmerFinalize(n, c, m)` | `FinalizeKind` | stops the pull on n's puller |
| `PullDone`, `PullFailed` | the puller's worker | the outcome, abstracted; nothing re-reconciles the warm afterwards |

The ImageWarm events of the warmer enqueue an Image key. Its reconcile is a no-op, so it is not an action.

### `NodeWarmer` — one node's warm reconciler, puller, docker pull and progress reporter

This module composes the warmer daemon of one node: the generated ImageWarm reconciler driving `imagewarm.go`'s `ReconcileKind` and `FinalizeKind`, the serial puller, docker's `ImagePull`/`ListImages` and the progress reporter.

**Constants.** `Images`, `Warms` (the node's ImageWarms) with `WarmImage` (each one's `spec.image`), `Callers` (the reconcile goroutines, threadiness 2), `SecretKinds` (none / matching registry / no matching registry), `QueueCap` (the channel's capacity), `MaxOps` (the number of PullImage calls), `Deadline` (reporter ticks before a stall cancels) and `MaxProgress`.

**Variables.**

| Variable | What it holds |
|---|---|
| `warm[w]` | the ImageWarm's phase (Live, Deleting, Gone), its finalizer and its Ready condition |
| `keys` | the daemon's workqueue: every key the promotion enqueued and no goroutine has taken |
| `handling[t]` | the key goroutine t is reconciling and the outcome it will write |
| `awaited[w]` | the request a reconcile left `w` waiting on (history, for the property) |
| `reqs` | every `imagePullRequest` ever made; its `cancelled`, `finishPull` and `lost` fields |
| `imagesNeedPull` | the map, as an index into `reqs` |
| `pullRequests` | the channel |
| `caller[t]` | goroutine t's position inside PullImage (Get, Put, Send) or StopPullImage (StopCheck, StopRemove) |
| `worker` | the worker goroutine's position: Idle, Exists, Pull (inside ImagePull), Stream (decoding), or Crashed |
| `present` | the images on the node |

**Actions.** `TakeKey` is the workqueue handing a key to a goroutine. `ReconcileKind(t, w, s)` adds the finalizer and either finds the image with `ListImages` or enters `PullImage` with secret kind `s`. `FinalizeKind(t, w)` enters `StopPullImage`. `ReconcileDone(t)` is the generated reconciler's write after they return: the Ready condition, or the finalizer's removal. `DeleteWarm(w)` is a user or the Image controller deleting an ImageWarm; its event enqueues the owner Image key (`controller.go:65`), so no ImageWarm key is added. The daemon's keys are the ImageWarms that exist when it starts.

`Restart` models the kubelet restarting the crashed daemon. The map and the channel are rebuilt empty. Every unfinished request is marked `lost`.

**Refinement.** `ImplementsPullPipeline` checks that the module implements `PullPipeline` (`INSTANCE PullPipeline WITH ...`). The refinement mapping is:

* `requests` is `reqs` without the secret.
* `submitting` is the requests held by callers that are about to send.
* `inflight` is the request the worker holds (from `ImageExists` until its finish or crash), followed by the channel.

Channel receives, map accesses, stream progress and reporter ticks are abstract stutters.

### `PullPipeline` — what the puller promises

This is the abstract specification of spec §4.3 and §5:

* requests are submitted, enqueued, and finished one at a time by a single worker in queue order;
* a cancel only flags a request;
* an image enters the runtime only when a request for it finishes;
* a crash loses every unfinished request;
* under weak fairness, a cancelled request at the head of the line is finished. Nothing more is promised: a pull that is not cancelled waits on the registry, which may never answer, and the senders behind it wait on the channel.

### `ImageReference` — the existence check's string algorithms

`ImageExists` (the docker.io trim and the digest test), `ParseRepositoryTag`, `ContainsImage`/`ContainsImageHash` and `ImageTagExists`/`ImageHashExists` are operators. A string is a sequence of text fragments, such as `<<"localhost", ":", "5000", "/", "nginx", ":", "v1">>`. None of the separators the code searches for spans a fragment boundary, so each search over fragments is a search over the text.

The reference definition is docker's normalisation:

* a missing domain and index.docker.io become docker.io;
* `library/` is added to a one-component docker.io path;
* a missing tag becomes `latest`;
* `ImageList` reports RepoTags and RepoDigests in familiar form.

Inputs are every reference with up to two path components over six registries (one with a port, one, `mydocker.io`, whose name contains `docker.io`), two tags and no digest. Each is checked against every image docker may have pulled. The module has no behaviour: `Init` enumerates the pairs and `Next` leaves them unchanged.

## Runs

| Run | Cfg | Expect | What it shows |
|---|---|---|---|
| ImageCacheFanOut | `ImageCacheFanOut.cfg` | pass | `WarmsConverge`: every Image's ImageWarms eventually and permanently match the eligible nodes and the Image's current spec, and none remain once the Image is deleted. This holds with three nodes and two taint changes, a secret edit, an API error, lister lag, the create-then-failed-patch path, and a deletion of the Image that may fall in the middle of a pass (the pass then creates orphans, which the garbage collector removes). About 650 k distinct states, 1.5 min. |
| ImageCacheWarmerRestart | `ImageCacheWarmerRestart.cfg` | pass | `TypeOK` with two daemon starts. Every warmer step is reached: reconcile of a live ImageWarm, of one deleted since its key was enqueued, and of one being deleted; finalize; pull done and failed. About 2.9 M states, 1.5 min. |
| ImageCacheNeverWarmed | `ImageCacheNeverWarmed.cfg` | violation | `FanOutConverges`: an ImageWarm created after its warmer started is never reconciled, so it is never pulled or Ready. Finding. |
| ImageCacheCrossNodeReady | `ImageCacheCrossNodeReady.cfg` | violation | `WarmReadyMeansPulled`: a restarted daemon reconciles node n2's ImageWarm against n1's runtime. It pulls the image on n1 and marks n2's warm Ready. Finding. |
| ImageCacheNodeRemoved | `ImageCacheNodeRemoved.cfg` | violation | `WarmsConverge`: a pass visits only the nodes it lists, so a deleted node's ImageWarm is never deleted. Finding. |
| ImageCacheImageEdit | `ImageCacheImageEdit.cfg` | violation | `WarmsConverge`: an edit of `spec.image` alone is never propagated, because the up-to-date test compares secrets only (`image.go:139`). Finding. |
| PullerDrains | `PullerDrains.cfg` | pass | Checked with two ImageWarms of one image (live, being deleted, or gone at start), two callers, a channel of one, two PullImage calls, crash and restart; about 192 k states, 1 min. Properties: <ul><li>`StreamBounded`: once docker has opened the pull stream, the request is finished however long the stream stays silent (the progress reporter cancels it);</li><li>`FinalizerRemoved`: an ImageWarm being deleted whose key is queued, or whose `FinalizeKind` is running, eventually goes away, also when a crash falls between `FinalizeKind` and the finalizer's removal (the restarted daemon's promotion enqueues it again);</li><li>`ImplementsPullPipeline`, the refinement: its safety in full, and the finish of a cancelled request at the head.</li></ul> |
| PullerDuplicate | `PullerDuplicate.cfg` | violation | `AtMostOneLivePull`: the reconciles of two ImageWarms of one image both pass `getImagePullRequest` before either puts. Finding. |
| PullerPanic | `PullerPanic.cfg` | violation | `WorkerNeverPanics`: a secret lacking the registry gives a nil stream that the decoder dereferences. Finding. |
| PullerHang | `PullerHang.cfg` | violation | `EveryRequestSettles`: the worker enters `ImagePull` for an uncancelled request and the registry never answers. Nothing cancels the call, since its context has no deadline and the reporter starts only after it returns. Finding. |
| WarmerFinalizeCancels | `WarmerFinalizeCancels.cfg` | violation | `FinalizeSparesLivePulls`: at a start, one ImageWarm of an image queues a pull while another ImageWarm of the same image is finalized; `StopPullImage` cancels the first one's pull by image reference, and it stays Ready Unknown with nothing in flight. Finding. |
| ImageRefMiss | `ImageRefMiss.cfg` | violation | `ImageExistsExact`: ImageExists answers whether the node holds the image spec.image names. The trace: spec.image `library` (untagged) is not found when docker lists `library:latest`; `docker.io/library/nginx:latest` is missed the same way. The property is also false the other way: `mydocker.io/nginx:v1` is cut to `nginx:v1` and found when Docker Hub's `nginx:v1` is on the node. Finding (two). |

The findings, each in `PROJECT.json` with its source line, are:

* **The warmer's event handlers enqueue the owner Image's key** (`warmer/controller.go:65`). ImageWarms are reconciled only at daemon start, so new ones are never pulled. Deletions of warms that got the finalizer at a start block until the next start.
* **At a start, a daemon reconciles every node's ImageWarms against its own runtime** (`imagewarm.go:88`).
* **A deleted node's ImageWarm stays** (`image.go:72`).
* **Image-only edits are never propagated** (`image.go:139`).
* **The check-then-act in `PullImage` duplicates pulls** (`puller.go:103`).
* **A secret without credentials for the registry crashes the daemon** (`docker.go:190`).
* **Finalizing one ImageWarm cancels another's pull of the same image** (`imagewarm.go:72`). Because keys are handled only at start, `FinalizeKind` never reaches its own ImageWarm's pull: that key is reconciled once per daemon life and a restart empties the map.
* **An untagged or `docker.io/library/...` image is never found on the node** (`puller.go:168`).
* **A registry whose name contains `docker.io` is looked up as a Docker Hub image** (`puller.go:160`).
* **A registry that never answers ImagePull holds the worker forever** (`docker.go:130`), while spec §4.4 and the comment at `docker.go:57` say the progress deadline bounds such a pull.

Each property of a passing run has a mutant in `PROJECT.json`, a plausible bug that TLC catches:

* ignoring the secrets in the up-to-date test;
* a warmer that marks the warm False;
* a reporter that never cancels a stalled pull;
* a `FinalizeKind` that fails, and is requeued, when no pull is in flight for the image;
* the exists branch of the worker forgetting `finishPull`;

## Bounds

* **Fan-out.** Three nodes allow one eligible node and one tainted node while a third flips. Two node changes let a node taint and untaint, or two nodes change; a third change tripled the state space without reaching a new branch of the pass. One deletion of the Image, at any point of a pass, reaches the orphan create. Deletion is checked without warmer restarts (with them the run takes about 4 minutes), so the garbage collector only meets ImageWarms no warmer has reconciled. One edit changes the secret of a live fan-out. One API error hits any of create, patch or delete. Two Images only multiply independent keys: the workqueue serialises each key, and the keys share nothing but the node list. That run took more than 10 minutes, so it is not in the suite.
* **Warmer.** One restart suffices for the cross-node Ready: reconcile the own warm, pull, then the other node's warm. Two restarts let a warm get its finalizer, be deleted, and be finalized at the next start.
* **Node warmer.** Two ImageWarms naming one image are what `StopPullImage` by image reference and the same-image race need; with two different images no stop ever finds an entry, since each key is reconciled once per life. Each starts live, being deleted or gone, so a start can pair a reconcile with a finalize. Two callers run them concurrently. A channel of capacity one makes the second send block. Two PullImage calls across a crash allow a pull, a stop and a re-pull in the next life. `Deadline = 1` and `MaxProgress = 1` let the reporter fire on a silent stream and let a progress message reset it.
* **References.** Two path components reach `library/` insertion and multi-segment names. The port registry makes `ParseRepositoryTag`'s `/` test matter, and `mydocker.io` the substring test of the trim. Two tags tell `latest` from another.
* **Hung pull.** One ImageWarm, one goroutine and one request are enough: the worker holds the request in `ImagePull` and nothing else can release it.

## Fairness

Fairness is weak throughout. Each assumption rests on the code or the platform:

* The controller's workqueue workers keep running, and the informers keep delivering events, so reconcile steps, lister syncs and resync are weakly fair.
* A warmer's workqueue hands out every key it holds.
* Kubernetes' garbage collector keeps deleting dependents of deleted owners.
* A crashed daemon is restarted by the kubelet.
* The reporter's ticker keeps firing.
* `doPullImage` returns when it needs no answer from the registry (`ImagePullReturns`): for a secret without credentials for the registry it makes no docker call, and `ImagePull` returns at once on a cancelled context.
* **Not assumed:**
  * that a warmer reconciles an ImageWarm after its key was handed out;
  * that a daemon ever starts again;
  * that the runtime sends progress;
  * that docker answers any other ImagePull. Docker answers only once it has reached the registry, the call's context has no deadline, and the reporter starts only after it returns (hazard `docker.go:130`, run PullerHang).
* The node warmer's reconcile of a taken key is weakly fair, and so is the write after it: the generated reconciler runs them on a worker goroutine that keeps running.

Actions that are the environment's choice are not fair: node changes, edits, daemon starts and failures.

## Not modelled (yet)

* **Type invariants of the node warmer.** `TypeOK` of `NodeWarmer` and `PullPipeline` are written out but not checked by a run: the run budget goes to properties a plausible bug can break, and the channel bound they contain is enforced by Go's buffered channel itself.
* **`FilterWithLabel`.** It filters events whose reconcile is a no-op anyway.
* **The generated reconciler's retries.** A reconcile error requeues the key with backoff; `ReconcileKind` and `FinalizeKind` return nil on every path modelled, so no requeue happens.
* **The warmer's lister lag.** The warmer's lister is its API copy at start.
* **The secret lister's sync.** A secret not yet synced at a start makes the pull anonymous. The secret kind None stands for it and for a missing secret alike.
* **Credential resolution.** Only its three outcomes are modelled. The keyring's matching rules are the Kubernetes credential provider's, outside this repository; see the hazard at `docker.go:171`.
* **`ParseRegistry`.** It feeds only the keyring.
* **`RemoveImage`.** It is never called.
* **Generated code.** The generated clientset, fakes and informers are not modelled.

## Plan for further work

1. **Refine `ImageCacheReconciler`'s abstract warmer** (`pulling`, `PullDone`, `PullFailed`) by `NodeWarmer`.
2. **Image deletion together with warmer restarts**, which needs a smaller fan-out instance to fit a run.
