------------------------- MODULE ImageCacheReconciler -------------------------
(***************************************************************************)
(* The fan-out controller of pkg/reconciler: one Image (the cache request)  *)
(* is expanded into one ImageWarm named <image>-on-<node> per eligible     *)
(* node, stale ImageWarms of ineligible nodes are deleted, and the Ready   *)
(* condition of the Image is aggregated from its ImageWarms as the         *)
(* controller's informer cache (the lister) shows them.                    *)
(*                                                                         *)
(* The node side (the warmer daemon of pkg/warmer) is kept abstract where *)
(* NodeWarmer details it: a warmer reconcile adds the finalizer,           *)
(* marks an ImageWarm Ready when the image is in its node's runtime and    *)
(* otherwise starts a pull; its finalizer stops the pull. What is kept     *)
(* exactly is which ImageWarm keys reach a warmer's workqueue, and when.   *)
(***************************************************************************)
EXTENDS Naturals, FiniteSets

CONSTANTS
  Nodes,          \* node names
  Caches,         \* Image (cache request) names, all in one namespace
  Images,         \* image references
  Secrets,        \* values of an Image's imagePullSecrets list
  NodeStates,     \* the states a node may move to, a subset of NodeState
  NoWarm,         \* model value: no ImageWarm object under that name
  MaxNodeChanges, \* bound on node add/update/delete events
  MaxCacheEdits,  \* bound on edits of Image specs
  MaxApiErrors,   \* bound on failed API calls and failed pulls
  MaxRestarts,    \* bound on warmer daemon starts after the first
  MaxCacheDeletes \* bound on deletions of Images

NodeState == {"Eligible", "Tainted", "Absent"}

ASSUME /\ NodeStates \subseteq NodeState
       /\ {MaxNodeChanges, MaxCacheEdits, MaxApiErrors, MaxRestarts,
           MaxCacheDeletes} \subseteq Nat

VARIABLES
  nodeState,  \* [Nodes -> NodeState]: the Node objects of the node informer
  cache,      \* [Caches -> [image, secret, live]]: the spec of each Image,
              \* and whether it is still in the API
  cacheReady, \* [Caches -> {"Unknown","True","False"}]: Image Ready condition
  warm,       \* [Caches \X Nodes -> Warm \cup {NoWarm}]: ImageWarms in the API
  lister,     \* the same, as the controller's ImageWarm informer cache has it
  queue,      \* the keys of Images waiting in the workqueue
  pass,       \* [Caches -> Pass]: the ReconcileKind running for each key
  imagesOn,   \* [Nodes -> SUBSET Images]: images in each node's runtime
  pulling,    \* [Nodes -> SUBSET Images]: pulls queued or running per node
  wq,         \* [Nodes -> SUBSET (Caches \X Nodes)]: ImageWarm keys in each
              \* node's warmer workqueue
  budget      \* counters of environment events, bounded by the Max constants

vars == <<nodeState, cache, cacheReady, warm, lister, queue, pass,
          imagesOn, pulling, wq, budget>>

(* phase "New": created, the warmer has not added its finalizer yet;      *)
(* "Live": finalizer present; "Deleting": deletionTimestamp set.           *)
Warm == [image : Images, secret : Secrets,
         ready : {"None", "Unknown", "True"},
         phase : {"New", "Live", "Deleting"}]

Pass == [pc : {"Idle", "Nodes"}, todo : SUBSET Nodes, elig : SUBSET Nodes,
         image : Images, secret : Secrets]

\* Image references and secrets are model values: any one of each serves as
\* the initial spec of every Image and as the filler of an idle pass.
IdlePass == [pc |-> "Idle", todo |-> {}, elig |-> {},
             image |-> CHOOSE i \in Images : TRUE,
             secret |-> CHOOSE s \in Secrets : TRUE]

TypeOK ==
  /\ nodeState \in [Nodes -> NodeState]
  /\ cache \in [Caches -> [image : Images, secret : Secrets, live : BOOLEAN]]
  /\ cacheReady \in [Caches -> {"Unknown", "True", "False"}]
  /\ warm \in [Caches \X Nodes -> Warm \cup {NoWarm}]
  /\ lister \in [Caches \X Nodes -> Warm \cup {NoWarm}]
  /\ queue \subseteq Caches
  /\ pass \in [Caches -> Pass]
  /\ imagesOn \in [Nodes -> SUBSET Images]
  /\ pulling \in [Nodes -> SUBSET Images]
  /\ wq \in [Nodes -> SUBSET (Caches \X Nodes)]
  /\ budget \in [node : Nat, edit : Nat, err : Nat, restart : Nat, del : Nat]

-----------------------------------------------------------------------------
(* Helpers translated from the controller.                                 *)

\* shouldPullImage: no taints and not unschedulable ("Tainted" stands for both)
shouldPullImage(s) == s = "Eligible"

\* MakeImageWarm: the desired ImageWarm for one node, as a pass snapshot has it
MakeImageWarm(p) ==
  [image |-> p.image, secret |-> p.secret, ready |-> "None", phase |-> "New"]

\* Variant: a comparison that also skips the pull secrets.
UpToDateIgnoringSecrets(w, p) == TRUE

\* The no-diff short-circuit of applyImageWarm: labels, annotations, pull
\* secrets and node name are compared; labels, annotations and node name
\* always agree in this model, and the image is not compared.
UpToDate(w, p) == w.secret = p.secret

\* ImageWarmStatus.IsReady: the Ready condition is True (the controller's
\* test; it ignores observedGeneration)
IsReady(w) == w.ready = "True"

\* ImageWarmStatus.MarkReadyTrue and MarkReadyUnknown
MarkReadyTrue(w) == [w EXCEPT !.ready = "True"]
MarkReadyUnknown(w) == [w EXCEPT !.ready = "Unknown"]

\* AddNode (used for add and delete events) and UpdateNode: enqueue every
\* Image when an eligible node appears or disappears, or eligibility flips.
NodeEventEnqueues(old, new) ==
  \/ old = "Absent" /\ shouldPullImage(new)
  \/ new = "Absent" /\ shouldPullImage(old)
  \/ /\ old # "Absent" /\ new # "Absent"
     /\ shouldPullImage(old) # shouldPullImage(new)

\* The Images the Image lister lists.
LiveCaches == {c \in Caches : cache[c].live}

CanFail == budget.err < MaxApiErrors
SpendError == budget' = [budget EXCEPT !.err = @ + 1]

\* ReconcileKind returns an error: Ready False, the key is requeued with
\* rate limiting, the pass ends.
FailPass(c) ==
  /\ cacheReady' = [cacheReady EXCEPT ![c] = "False"]
  /\ queue' = queue \cup {c}
  /\ pass' = [pass EXCEPT ![c] = IdlePass]

NextNode(c, n) == pass' = [pass EXCEPT ![c].todo = @ \ {n}]

-----------------------------------------------------------------------------
Init ==
  /\ nodeState \in [Nodes -> NodeStates \ {"Absent"}]
  /\ cache = [c \in Caches |-> [image |-> IdlePass.image,
                                secret |-> IdlePass.secret, live |-> TRUE]]
  /\ cacheReady = [c \in Caches |-> "Unknown"]
  /\ warm = [k \in Caches \X Nodes |-> NoWarm]
  /\ lister = warm
  /\ queue = Caches
  /\ pass = [c \in Caches |-> IdlePass]
  /\ imagesOn = [n \in Nodes |-> {}]
  /\ pulling = [n \in Nodes |-> {}]
  /\ wq = [n \in Nodes |-> {}]
  /\ budget = [node |-> 0, edit |-> 0, err |-> 0, restart |-> 0, del |-> 0]

\* A worker takes the key of Image c: ReconcileKind, then reconcileImageWarm
\* lists the nodes and evaluates shouldPullImage on that snapshot.
Reconcile(c) ==
  /\ c \in queue
  /\ pass[c].pc = "Idle"
  /\ cache[c].live
  /\ queue' = queue \ {c}
  /\ pass' = [pass EXCEPT ![c] =
       [pc |-> "Nodes",
        todo |-> {n \in Nodes : nodeState[n] # "Absent"},
        elig |-> {n \in Nodes : shouldPullImage(nodeState[n])},
        image |-> cache[c].image, secret |-> cache[c].secret]]
  /\ UNCHANGED <<nodeState, cache, cacheReady, warm, lister, imagesOn,
                 pulling, wq, budget>>

\* The key of a deleted Image: the object is gone, or carries a deletion
\* timestamp and ReconcileKind returns at once. A pass that began before
\* the deletion runs on with its snapshot.
ReconcileDeleted(c) ==
  /\ c \in queue
  /\ pass[c].pc = "Idle"
  /\ ~cache[c].live
  /\ queue' = queue \ {c}
  /\ UNCHANGED <<nodeState, cache, cacheReady, warm, lister, pass, imagesOn,
                 pulling, wq, budget>>

\* applyImageWarm for an eligible node of the snapshot.
applyImageWarm(c, n) ==
  LET p == pass[c]
      w == warm[c, n]
  IN /\ p.pc = "Nodes"
     /\ n \in p.todo \cap p.elig
     /\ \/ \* Get, Create or Patch fails
           /\ CanFail
           /\ FailPass(c)
           /\ SpendError
           /\ UNCHANGED warm
        \/ \* NotFound: Create, then a merge patch is computed against the
           \* empty object Get returned; patching the empty name fails
           /\ w = NoWarm
           /\ warm' = [warm EXCEPT ![c, n] = MakeImageWarm(p)]
           /\ FailPass(c)
           /\ UNCHANGED budget
        \/ /\ w # NoWarm
           /\ UpToDate(w, p)
           /\ NextNode(c, n)
           /\ UNCHANGED <<warm, queue, cacheReady, budget>>
        \/ \* the merge patch carries labels, annotations and the whole spec
           /\ w # NoWarm
           /\ ~UpToDate(w, p)
           /\ warm' = [warm EXCEPT ![c, n] =
                         [w EXCEPT !.image = p.image, !.secret = p.secret]]
           /\ NextNode(c, n)
           /\ UNCHANGED <<queue, cacheReady, budget>>
  /\ UNCHANGED <<nodeState, cache, lister, imagesOn, pulling, wq>>

\* deleteImageWarm for a present node the snapshot finds ineligible.
\* Deleting an object that carries the warmer's finalizer only sets its
\* deletionTimestamp.
deleteImageWarm(c, n) ==
  LET p == pass[c]
      w == warm[c, n]
  IN /\ p.pc = "Nodes"
     /\ n \in p.todo \ p.elig
     /\ \/ /\ CanFail
           /\ FailPass(c)
           /\ SpendError
           /\ UNCHANGED warm
        \/ /\ w = NoWarm
           /\ NextNode(c, n)
           /\ UNCHANGED <<warm, queue, cacheReady, budget>>
        \/ /\ w # NoWarm
           /\ warm' = [warm EXCEPT ![c, n] =
                         IF w.phase = "New" THEN NoWarm
                         ELSE [w EXCEPT !.phase = "Deleting"]]
           /\ NextNode(c, n)
           /\ UNCHANGED <<queue, cacheReady, budget>>
  /\ UNCHANGED <<nodeState, cache, lister, imagesOn, pulling, wq>>

\* PropagateImageCacheReadyStatus: from the lister, False if an owned
\* ImageWarm is not ready, else True (also when it lists none).
PropagateImageCacheReadyStatus(c) ==
  /\ pass[c].pc = "Nodes"
  /\ pass[c].todo = {}
  /\ cacheReady' = [cacheReady EXCEPT ![c] =
       IF \E n \in Nodes : lister[c, n] # NoWarm /\ ~IsReady(lister[c, n])
       THEN "False" ELSE "True"]
  /\ pass' = [pass EXCEPT ![c] = IdlePass]
  /\ UNCHANGED <<nodeState, cache, warm, lister, queue, imagesOn, pulling, wq,
                 budget>>

-----------------------------------------------------------------------------
(* Informers and the cluster.                                              *)

\* The ImageWarm informer catches up with one object; add and update
\* events of an ImageWarm controlled by an Image enqueue that Image; there
\* is no delete handler.
SyncImageWarm(c, n) ==
  /\ lister[c, n] # warm[c, n]
  /\ lister' = [lister EXCEPT ![c, n] = warm[c, n]]
  /\ queue' = IF warm[c, n] # NoWarm THEN queue \cup {c} ELSE queue
  /\ UNCHANGED <<nodeState, cache, cacheReady, warm, pass, imagesOn, pulling, wq,
                 budget>>

\* The resync period of the Image informer re-enqueues every Image it lists.
Resync ==
  /\ queue' = queue \cup LiveCaches
  /\ UNCHANGED <<nodeState, cache, cacheReady, warm, lister, pass, imagesOn,
                 pulling, wq, budget>>

\* A node joins, leaves or changes taints; the node informer runs AddNode,
\* UpdateNode or the delete handler. A node that leaves takes its runtime
\* and its warmer daemon with it.
ChangeNode(n, s) ==
  /\ budget.node < MaxNodeChanges
  /\ s \in NodeStates \ {nodeState[n]}
  /\ nodeState' = [nodeState EXCEPT ![n] = s]
  /\ queue' = IF NodeEventEnqueues(nodeState[n], s) THEN queue \cup LiveCaches
               ELSE queue
  /\ imagesOn' = IF s = "Absent" THEN [imagesOn EXCEPT ![n] = {}] ELSE imagesOn
  /\ pulling' = IF s = "Absent" THEN [pulling EXCEPT ![n] = {}] ELSE pulling
  /\ wq' = IF s = "Absent" THEN [wq EXCEPT ![n] = {}] ELSE wq
  /\ budget' = [budget EXCEPT !.node = @ + 1]
  /\ UNCHANGED <<cache, cacheReady, warm, lister, pass>>

\* An operator edits the spec of an Image; the informer enqueues it.
EditCache(c, i, s) ==
  /\ budget.edit < MaxCacheEdits
  /\ cache[c].live
  /\ [image |-> i, secret |-> s, live |-> TRUE] # cache[c]
  /\ cache' = [cache EXCEPT ![c] = [image |-> i, secret |-> s, live |-> TRUE]]
  /\ queue' = queue \cup {c}
  /\ budget' = [budget EXCEPT !.edit = @ + 1]
  /\ UNCHANGED <<nodeState, cacheReady, warm, lister, pass, imagesOn, pulling, wq>>

\* The Image is deleted; the informer enqueues its key. Its ImageWarms are
\* left to the garbage collector, through their owner reference.
DeleteCache(c) ==
  /\ budget.del < MaxCacheDeletes
  /\ cache[c].live
  /\ cache' = [cache EXCEPT ![c].live = FALSE]
  /\ queue' = queue \cup {c}
  /\ budget' = [budget EXCEPT !.del = @ + 1]
  /\ UNCHANGED <<nodeState, cacheReady, warm, lister, pass, imagesOn, pulling, wq>>

\* The garbage collector deletes an ImageWarm whose owner is gone; one with
\* the warmer's finalizer only gets its deletionTimestamp.
GarbageCollect(c, n) ==
  LET w == warm[c, n] IN
  /\ ~cache[c].live
  /\ w # NoWarm
  /\ w.phase # "Deleting"
  /\ warm' = [warm EXCEPT ![c, n] =
                IF w.phase = "New" THEN NoWarm ELSE [w EXCEPT !.phase = "Deleting"]]
  /\ UNCHANGED <<nodeState, cache, cacheReady, lister, queue, pass, imagesOn,
                 pulling, wq, budget>>

-----------------------------------------------------------------------------
(* The warmer daemon of each present node.                                 *)
(*                                                                         *)
(* Its ImageWarm informer handlers enqueue impl.EnqueueControllerOf: the   *)
(* key of the Image that controls the ImageWarm (the owner reference of    *)
(* MakeImageWarm), not the ImageWarm's key. The ImageWarm reconciler finds *)
(* no ImageWarm under that key and returns, so those events, and the 5 s   *)
(* resync that replays them, change nothing and are not actions here. An   *)
(* ImageWarm key reaches a warmer's workqueue only when its reconciler is  *)
(* promoted as the daemon starts: then every ImageWarm in its lister, of   *)
(* every node, is enqueued.                                                *)

\* NewWarmDaemon and the start of its controller, when the kubelet starts
\* or restarts the warmer pod: an empty serial puller, and once the
\* ImageWarm informer has synced, every ImageWarm in the API enqueued.
NewWarmDaemon(n) ==
  /\ budget.restart < MaxRestarts
  /\ nodeState[n] # "Absent"
  /\ wq' = [wq EXCEPT ![n] = {k \in Caches \X Nodes : warm[k] # NoWarm}]
  /\ pulling' = [pulling EXCEPT ![n] = {}]
  /\ budget' = [budget EXCEPT !.restart = @ + 1]
  /\ UNCHANGED <<nodeState, cache, cacheReady, warm, lister, queue, pass,
                 imagesOn>>

\* Variant: a warmer that marks Ready False while the pull runs.
WarmerReconcileMarksFalse(n, c, m) ==
  LET w == warm[c, m] IN
  /\ nodeState[n] # "Absent"
  /\ <<c, m>> \in wq[n]
  /\ wq' = [wq EXCEPT ![n] = @ \ {<<c, m>>}]
  /\ w # NoWarm
  /\ w.phase # "Deleting"
  /\ warm' = [warm EXCEPT ![c, m] =
       [w EXCEPT !.phase = "Live",
                 !.ready = IF w.image \in imagesOn[n] THEN "True" ELSE "False"]]
  /\ pulling' = IF w.image \in imagesOn[n] THEN pulling
                ELSE [pulling EXCEPT ![n] = @ \cup {w.image}]
  /\ UNCHANGED <<nodeState, cache, cacheReady, lister, queue, pass, imagesOn,
                 budget>>

\* The warmer of node n takes the key of ImageWarm <<c, m>>, which may be
\* another node's: the reconciler never compares spec.nodeName with its
\* own node. An ImageWarm deleted since is not found and the key is
\* dropped. Otherwise the generated reconciler adds the finalizer, and
\* ReconcileKind asks n's runtime: Ready True if the image is there, else
\* the pull is submitted to n's puller and Ready becomes Unknown.
WarmerReconcile(n, c, m) ==
  LET w == warm[c, m] IN
  /\ nodeState[n] # "Absent"
  /\ <<c, m>> \in wq[n]
  /\ wq' = [wq EXCEPT ![n] = @ \ {<<c, m>>}]
  /\ \/ /\ w = NoWarm
        /\ UNCHANGED <<warm, pulling>>
     \/ /\ w # NoWarm
        /\ w.phase # "Deleting"
        /\ IF w.image \in imagesOn[n]
           THEN /\ warm' = [warm EXCEPT ![c, m] =
                                 MarkReadyTrue([w EXCEPT !.phase = "Live"])]
                /\ UNCHANGED pulling
           ELSE /\ warm' = [warm EXCEPT ![c, m] =
                                 MarkReadyUnknown([w EXCEPT !.phase = "Live"])]
                /\ pulling' = [pulling EXCEPT ![n] = @ \cup {w.image}]
  /\ UNCHANGED <<nodeState, cache, cacheReady, lister, queue, pass, imagesOn,
                 budget>>

\* The key of an ImageWarm with a deletionTimestamp: FinalizeKind stops the
\* pull of its image on n's puller, then the generated reconciler removes
\* the finalizer and the object goes away.
WarmerFinalize(n, c, m) ==
  LET w == warm[c, m] IN
  /\ nodeState[n] # "Absent"
  /\ <<c, m>> \in wq[n]
  /\ w # NoWarm
  /\ w.phase = "Deleting"
  /\ wq' = [wq EXCEPT ![n] = @ \ {<<c, m>>}]
  /\ warm' = [warm EXCEPT ![c, m] = NoWarm]
  /\ pulling' = [pulling EXCEPT ![n] = @ \ {w.image}]
  /\ UNCHANGED <<nodeState, cache, cacheReady, lister, queue, pass, imagesOn,
                 budget>>

\* The node's puller finishes a pull: the image is in the runtime, or the
\* pull failed and is dropped. Nothing reconciles the ImageWarm afterwards.
PullDone(n, i) ==
  /\ i \in pulling[n]
  /\ pulling' = [pulling EXCEPT ![n] = @ \ {i}]
  /\ imagesOn' = [imagesOn EXCEPT ![n] = @ \cup {i}]
  /\ UNCHANGED <<nodeState, cache, cacheReady, warm, lister, queue, pass, wq,
                 budget>>

PullFailed(n, i) ==
  /\ i \in pulling[n]
  /\ CanFail
  /\ pulling' = [pulling EXCEPT ![n] = @ \ {i}]
  /\ SpendError
  /\ UNCHANGED <<nodeState, cache, cacheReady, warm, lister, queue, pass, wq,
                 imagesOn>>

-----------------------------------------------------------------------------
Controller ==
  \E c \in Caches :
    \/ Reconcile(c)
    \/ ReconcileDeleted(c)
    \/ PropagateImageCacheReadyStatus(c)
    \/ \E n \in Nodes : applyImageWarm(c, n) \/ deleteImageWarm(c, n)

Environment ==
  \/ Resync
  \/ \E c \in Caches, n \in Nodes : SyncImageWarm(c, n)
  \/ \E n \in Nodes, s \in NodeState : ChangeNode(n, s)
  \/ \E c \in Caches, i \in Images, s \in Secrets : EditCache(c, i, s)
  \/ \E c \in Caches : DeleteCache(c)
  \/ \E c \in Caches, n \in Nodes : GarbageCollect(c, n)

Warmer ==
  \/ \E n \in Nodes : NewWarmDaemon(n)
  \/ \E n, m \in Nodes, c \in Caches :
       WarmerReconcile(n, c, m) \/ WarmerFinalize(n, c, m)
  \/ \E n \in Nodes, i \in Images : PullDone(n, i) \/ PullFailed(n, i)

Next == Controller \/ Environment \/ Warmer

(* Workers, informers and the resync timer keep running; a warmer's       *)
(* workqueue hands out every key it holds; the garbage collector keeps    *)
(* collecting dependents of deleted owners; a submitted pull finishes      *)
(* (NodeWarmer checks that the worker finishes every request).             *)
(* Daemon starts are the kubelet's and the operator's choice: not fair.    *)
Fairness ==
  /\ \A c \in Caches :
       /\ WF_vars(Reconcile(c))
       /\ WF_vars(ReconcileDeleted(c))
       /\ WF_vars(PropagateImageCacheReadyStatus(c))
       /\ \A n \in Nodes : /\ WF_vars(applyImageWarm(c, n))
                           /\ WF_vars(deleteImageWarm(c, n))
                           /\ WF_vars(SyncImageWarm(c, n))
                           /\ WF_vars(GarbageCollect(c, n))
                           /\ \A m \in Nodes :
                                /\ WF_vars(WarmerReconcile(m, c, n))
                                /\ WF_vars(WarmerFinalize(m, c, n))
  /\ WF_vars(Resync)
  /\ \A n \in Nodes, i \in Images : WF_vars(PullDone(n, i))

Spec == Init /\ [][Next]_vars /\ Fairness

-----------------------------------------------------------------------------
(* Properties.                                                             *)

\* The ImageWarms of Image c match the cluster: one with c's current spec,
\* not being deleted, on every eligible node, and none on any other node;
\* none at all once c is deleted.
WarmsMatch(c) ==
  \A n \in Nodes :
    IF cache[c].live /\ shouldPullImage(nodeState[n])
    THEN /\ warm[c, n] # NoWarm
         /\ warm[c, n].phase # "Deleting"
         /\ warm[c, n].image = cache[c].image
         /\ warm[c, n].secret = cache[c].secret
    ELSE warm[c, n] = NoWarm

\* ... and every one of them is Ready, and so is the Image.
Converged(c) ==
  /\ WarmsMatch(c)
  /\ cache[c].live =>
       /\ cacheReady[c] = "True"
       /\ \A n \in Nodes : shouldPullImage(nodeState[n]) => IsReady(warm[c, n])

\* Once nodes and Image specs stop changing, the ImageWarms of every Image
\* converge to the cluster and stay so: reconcileImageWarm's create, patch
\* and delete, the node event handlers, the ImageWarm informer handlers and
\* the resync period together, across failed calls and a stale lister.
WarmsConverge == \A c \in Caches : <>[]WarmsMatch(c)

\* Once nodes and Image specs stop changing, every Image's fan-out and
\* Ready condition converge and stay converged: the controller's side as
\* above, and the warmers pull each image and mark each ImageWarm Ready.
FanOutConverges == \A c \in Caches : <>[]Converged(c)

\* An ImageWarm is Ready only if its image is in the runtime of its own
\* node: the Ready condition written by a warmer's ReconcileKind is
\* evidence about the node spec.nodeName names.
WarmReadyMeansPulled ==
  \A c \in Caches, n \in Nodes :
    warm[c, n] # NoWarm /\ IsReady(warm[c, n]) => warm[c, n].image \in imagesOn[n]

================================================================================
