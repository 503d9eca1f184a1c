------------------------------ MODULE NodeWarmer ------------------------------
(***************************************************************************)
(* The warmer daemon of one node: the ImageWarm reconciler                 *)
(* (pkg/warmer/reconciler/imagewarm.go) run by the workqueue's goroutines, *)
(* the image puller it calls (pkg/warmer/images/puller.go), the docker     *)
(* image service that runs the pulls (pkg/warmer/cri/docker) and the       *)
(* progress reporter that cancels a stalled pull.                          *)
(*                                                                         *)
(* The informer handlers enqueue the owning Image's key                    *)
(* (warmer/controller.go:65), under which no ImageWarm exists, so an       *)
(* ImageWarm's own key reaches the workqueue only when the daemon starts   *)
(* and the reconciler is promoted: then every ImageWarm of the lister is   *)
(* enqueued. A worker takes a key and runs ReconcileKind (which may call   *)
(* PullImage) or FinalizeKind (which calls StopPullImage) one step at a    *)
(* time, so the lock-protected map accesses interleave with each other and *)
(* with the single pull worker.                                            *)
(***************************************************************************)
EXTENDS Naturals, Sequences, FiniteSets

CONSTANTS
  Images,       \* image references
  Warms,        \* the ImageWarms of this node's lister
  WarmImage,    \* [Warms -> Images]: their spec.image
  NoKey,        \* a worker that holds no key
  Callers,      \* workqueue goroutines of the warmer's controller
  SecretKinds,  \* the pull secrets a ReconcileKind may hand over, see Secret
  QueueCap,     \* capacity of the pullRequests channel (maxImagePullRequests)
  MaxOps,       \* bound on ReconcileKind and FinalizeKind calls
  Deadline,     \* imagePullProgressDeadline in ticks of the reporter
  MaxProgress   \* bound on progress messages of one pull stream

(* "None": no secret was found, anonymous pull; "Match": the secret has    *)
(* credentials for the image's registry; "NoMatch": it has none.           *)
Secret == {"None", "Match", "NoMatch"}

ASSUME /\ SecretKinds \subseteq Secret
       /\ WarmImage \in [Warms -> Images]
       /\ NoKey \notin Warms
       /\ QueueCap \in Nat \ {0}
       /\ {MaxOps, Deadline, MaxProgress} \subseteq Nat

VARIABLES
  present,        \* images in the runtime (docker image list)
  reqs,           \* every imagePullRequest made, indexed by creation order
  imagesNeedPull, \* [Images -> 0..Len(reqs)]: the map; 0 means no entry
  pullRequests,   \* the channel: a sequence of request indexes
  caller,         \* [Callers -> CallerState]
  worker,         \* the goroutine of processImagePullRequests
  ops,            \* number of PullImage calls so far
  warm,           \* [Warms -> WarmState]: the ImageWarm objects
  keys,           \* ImageWarm keys in the workqueue
  handling,       \* [Callers -> the key a worker reconciles and its outcome]
  awaited         \* [Warms -> request id]: history, the pull a reconcile
                  \* left its ImageWarm waiting on (0: none)

pullerVars == <<present, reqs, imagesNeedPull, pullRequests, caller, worker, ops>>
warmerVars == <<warm, keys, handling, awaited>>
vars == <<pullerVars, warmerVars>>

NoEntry == 0

(* lost: the daemon crashed before the request finished.                   *)
Req == [image : Images, secret : Secret, finishPull : BOOLEAN,
        cancelled : BOOLEAN, lost : BOOLEAN]

CallerState ==
  [pc : {"Idle", "Get", "Put", "Send", "StopCheck", "StopRemove"},
   image : Images, secret : Secret, id : Nat]

(* "Exists": ImageExists before the pull; "Pull": doPullImage waits for   *)
(* the runtime to open the pull stream; "Stream": the progress reporter    *)
(* runs and the stream is decoded; "Crashed": the goroutine panicked.      *)
WorkerState ==
  [pc : {"Idle", "Exists", "Pull", "Stream", "Crashed"}, id : Nat,
   age : 0..Deadline, msgs : 0..MaxProgress]

(* "Live": no deletionTimestamp; "Deleting": deletionTimestamp set, held   *)
(* by the warmer's finalizer; "Gone": removed from the API server.        *)
WarmState ==
  [phase : {"Live", "Deleting", "Gone"}, finalizer : BOOLEAN,
   ready : {"Unknown", "True"}]

(* What the reconcile of a key will write when it returns: the Ready      *)
(* condition ReconcileKind marked, or "Finalize" to drop the finalizer.   *)
Handling == [key : Warms \cup {NoKey}, outcome : {"None", "True", "Unknown", "Finalize"}]

NotHandling == [key |-> NoKey, outcome |-> "None"]

AnyImage == CHOOSE i \in Images : TRUE

IdleCaller == [pc |-> "Idle", image |-> AnyImage, secret |-> "None", id |-> 0]
IdleWorker == [pc |-> "Idle", id |-> 0, age |-> 0, msgs |-> 0]

TypeOK ==
  /\ present \subseteq Images
  /\ reqs \in Seq(Req)
  /\ imagesNeedPull \in [Images -> 0..Len(reqs)]
  /\ pullRequests \in Seq(1..Len(reqs))
  /\ Len(pullRequests) <= QueueCap
  /\ caller \in [Callers -> CallerState]
  /\ worker \in WorkerState
  /\ ops \in 0..MaxOps
  /\ warm \in [Warms -> WarmState]
  /\ keys \subseteq Warms
  /\ handling \in [Callers -> Handling]
  /\ awaited \in [Warms -> 0..Len(reqs)]

-----------------------------------------------------------------------------
(* The daemon starts: the runtime holds any images; an ImageWarm it sees  *)
(* was reconciled by an earlier daemon (finalizer, maybe Ready) or not,    *)
(* and may be being deleted if it carries the finalizer. Promotion         *)
(* enqueues every key of the lister.                                       *)
StartState(w) ==
  /\ w.phase # "Gone"
  /\ w.phase = "Deleting" => w.finalizer
  /\ w.ready = "True" => w.finalizer

Init ==
  /\ present \in SUBSET Images
  /\ warm \in {f \in [Warms -> WarmState] :
                \A w \in Warms :
                  /\ StartState(f[w])
                  /\ f[w].ready = "True" => WarmImage[w] \in present}
  /\ keys = Warms
  /\ handling = [t \in Callers |-> NotHandling]
  /\ awaited = [w \in Warms |-> 0]
  /\ reqs = <<>>
  /\ imagesNeedPull = [i \in Images |-> NoEntry]
  /\ pullRequests = <<>>
  /\ caller = [t \in Callers |-> IdleCaller]
  /\ worker = IdleWorker
  /\ ops = 0

\* ListImages with a context: ImageList fails on a cancelled context, and
\* for any error of the docker daemon; then the image reads as absent.
ListImagesFinds(i, cancelled) == ~cancelled /\ i \in present

SetCaller(t, pc) == caller' = [caller EXCEPT ![t].pc = pc]

(* ---- PullImage, called by the warmer's ReconcileKind ---- *)

\* getImagePullRequest under the read lock; an unfinished request for the
\* image makes PullImage return (the caller now relies on that request).
getImagePullRequest(t) ==
  LET e == imagesNeedPull[caller[t].image]
      coalesced == e # NoEntry /\ ~reqs[e].finishPull
  IN
  /\ caller[t].pc = "Get"
  /\ caller' = [caller EXCEPT ![t].pc = IF coalesced THEN "Idle" ELSE "Put",
                              ![t].id = IF coalesced THEN e ELSE 0]
  /\ UNCHANGED <<present, reqs, imagesNeedPull, pullRequests, worker, ops>>

\* putImagePullRequest under the write lock: a new cancellable request
\* replaces whatever entry the image has now.
putImagePullRequest(t) ==
  LET id == Len(reqs) + 1 IN
  /\ caller[t].pc = "Put"
  /\ reqs' = Append(reqs, [image |-> caller[t].image,
                           secret |-> caller[t].secret,
                           finishPull |-> FALSE, cancelled |-> FALSE,
                           lost |-> FALSE])
  /\ imagesNeedPull' = [imagesNeedPull EXCEPT ![caller[t].image] = id]
  /\ caller' = [caller EXCEPT ![t].pc = "Send", ![t].id = id]
  /\ UNCHANGED <<present, pullRequests, worker, ops>>

\* sip.pullRequests <- pullRequest: blocks while the channel is full.
SendPullRequest(t) ==
  /\ caller[t].pc = "Send"
  /\ Len(pullRequests) < QueueCap
  /\ pullRequests' = Append(pullRequests, caller[t].id)
  /\ SetCaller(t, "Idle")
  /\ UNCHANGED <<present, reqs, imagesNeedPull, worker, ops>>

(* ---- StopPullImage, called by the warmer's FinalizeKind ---- *)

\* finishPull is read without the lock; an unfinished request is cancelled.
StopCancel(t) ==
  LET id == caller[t].id IN
  /\ caller[t].pc = "StopCheck"
  /\ reqs' = IF reqs[id].finishPull THEN reqs
             ELSE [reqs EXCEPT ![id].cancelled = TRUE]
  /\ SetCaller(t, "StopRemove")
  /\ UNCHANGED <<present, imagesNeedPull, pullRequests, worker, ops>>

\* removeImagePullRequest deletes the image's entry, whichever it is now.
removeImagePullRequest(t) ==
  /\ caller[t].pc = "StopRemove"
  /\ imagesNeedPull' = [imagesNeedPull EXCEPT ![caller[t].image] = NoEntry]
  /\ SetCaller(t, "Idle")
  /\ UNCHANGED <<present, reqs, pullRequests, worker, ops>>

(* ---- processImagePullRequests, the single worker ---- *)

\* pullRequest.finishPull = true; the worker takes the next request.
Finish(id) ==
  /\ reqs' = [reqs EXCEPT ![id].finishPull = TRUE]
  /\ worker' = IdleWorker

Current == reqs[worker.id]

\* for pullRequest := range sip.pullRequests
ReceivePullRequest ==
  /\ worker.pc = "Idle"
  /\ pullRequests # <<>>
  /\ worker' = [IdleWorker EXCEPT !.pc = "Exists", !.id = Head(pullRequests)]
  /\ pullRequests' = Tail(pullRequests)
  /\ UNCHANGED <<present, reqs, imagesNeedPull, caller, ops>>

\* Variant: the exists branch returns without setting finishPull.
ImageExistsNoFinish ==
  /\ worker.pc = "Exists"
  /\ \/ /\ ListImagesFinds(Current.image, Current.cancelled)
        /\ worker' = IdleWorker
        /\ UNCHANGED reqs
     \/ /\ worker' = [worker EXCEPT !.pc = "Pull"]
        /\ UNCHANGED reqs
  /\ UNCHANGED <<present, imagesNeedPull, pullRequests, caller, ops>>

\* ImageExists with the request's context: ListImages fails on a cancelled
\* context (or for any runtime error), which reads as "absent".
ImageExists ==
  /\ worker.pc = "Exists"
  /\ \/ /\ ListImagesFinds(Current.image, Current.cancelled)
        /\ Finish(worker.id)
     \/ /\ worker' = [worker EXCEPT !.pc = "Pull"]
        /\ UNCHANGED reqs
  /\ UNCHANGED <<present, imagesNeedPull, pullRequests, caller, ops>>

\* doPullImage returns. A secret without credentials for the registry makes
\* it return no stream and no error before any call to docker (the context
\* is not consulted), and decoding the missing stream panics. Otherwise
\* ImagePull fails at once on a cancelled context, and may fail for every
\* credential or open the stream, upon which the progress reporter starts.
doPullImage ==
  /\ worker.pc = "Pull"
  /\ \/ /\ Current.secret = "NoMatch"
        /\ worker' = [worker EXCEPT !.pc = "Crashed"]
        /\ UNCHANGED reqs
     \/ /\ Current.secret # "NoMatch"
        /\ Current.cancelled
        /\ Finish(worker.id)
     \/ /\ Current.secret # "NoMatch"
        /\ ~Current.cancelled
        /\ \/ Finish(worker.id)
           \/ /\ worker' = [worker EXCEPT !.pc = "Stream", !.age = 0, !.msgs = 0]
              /\ UNCHANGED reqs
  /\ UNCHANGED <<present, imagesNeedPull, pullRequests, caller, ops>>

\* doPullImage returns without the registry's answer: no docker call is
\* made, or the request's context is cancelled. The context has no
\* deadline and the reporter starts only once the stream is open.
ImagePullReturns == Current.secret = "NoMatch" \/ Current.cancelled

\* A progress message is decoded: reporter.set records its time.
StreamProgress ==
  /\ worker.pc = "Stream"
  /\ worker.msgs < MaxProgress
  /\ worker' = [worker EXCEPT !.age = 0, !.msgs = @ + 1]
  /\ UNCHANGED <<present, reqs, imagesNeedPull, pullRequests, caller, ops>>

\* The stream ends: io.EOF after a complete pull, or an error message.
StreamEnd ==
  /\ worker.pc = "Stream"
  /\ \/ /\ present' = present \cup {Current.image}
        /\ Finish(worker.id)
     \/ /\ Finish(worker.id)
        /\ UNCHANGED present
  /\ UNCHANGED <<imagesNeedPull, pullRequests, caller, ops>>

\* StopPullImage cancelled the request's context: the next read of the
\* stream fails.
StreamCancelled ==
  /\ worker.pc = "Stream"
  /\ Current.cancelled
  /\ Finish(worker.id)
  /\ UNCHANGED <<present, imagesNeedPull, pullRequests, caller, ops>>

\* Variant: a reporter that logs a stall but never cancels the pull.
ReporterTickNoCancel ==
  /\ worker.pc = "Stream"
  /\ worker.age < Deadline
  /\ worker' = [worker EXCEPT !.age = @ + 1]
  /\ UNCHANGED <<present, reqs, imagesNeedPull, pullRequests, caller, ops>>

\* A tick of the progress reporter: with no progress for longer than the
\* deadline it cancels the pull's context and the stream read fails.
ReporterTick ==
  /\ worker.pc = "Stream"
  /\ IF worker.age < Deadline
     THEN worker' = [worker EXCEPT !.age = @ + 1] /\ UNCHANGED reqs
     ELSE Finish(worker.id)
  /\ UNCHANGED <<present, imagesNeedPull, pullRequests, caller, ops>>

\* The panic ends the daemon process; the kubelet restarts its container.
\* The map, the channel and every goroutine start afresh, a reconcile in
\* progress writes nothing; the runtime keeps its images. The new daemon's
\* promotion enqueues every ImageWarm of its lister.
Restart ==
  /\ worker.pc = "Crashed"
  /\ reqs' = [id \in DOMAIN reqs |->
               IF reqs[id].finishPull THEN reqs[id]
               ELSE [reqs[id] EXCEPT !.lost = TRUE]]
  /\ imagesNeedPull' = [i \in Images |-> NoEntry]
  /\ pullRequests' = <<>>
  /\ caller' = [t \in Callers |-> IdleCaller]
  /\ worker' = IdleWorker
  /\ keys' = {w \in Warms : warm[w].phase # "Gone"}
  /\ handling' = [t \in Callers |-> NotHandling]
  /\ UNCHANGED <<present, ops, warm, awaited>>

(* ---- The ImageWarm reconciler (generated reconciler and imagewarm.go) ---- *)

\* The workqueue hands key w to idle worker t; a key is never held by two
\* workers.
TakeKey(t, w) ==
  /\ caller[t].pc = "Idle"
  /\ handling[t].key = NoKey
  /\ w \in keys
  /\ keys' = keys \ {w}

\* The lister has no ImageWarm under the key: nothing to do.
ReconcileGone(t, w) ==
  /\ TakeKey(t, w)
  /\ warm[w].phase = "Gone"
  /\ UNCHANGED <<pullerVars, warm, handling, awaited>>

\* ReconcileKind of a live ImageWarm, once the generated reconciler has
\* added its finalizer: ImageExists, on the reconcile's own goroutine, finds
\* the image and Ready is to be marked True; otherwise (the image is absent
\* or ListImages failed) the pull secret is looked up (a missing one means
\* an anonymous pull), PullImage is called and Ready is to be marked Unknown.
ReconcileKind(t, w, s) ==
  LET i == WarmImage[w] IN
  /\ TakeKey(t, w)
  /\ warm[w].phase = "Live"
  /\ warm' = [warm EXCEPT ![w].finalizer = TRUE]
  /\ \/ /\ ListImagesFinds(i, FALSE)
        /\ handling' = [handling EXCEPT ![t] = [key |-> w, outcome |-> "True"]]
        /\ UNCHANGED <<caller, ops>>
     \/ /\ ops < MaxOps
        /\ caller' = [caller EXCEPT ![t] = [pc |-> "Get", image |-> i,
                                            secret |-> s, id |-> 0]]
        /\ ops' = ops + 1
        /\ handling' = [handling EXCEPT ![t] = [key |-> w, outcome |-> "Unknown"]]
  /\ UNCHANGED <<present, reqs, imagesNeedPull, pullRequests, worker, awaited>>

\* Variant: FinalizeKind returns an error when StopPullImage finds no pull
\* for the image; the generated reconciler requeues the key and keeps the
\* finalizer, so the step changes nothing.
FinalizeKindFailsWithoutPull(t, w) ==
  LET i == WarmImage[w]
      e == imagesNeedPull[i]
  IN
  /\ caller[t].pc = "Idle"
  /\ handling[t].key = NoKey
  /\ w \in keys
  /\ warm[w].phase = "Deleting"
  /\ IF e = NoEntry
     THEN UNCHANGED vars
     ELSE /\ keys' = keys \ {w}
          /\ caller' = [caller EXCEPT ![t] = [pc |-> "StopCheck", image |-> i,
                                               secret |-> "None", id |-> e]]
          /\ handling' = [handling EXCEPT ![t] = [key |-> w, outcome |-> "Finalize"]]
          /\ UNCHANGED <<present, reqs, imagesNeedPull, pullRequests, worker,
                         ops, warm, awaited>>

\* FinalizeKind of an ImageWarm being deleted calls StopPullImage for its
\* image: getImagePullRequest; without an entry it does nothing.
FinalizeKind(t, w) ==
  LET i == WarmImage[w]
      e == imagesNeedPull[i]
  IN
  /\ TakeKey(t, w)
  /\ warm[w].phase = "Deleting"
  /\ caller' = IF e = NoEntry THEN caller
               ELSE [caller EXCEPT ![t] = [pc |-> "StopCheck", image |-> i,
                                           secret |-> "None", id |-> e]]
  /\ handling' = [handling EXCEPT ![t] = [key |-> w, outcome |-> "Finalize"]]
  /\ UNCHANGED <<present, reqs, imagesNeedPull, pullRequests, worker, ops,
                 warm, awaited>>

\* ReconcileKind or FinalizeKind returned nil: the generated reconciler
\* writes the Ready condition, or removes the finalizer and the API server
\* deletes the object.
ReconcileDone(t) ==
  LET w == handling[t].key
      o == handling[t].outcome
  IN
  /\ w # NoKey
  /\ caller[t].pc = "Idle"
  /\ warm' = [warm EXCEPT ![w] =
                IF o = "Finalize" THEN [@ EXCEPT !.phase = "Gone", !.finalizer = FALSE]
                ELSE [@ EXCEPT !.ready = o]]
  /\ awaited' = [awaited EXCEPT ![w] = IF o = "Unknown" THEN caller[t].id ELSE 0]
  /\ handling' = [handling EXCEPT ![t] = NotHandling]
  /\ UNCHANGED <<pullerVars, keys>>

\* The ImageWarm is deleted (by the fan-out reconciler or with its Image).
\* With the finalizer only its deletionTimestamp is set. Its key is not
\* enqueued: the update event enqueues the owning Image.
DeleteWarm(w) ==
  /\ warm[w].phase = "Live"
  /\ warm' = [warm EXCEPT ![w].phase = IF warm[w].finalizer THEN "Deleting" ELSE "Gone"]
  /\ UNCHANGED <<pullerVars, keys, handling, awaited>>

-----------------------------------------------------------------------------
Caller(t) ==
  \/ getImagePullRequest(t)
  \/ putImagePullRequest(t)
  \/ SendPullRequest(t)
  \/ StopCancel(t)
  \/ removeImagePullRequest(t)

Worker ==
  \/ ReceivePullRequest
  \/ ImageExists
  \/ doPullImage
  \/ StreamCancelled
  \/ ReporterTick

Runtime == StreamProgress \/ StreamEnd

\* A step of the puller, the docker daemon or the reporter alone.
PullerStep ==
  /\ (\E t \in Callers : Caller(t)) \/ Worker \/ Runtime
  /\ UNCHANGED warmerVars

Reconciler(t) ==
  \/ \E w \in Warms : \/ ReconcileGone(t, w)
                      \/ FinalizeKind(t, w)
                      \/ \E s \in SecretKinds : ReconcileKind(t, w, s)
  \/ ReconcileDone(t)

\* Every goroutine is idle and the channel is empty: the daemon waits for
\* the next reconcile, which may never come.
Quiescent ==
  /\ \A t \in Callers : caller[t].pc = "Idle" /\ handling[t].key = NoKey
  /\ worker.pc = "Idle"
  /\ pullRequests = <<>>

Done == Quiescent /\ UNCHANGED vars

Next ==
  \/ PullerStep
  \/ Restart
  \/ \E t \in Callers : Reconciler(t)
  \/ \E w \in Warms : DeleteWarm(w)
  \/ Done

(* Goroutines that can run eventually run, the workqueue hands out every  *)
(* key it holds, the kubelet restarts a crashed container and the          *)
(* reporter's ticker keeps ticking. ImagePull is owed an answer only when  *)
(* it needs none from the registry (ImagePullReturns): its context has no  *)
(* deadline, so a registry that never answers holds the worker. A stream   *)
(* owes nothing: it may stay silent forever. Deleting an ImageWarm is a    *)
(* user's choice. The puller's steps leave the reconciler's variables      *)
(* alone, so their fairness is stated over the puller's variables.         *)
Fairness ==
  /\ \A t \in Callers : /\ WF_pullerVars(getImagePullRequest(t))
                        /\ WF_pullerVars(putImagePullRequest(t))
                        /\ WF_pullerVars(SendPullRequest(t))
                        /\ WF_pullerVars(StopCancel(t))
                        /\ WF_pullerVars(removeImagePullRequest(t))
                        /\ WF_vars(ReconcileDone(t))
  /\ \A w \in Warms :
       WF_vars(\E t \in Callers : \/ ReconcileGone(t, w)
                                  \/ FinalizeKind(t, w)
                                  \/ \E s \in SecretKinds : ReconcileKind(t, w, s))
  /\ WF_vars(Restart)
  /\ WF_pullerVars(ReceivePullRequest)
  /\ WF_pullerVars(ImageExists)
  /\ WF_pullerVars(StreamCancelled)
  /\ WF_pullerVars(ReporterTick)
  /\ WF_pullerVars(doPullImage /\ ImagePullReturns)

Spec == Init /\ [][Next]_vars /\ Fairness

-----------------------------------------------------------------------------
(* Properties.                                                             *)

\* Every request handed to the puller is settled in the end: finished
\* (finishPull = true), or lost with the process that crashed. Spec 4.4 and
\* the comment at docker.go:57 say the progress reporter bounds a hung pull,
\* so the single worker drains the channel, requests StopPullImage removed
\* from the map included.
Settled(id) == id <= Len(reqs) /\ (reqs[id].finishPull \/ reqs[id].lost)

EveryRequestSettles ==
  \A id \in 1..MaxOps : [](id <= Len(reqs) => <>Settled(id))

\* Once docker has opened the pull stream, the progress reporter bounds the
\* pull: the request the worker decodes is finished however long the
\* stream stays silent, by its end, an error, StopPullImage's cancel or the
\* reporter's cancel after the progress deadline.
StreamBounded ==
  \A id \in 1..MaxOps : (worker.pc = "Stream" /\ worker.id = id) ~> Settled(id)

\* Coalescing of PullImage: at no time are there two live (unfinished and
\* uncancelled) requests for one image, so one image is not pulled twice.
AtMostOneLivePull ==
  \A i \in Images :
    Cardinality({id \in 1..Len(reqs) :
                   /\ reqs[id].image = i
                   /\ ~reqs[id].finishPull
                   /\ ~reqs[id].cancelled
                   /\ ~reqs[id].lost}) <= 1

\* The reconcile of ImageWarm w, in this daemon's life, left it live and
\* Ready Unknown, relying on the pull request awaited[w]: its own, or one
\* for the same image that PullImage coalesced it onto.
Awaits(w) ==
  /\ warm[w].phase = "Live"
  /\ warm[w].ready = "Unknown"
  /\ awaited[w] # 0
  /\ w \notin keys
  /\ \A t \in Callers : handling[t].key # w

\* A pull that a live ImageWarm waits on is never cancelled: FinalizeKind
\* of another ImageWarm naming the same image (another Image caching it)
\* calls StopPullImage by image reference, which must not take the pull
\* away from the ImageWarm still waiting for it.
FinalizeSparesLivePulls ==
  \A w \in Warms : Awaits(w) => ~reqs[awaited[w]].cancelled

\* An ImageWarm being deleted whose key is queued, or whose FinalizeKind is
\* running, eventually loses its finalizer and goes away: FinalizeKind never
\* fails, the generated reconciler then removes the finalizer, and a crash
\* between the two (the worker's panic) is repaired by the restarted
\* daemon's promotion, which enqueues every ImageWarm again. (An ImageWarm
\* deleted while its ReconcileKind runs is not queued again: controller.go
\* enqueues the owner's key.)
Queued(w) ==
  \/ w \in keys
  \/ \E t \in Callers : handling[t] = [key |-> w, outcome |-> "Finalize"]

FinalizerRemoved ==
  \A w \in Warms : (warm[w].phase = "Deleting" /\ Queued(w)) ~> warm[w].phase = "Gone"

\* The worker goroutine never panics (doPullImage and the stream decoder).
WorkerNeverPanics == worker.pc # "Crashed"

-----------------------------------------------------------------------------
(* Refinement of PullPipeline. A request is submitted when PullImage puts  *)
(* it in the map, and enqueued when the send on the channel completes.     *)
(* The request the worker holds, from ImageExists to its finish or crash,  *)
(* stands at the head of the abstract queue, before the channel's content. *)

Held == IF worker.pc \in {"Exists", "Pull", "Stream", "Crashed"}
        THEN <<worker.id>> ELSE <<>>

Pipeline == INSTANCE PullPipeline WITH
  MaxRequests <- MaxOps,
  requests    <- [id \in DOMAIN reqs |->
                    [image |-> reqs[id].image, cancelled |-> reqs[id].cancelled,
                     finished |-> reqs[id].finishPull, lost |-> reqs[id].lost]],
  submitting  <- {caller[t].id : t \in {u \in Callers : caller[u].pc = "Send"}},
  inflight    <- Held \o pullRequests

\* The puller implements the pipeline: its single worker takes requests in
\* channel order and finishes exactly the one it holds, an image enters the
\* runtime only as that request finishes, StopPullImage only flags a
\* request, a restart loses what was unfinished, and a cancelled request at
\* the head of the line is finished unless a crash loses it.
ImplementsPullPipeline == Pipeline!Spec

================================================================================
