---------------------------- MODULE PullPipeline ----------------------------
(***************************************************************************)
(* What the serial image puller promises the warm reconciler: submitted    *)
(* requests are handed, in the order they were enqueued, to a single       *)
(* worker that finishes them one at a time; a cancel only flags a request; *)
(* an image enters the runtime only when a request for it finishes; a      *)
(* crash of the daemon loses every unfinished request. A cancelled        *)
(* request at the head of the line is eventually finished, unless a crash *)
(* loses it. Nothing more is promised: a pull that is not cancelled waits  *)
(* on the registry, which may never answer, and the senders behind it     *)
(* wait on the channel.                                                    *)
(*                                                                         *)
(* NodeWarmer implements this specification: its map, its callers'        *)
(* separate lock acquisitions, the worker's existence check, the docker    *)
(* stream and the progress reporter are all hidden here.                   *)
(***************************************************************************)
EXTENDS Naturals, Sequences, SequencesExt

CONSTANTS
  Images,       \* image references
  MaxRequests   \* bound on submitted requests

VARIABLES
  requests,     \* every request submitted, in submission order
  submitting,   \* requests created but not yet enqueued
  inflight,     \* the worker's current request followed by the queue
  present       \* images in the runtime

vars == <<requests, submitting, inflight, present>>

Request == [image : Images, cancelled : BOOLEAN, finished : BOOLEAN,
            lost : BOOLEAN]

Unfinished(id) == ~requests[id].finished /\ ~requests[id].lost

TypeOK ==
  /\ requests \in Seq(Request)
  /\ submitting \subseteq DOMAIN requests
  /\ inflight \in Seq(DOMAIN requests)
  /\ present \subseteq Images

-----------------------------------------------------------------------------
\* A fresh puller; the runtime holds whatever images it holds.
Init ==
  /\ requests = <<>>
  /\ submitting = {}
  /\ inflight = <<>>
  /\ present \in SUBSET Images

\* PullImage registers a new request for image i.
Submit(i) ==
  /\ Len(requests) < MaxRequests
  /\ requests' = Append(requests, [image |-> i, cancelled |-> FALSE,
                                   finished |-> FALSE, lost |-> FALSE])
  /\ submitting' = submitting \cup {Len(requests) + 1}
  /\ UNCHANGED <<inflight, present>>

\* ... and hands it to the worker's queue.
Enqueue(id) ==
  /\ id \in submitting
  /\ submitting' = submitting \ {id}
  /\ inflight' = Append(inflight, id)
  /\ UNCHANGED <<requests, present>>

\* StopPullImage cancels an unfinished request.
Cancel(id) ==
  /\ id \in DOMAIN requests
  /\ Unfinished(id)
  /\ requests' = [requests EXCEPT ![id].cancelled = TRUE]
  /\ UNCHANGED <<submitting, inflight, present>>

\* The worker finishes the request at the head: its image may now be in the
\* runtime (pulled, or found there), or the pull failed or was cancelled.
Complete ==
  /\ inflight # <<>>
  /\ requests' = [requests EXCEPT ![Head(inflight)].finished = TRUE]
  /\ inflight' = Tail(inflight)
  /\ present' \in {present, present \cup {requests[Head(inflight)].image}}
  /\ UNCHANGED submitting

\* The daemon crashes and restarts: nothing in memory survives.
Crash ==
  /\ requests' = [id \in DOMAIN requests |->
                    IF Unfinished(id) THEN [requests[id] EXCEPT !.lost = TRUE]
                    ELSE requests[id]]
  /\ submitting' = {}
  /\ inflight' = <<>>
  /\ UNCHANGED present

Next ==
  \/ \E i \in Images : Submit(i)
  \/ \E id \in submitting : Enqueue(id)
  \/ \E id \in DOMAIN requests : Cancel(id)
  \/ Complete
  \/ Crash

\* The worker finishes the cancelled request it holds.
CompleteCancelled == Complete /\ requests[Head(inflight)].cancelled

Spec == Init /\ [][Next]_vars /\ WF_vars(CompleteCancelled)

================================================================================
