---------------------------- MODULE JobLifecycle ----------------------------
(***************************************************************************)
(* What the voice-build queue promises to the browser that polls           *)
(* GET /api/jobs/<id>: the statuses a job goes through and the life of the *)
(* private source clips uploaded for it. Threads, locks, markers, queues   *)
(* and restarts are invisible here; VoiceJobs is shown to implement this.  *)
(***************************************************************************)
CONSTANT Jobs

VARIABLES
  status,  \* the job's state in the API, "absent" when GET answers 404
  clips,   \* jobs all of whose source clips are on this machine
  left     \* jobs with clips here that an erasure could not remove

Waiting  == {"needs_speaker", "needs_reference"}
Finished == {"succeeded", "failed", "cancelled"}
Ongoing  == {"queued", "running", "cancelling"}

Init == status = [j \in Jobs |-> "absent"] /\ clips = {} /\ left = {}

Become(j, s) == status' = [status EXCEPT ![j] = s] /\ UNCHANGED <<clips, left>>

\* An erasure removes the clips, or leaves some or all behind.
Remove(j) ==
  /\ \/ clips' = clips \ {j} /\ left' = left \ {j}
     \/ /\ j \in clips \cup left
        /\ clips' \in {clips, clips \ {j}} /\ left' = left \cup {j}
  /\ UNCHANGED status

\* Clips arrive before the job is visible, and leave with a failed upload.
Upload(j) == status[j] = "absent" /\ clips' = clips \cup {j} /\ UNCHANGED <<status, left>>
Reject(j) == status[j] = "absent" /\ Remove(j)

\* A job is accepted only with its clips stored.
Accept(j) == status[j] = "absent" /\ j \in clips /\ Become(j, "queued")

\* A build starts, and starts again after a restart of the service.
Begin(j) == status[j] = "queued" /\ j \in clips /\ Become(j, "running")
Requeue(j) == status[j] = "running" /\ j \in clips /\ Become(j, "queued")

\* The build needs an answer. A cancellation that arrives too late is lost here.
Ask(j) == \E q \in Waiting : status[j] \in {"running", "cancelling"} /\ Become(j, q)
Answer(j) == status[j] \in Waiting /\ j \in clips /\ Become(j, "queued")

\* A waiting job is cancelled at once, one that is under way when it notices.
RequestCancel(j) ==
  \/ status[j] \in Waiting /\ Become(j, "cancelled")
  \/ status[j] \in {"queued", "running"} /\ Become(j, "cancelling")

\* Only a build that was under way can succeed. A request to cancel that was answered
\* with an error, its record not written, may have been noted all the same.
Succeed(j) == status[j] \in {"running", "cancelling"} /\ Become(j, "succeeded")
Fail(j)    == status[j] \in Ongoing /\ Become(j, "failed")
Cancelled(j) == status[j] \in Ongoing /\ Become(j, "cancelled")

\* The clips go when the job is finished, and its record after an erasure was tried.
\* Nothing leads to clips that are still there then.
Erase(j) == status[j] \in Finished /\ Remove(j)
Forget(js) ==
  /\ \A j \in js : status[j] \in Finished /\ j \notin clips \ left
  /\ status' = [j \in Jobs |-> IF j \in js THEN "absent" ELSE status[j]]
  /\ UNCHANGED <<clips, left>>

Step(j) ==
  \/ Upload(j) \/ Reject(j) \/ Accept(j) \/ Begin(j) \/ Requeue(j) \/ Ask(j) \/ Answer(j)
  \/ RequestCancel(j) \/ Succeed(j) \/ Fail(j) \/ Cancelled(j) \/ Erase(j)

Next == (\E j \in Jobs : Step(j)) \/ (\E js \in SUBSET Jobs : Forget(js))

vars == <<status, clips, left>>

Spec == Init /\ [][Next]_vars
=============================================================================
