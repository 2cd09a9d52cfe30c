-------------------------- MODULE BatchImageStatus --------------------------
(***************************************************************************)
(* The life cycle of a batch image job: the statuses of                    *)
(* batch_image_jobs.status and the transition table every status change    *)
(* under a row lock consults.  "none" is the absence of the row.           *)
(***************************************************************************)

JobStatus == {"created", "uploading", "submitted", "running", "indexing",
              "settling", "completed", "failed", "cancelled", "output_deleted"}

IsTerminalBatchImageJobStatus(s) ==
    s \in {"completed", "failed", "cancelled", "output_deleted"}

\* What the provider processor no longer works on: settling belongs to the
\* settlement service.
IsProcessorDone(s) == s = "settling" \/ IsTerminalBatchImageJobStatus(s)

CanTransitionBatchImageJob(from, to) ==
    \/ /\ IsTerminalBatchImageJobStatus(from)
       /\ from # "output_deleted" /\ to = "output_deleted"
    \/ /\ from \in JobStatus /\ ~IsTerminalBatchImageJobStatus(from)
       /\ \/ to = "failed"
          \/ from = "created"   /\ to \in {"uploading", "submitted", "cancelled"}
          \/ from = "uploading" /\ to \in {"submitted", "cancelled"}
          \/ from \in {"submitted", "running"} /\ to \in {"running", "indexing", "cancelled"}
          \/ from = "indexing"  /\ to = "settling"
          \/ from = "settling"  /\ to = "completed"
=============================================================================
