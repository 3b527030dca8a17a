----------------------- MODULE StreamWriterRefinement -----------------------
(***************************************************************************)
(* The stream writer implements the abstract recorder.                     *)
(***************************************************************************)
EXTENDS StreamWriter

\* m_writing as an operator sees it: an armed writer is already recording.
Phase ==
    CASE writing = "NOT_WRITING"                    -> "Idle"
      [] writing \in { "START_WRITING", "WRITING" } -> "Recording"
      [] writing = "STOP_WRITING"                   -> "Stopping"

R == INSTANCE Recorder WITH phase <- Phase, failed <- ~Healthy

\* Every behaviour of fgThreadRun, swThreadExec, the writing callback and
\* appShutdown together is a behaviour of the recorder: whatever the interleaving,
\* frames are saved in order and a stop completes with everything saved.
ImplementsRecorder == R!Spec
=============================================================================
