--------------------------- MODULE MCStreamWriter ---------------------------
(***************************************************************************)
(* Instances of StreamWriter for TLC.                                      *)
(***************************************************************************)
EXTENDS StreamWriterRefinement, StreamWriterInvariant

\* Two blocks of two slots: chunks of one or two frames, a window and a chunk at
\* the same time, and a second lap of the buffer after four frames.
OneGeometry == { << 4, 2 >> }

\* Reconnections that change the buffer, and one that allocate_circbufs refuses.
ManyGeometries == { << 4, 2 >>, << 2, 1 >>, << 0, 0 >> }

\* The same blocks, or none: for the liveness run, in which two frames are enough
\* for a chunk that waits for the window before it.
RefusedGeometry == { << 4, 2 >>, << 0, 0 >> }
=============================================================================
