------------------------------ MODULE Recorder ------------------------------
(***************************************************************************)
(* What the stream writer promises, without threads, buffers or windows:   *)
(* an operator starts and stops a recording; the frames taken meanwhile    *)
(* are saved in order, without gaps, some time later; a stop is complete   *)
(* only when every recorded frame is saved.  Only a failure may end a      *)
(* recording with frames unsaved, and even then what was saved is a        *)
(* prefix of the recording.                                                *)
(***************************************************************************)
EXTENDS Naturals, Sequences

VARIABLES
    phase,      \* "Idle", "Recording" or "Stopping"
    recorded,   \* how many frames have been recorded
    saved,      \* the frames saved, in the order they were saved
    failed      \* the recorder has given up on frames

rvars == << phase, recorded, saved, failed >>

AllSaved == Len(saved) = recorded

Init ==
    /\ phase \in { "Idle", "Recording" }
    /\ recorded = 0 /\ saved = << >> /\ failed = FALSE

Start ==
    /\ phase = "Idle" /\ phase' = "Recording"
    /\ UNCHANGED << recorded, saved, failed >>

\* A frame is taken; a shutdown may turn it into the last one.
Record ==
    /\ phase # "Idle"
    /\ recorded' = recorded + 1
    /\ \/ phase' = phase
       \/ phase = "Recording" /\ phase' = "Stopping"
    /\ UNCHANGED << saved, failed >>

\* The next n frames of the recording are saved.  A stop that has nothing left to
\* save is complete: the recorder is idle, or records the replacement stream.
Save ==
    /\ phase # "Idle"
    /\ \E n \in 1 .. recorded - Len(saved) :
          saved' = saved \o [ i \in 1 .. n |-> Len(saved) + i ]
    /\ \/ phase' = phase
       \/ phase = "Stopping" /\ Len(saved') = recorded /\ phase' \in { "Idle", "Recording" }
    /\ UNCHANGED << recorded, failed >>

\* A stop is requested; with nothing left to save it is complete at once.
Stop ==
    /\ phase = "Recording"
    /\ phase' = "Stopping" \/ (AllSaved /\ phase' = "Idle")
    /\ UNCHANGED << recorded, saved, failed >>

\* The recorder gives up; from then on only the promise about the order is kept.
Fail ==
    /\ failed' = TRUE
    /\ phase' \in { "Idle", "Recording", "Stopping" }
    /\ UNCHANGED << recorded, saved >>

Next == Start \/ Record \/ Save \/ Stop \/ Fail

Spec == Init /\ [][Next]_rvars
=============================================================================
