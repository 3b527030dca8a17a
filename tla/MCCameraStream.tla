---------------------------- MODULE MCCameraStream ----------------------------
(* A camera with two regions of interest and buffers of two frames. *)
EXTENDS CameraStream

MCRoi == {"small", "large"}
MCGeometry == (MCRoi \cup {"0x0"}) \X {1, 2}
=============================================================================
