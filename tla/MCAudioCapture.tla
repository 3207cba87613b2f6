---------------------------- MODULE MCAudioCapture ----------------------------
(***************************************************************************)
(* Values for model-checking AudioCapture.                                 *)
(***************************************************************************)
EXTENDS AudioCapture

(* Three hosts of three priorities, listed neither best nor worst first.   *)
LinuxHosts == <<"Alsa", "PipeWire", "Jack">>
=============================================================================
