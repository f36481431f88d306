---------------------------- MODULE MCEPollPoller ----------------------------
(* Instances of EPollPoller for TLC.*)
EXTENDS EPollPoller
=============================================================================
