------------------------------ MODULE SpotFlow ------------------------------
(***************************************************************************)
(* The scanner and the legacy consumer, joined by stream:spot_opps.        *)
(***************************************************************************)
EXTENDS Scanner, Consumer

spotVars == <<opps, scannerVars, consumerVars>>

SpotInit == ScannerInit /\ ConsumerInit

SpotNext ==
    \/ ScannerNext /\ UNCHANGED consumerVars
    \/ ConsumerNext /\ UNCHANGED scannerVars

SpotSpec == SpotInit /\ [][SpotNext]_spotVars

(* systemd keeps both running.                                             *)
SpotFairSpec ==
    /\ SpotSpec
    /\ WF_spotVars(ScannerStep /\ UNCHANGED consumerVars)
    /\ WF_spotVars(ConsumerStep /\ UNCHANGED scannerVars)

SpotTypeOK == ScannerTypeOK /\ ConsumerTypeOK
=============================================================================
