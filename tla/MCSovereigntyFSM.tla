---------------------------- MODULE MCSovereigntyFSM ----------------------------
(* SovereigntyFSM on every combination of sensor readings at and around the *)
(* thresholds.                                                              *)
EXTENDS HysteresisArithmetic

MCReadings ==
    [btcGap : {SuspiciousThreshold - 1, SuspiciousThreshold, SovereignThreshold},
     btcSpvFailed : BOOLEAN,
     daGap : {DAThreshold - 1, DAThreshold},
     daFailed : BOOLEAN,
     activeAnchors : {0, MinAnchorPeers},
     peerQuality : BOOLEAN]
=============================================================================
