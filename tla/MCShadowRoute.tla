---------------------------- MODULE MCShadowRoute ----------------------------
(* Requests of both routes at one slot.                                    *)
EXTENDS ShadowRoute, TLC
=============================================================================
