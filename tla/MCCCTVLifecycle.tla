-------------------------- MODULE MCCCTVLifecycle --------------------------
(***************************************************************************)
(* CCTVLifecycle for TLC: the base and the thumbnail pipeline, in the order *)
(* of runPipelines.                                                        *)
(***************************************************************************)
EXTENDS CCTVLifecycle

CONSTANTS base, thumbnail

MCPipelines == {base, thumbnail}
MCRunPipelines == <<base, thumbnail>>
MCFinite == {base}
=============================================================================
