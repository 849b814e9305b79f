---------------------------- MODULE ControlStore ----------------------------
(***************************************************************************)
(* MetadataStore, the whole of it: the watermark row and the pipeline_run  *)
(* rows.                                                                   *)
(***************************************************************************)
EXTENDS WatermarkStore, RunStore

controlVars == <<wm, runRow>>

ControlInit == WatermarkInit /\ RunInit
==============================================================================
