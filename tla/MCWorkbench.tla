---------------------------- MODULE MCWorkbench ----------------------------
(* One page of the workbench, and nobody else at the wiki.                 *)
EXTENDS Workbench

CONSTANT b1

OneBrowser == {b1}
OneVerb == {"record-action"}
OneText == {"typed"}
NoScripts == {}
=============================================================================
