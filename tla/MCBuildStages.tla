--------------------------- MODULE MCBuildStages ---------------------------
(* BuildStages with six of the nine stages, and the tasks that a toolchain *)
(* makes for them, in its order: a precompiled header, four sources, the   *)
(* version information, two PreLink commands, the link and a PostBuild     *)
(* command.                                                                *)
EXTENDS BuildStages

TenTasks == <<1, 2, 2, 2, 2, 0, 3, 3, 4, 5>>
============================================================================
