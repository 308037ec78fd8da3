------------------------------ MODULE MCDaemon ------------------------------
(* Small instances of Daemon for TLC.                                      *)
EXTENDS Daemon

(* One library of each shape the device thread tells apart: CANAL of       *)
(* generation 2 and 1, CANAL without its first or another required symbol, *)
(* a Level II driver and an incomplete one.                                *)
MCLibraries ==
    {CanalRequired \cup CanalGeneration2,
     CanalRequired,
     CanalRequired \ {"CanalOpen"},
     CanalRequired \ {"CanalSend"},
     VscpRequired,
     VscpRequired \ {"VSCPRead"}}

(* Shapes that reach the work loop in each half, and one that does not.    *)
MCFewLibraries == {CanalRequired, VscpRequired, {}}
=============================================================================
