----------------------------- MODULE MCPlugins -----------------------------
(***************************************************************************)
(* Two scripts in either order, one named twice; two files, one where the   *)
(* other needs a directory.                                                *)
(***************************************************************************)
EXTENDS Plugins

CONSTANTS a, b, v1, v2, dir, below

MCScripts == {a, b}
MCTexts == {v1, v2}
MCPaths == {dir, below}
MCBelow == {<<below, dir>>}
MCConfigs == {<<a, b>>, <<b, b, a>>}

=============================================================================
