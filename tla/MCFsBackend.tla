---------------------------- MODULE MCFsBackend ----------------------------
(* Small instances of FsBackend: two bodies and two sidecars, one shorter.   *)
EXTENDS FsBackend
MCBodies == {<<1>>, <<2, 2>>}
MCTypes == {<<3>>, <<4, 4>>}
MCOneType == {<<3>>}
=============================================================================
