-------------------------- MODULE MCMemoryBackend --------------------------
(* Small instances of MemoryBackend: "/a/x" and "/ab" share the prefix "/a". *)
EXTENDS MemoryBackend
MCKeys == {<<"a", "x">>, <<"ab">>}
MCRoots == {<<"a", "">>, <<"">>}
=============================================================================
