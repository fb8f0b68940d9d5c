----------------------------- MODULE MC_PathOps -----------------------------
(* Inputs for PathOps: pathnames over "a" and "/"; paths over names "a",   *)
(* "b" and "ab", whose strings contain one another; plain paths, file     *)
(* URLs and http URLs; a current directory one name deep.                  *)
EXTENDS PathOps

MCChars == {"a", "/"}
MCNames == {<<"a">>, <<"b">>, <<"a", "b">>}
MCSchemes == {"", "file", "http"}
MCCwd == <<<<"c">>>>

=============================================================================
