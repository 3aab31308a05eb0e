------------------------------ MODULE MCArchive ------------------------------
(***************************************************************************)
(* Every string over names of MCContext's index files and the separator,   *)
(* up to MaxPath tokens, asked of every tree they give.                    *)
(***************************************************************************)
EXTENDS MCContext, WowsArchive

CONSTANT MaxPath

MCPaths == {s \in SeqOf({"res", "gui", "a", Sep}, MaxPath) :
              \A j \in 1 .. Len(s) - 1 : s[j] = Sep \/ s[j+1] = Sep}

MCPatterns == {{<<"a">>, <<"b">>}, {<<"res">>, <<"gui">>},
               {<<"res", Sep, "gui", Sep, "a">>, <<"res">>}}
=============================================================================
