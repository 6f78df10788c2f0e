-------------------------- MODULE MCWorkspaceRestore --------------------------
EXTENDS WorkspaceRestore
MCContents == ("p" :> {"a", "b"}) @@ ("q" :> {"a", "absent"})
MCTargets == {{"p", "q"}}
MCContents3 == "p" :> {"a", "b", "absent"}
MCTargets1 == {{"p"}}
===============================================================================
