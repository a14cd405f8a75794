------------------------------ MODULE MCLibrary ------------------------------
EXTENDS Library

CONSTANTS f1, f2

\* The second name list without a whitelist turns a protected string into a
\* placeholder.
NeedsWhitelist == {x \in [{"lastname", "whitelist"} -> {f1, f2, NoFile}] :
                     x["lastname"] = f2 /\ x["whitelist"] = NoFile}
=============================================================================
