------------------------------ MODULE MCPanel ------------------------------
(* Two releases that may follow each other, one withdrawn and one whose tag is *)
(* no version, for builds before, between and after them.                      *)
EXTENDS Panel

MCTag == {"v0.6.0-rc1", "v0.6.0", "v0.10", "nightly"}
MCBuild == {"v0.6.0-rc1", "v0.7.2", "dev", "commit"}
MCCommit == {"commit"}

Version == MCTag \cup (MCBuild \ MCCommit)

MCNumbers ==
    [t \in Version |->
        CASE t \in {"v0.6.0-rc1", "v0.6.0"} -> <<0, 6, 0>>
          [] t = "v0.7.2" -> <<0, 7, 2>>
          [] t = "v0.10"  -> <<0, 10>>
          [] OTHER        -> <<>>]

MCPre == [t \in Version |-> t = "v0.6.0-rc1"]

MCHistory ==
    [c \in MCCommit \X MCTag |-> IF c[2] = "v0.10" THEN "behind" ELSE "diverged"]

MCFollow ==
    [t \in MCTag |->
        CASE t = "v0.6.0-rc1" -> {"v0.6.0"}
          [] t = "v0.6.0"     -> {"v0.10"}
          [] t = "v0.10"      -> {"nightly"}
          [] OTHER            -> {}]
=============================================================================
