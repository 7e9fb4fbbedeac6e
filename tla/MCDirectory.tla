---- MODULE MCDirectory ----
(* Two names whose slugs collide: the first suffix of the one is the base   *)
(* of the other, and the base of the first is the bootstrap slug.           *)
EXTENDS Directory
MCNames == {"Default", "Default 1"}
MCSlugs == {"default", "default-1", "default-2", "default-3",
            "default-1-1", "default-1-2"}
MCCandidates ==
    [name \in MCNames |->
        IF name = "Default"
        THEN <<"default", "default-1", "default-2", "default-3">>
        ELSE <<"default-1", "default-1-1", "default-1-2">>]
====
