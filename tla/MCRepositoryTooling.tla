------------------------- MODULE MCRepositoryTooling -------------------------
(***************************************************************************)
(* Two packages, q before its first release, and an engine with up to two  *)
(* defects.                                                                *)
(***************************************************************************)
EXTENDS RepositoryTooling

MCPackages == <<"p", "q">>

MCFirstCommit ==
    [type |-> "feat", touches |-> {"p", "q"},
     versions |-> [x \in {"p", "q"} |-> <<0, 1, 0>>]]

MCFirstTags == {[package |-> "p", version |-> <<0, 1, 0>>, commit |-> 1]}

MCMerges ==
    {[type |-> "fix", touches |-> {"p", "q"}],
     [type |-> "feat", touches |-> {"p"}],
     [type |-> "break", touches |-> {"q"}]}



=============================================================================
