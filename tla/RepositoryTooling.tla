------------------------- MODULE RepositoryTooling -------------------------
(***************************************************************************)
(* The tools the repository keeps beside its packages: the releases and    *)
(* the conformance suite.  They share nothing, so a behaviour is one of    *)
(* either.                                                                 *)
(***************************************************************************)
EXTENDS ReleasePipeline, ConformanceSuite

VARIABLE tool       \* "release", "conformance"

toolVars == <<tool, releaseVars, suiteVars>>

ToolInit ==
    /\ tool \in {"release", "conformance"}
    /\ ReleaseInit
    /\ ConfInit
    /\ tool = "release" => suite = "demo" /\ defects = {}

ToolNext ==
    \/ tool = "release" /\ ReleaseNext /\ UNCHANGED <<tool, suiteVars>>
    \/ tool = "conformance" /\ ConfNext /\ UNCHANGED <<tool, releaseVars>>

\* Nothing is asked of the suite: whoever runs it may stop it.
ToolFairSpec == ToolInit /\ [][ToolNext]_toolVars /\ ReleaseFairness

=============================================================================
