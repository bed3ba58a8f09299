--------------------------- MODULE ReleasePipeline ---------------------------
(***************************************************************************)
(* .github/workflows/auto-release.yml and publish.yml around the two       *)
(* scripts of ReleaseBumps: each push to main starts a run that computes   *)
(* the bumps on a clone of its own, pushes their commit to main, then the  *)
(* tags one by one, then creates the GitHub Releases, each of which starts *)
(* a run that publishes the tag.  Runs overlap, with each other and with   *)
(* developers' merges, and may die between any two steps.                  *)
(***************************************************************************)
EXTENDS ReleaseBumps, FiniteSets

CONSTANTS
    FirstCommit,    \* the history before the pushes
    FirstTags,
    Merges,         \* [type, touches]: what developers merge
    MaxMerges,      \* merges after the first commit
    MaxCommits,     \* commits on main, those of the runs included
    MaxEarly,       \* runs that start while another one is pushing its tags
    MaxCrashes      \* runs that die or find no credentials

\* Any type that asks for no release is a chore.
CommitType == {"break", "feat", "fix", "chore"}

Commit == [type : CommitType, touches : SUBSET discover_packages,
           versions : [discover_packages -> Version]]

\* What has been released before carries the version of its package's file.
ASSUME ReleaseAssumption ==
    /\ FirstCommit \in Commit
    /\ FirstTags \subseteq [package : discover_packages, version : Version, commit : {1}]
    /\ \A t \in FirstTags : t.version = FirstCommit.versions[t.package]
    /\ \A m \in Merges : m.type \in CommitType /\ m.touches \subseteq discover_packages

VARIABLES
    main,       \* the commits of the branch, which only ever grows
    tags,       \* release tags at the remote
    releases,   \* GitHub Releases: tags of theirs
    runs,       \* auto-release runs: [base, stage, plan, commit, left]
    merges, early, crashes

releaseVars == <<main, tags, releases, runs, merges, early, crashes>>

-----------------------------------------------------------------------------

\* left: the indices of the plan that its loop over the tags, or the one over
\* the Releases, has not come to yet.
Run(base) ==
    [base |-> base, stage |-> "queued", plan |-> <<>>, commit |-> 0, left |-> {}]

\* The runs of what is on main have ended.
ReleaseInit ==
    /\ main = <<FirstCommit>>
    /\ tags = FirstTags
    /\ releases = FirstTags
    /\ runs = <<>>
    /\ merges = 0
    /\ early = 0
    /\ crashes = 0

Merge(m) ==
    /\ merges < MaxMerges
    /\ Len(main) < MaxCommits
    /\ main' = Append(main, [type |-> m.type, touches |-> m.touches,
                             versions |-> main[Len(main)].versions])
    /\ runs' = Append(runs, Run(Len(main) + 1))
    /\ merges' = merges + 1
    /\ UNCHANGED <<tags, releases, early, crashes>>

\* Checkout of the pushed commit with the tags there are, and the bumps on it.
Compute(r) ==
    LET run == runs[r]
        plan == Bumps(tags, SubSeq(main, 1, run.base))
        others == {s \in DOMAIN runs : runs[s].stage = "tagging"}
    IN /\ run.stage = "queued"
       /\ others # {} => early < MaxEarly
       /\ early' = IF others # {} THEN early + 1 ELSE early
       /\ runs' = [runs EXCEPT
             ![r].stage = IF DOMAIN plan = {} THEN "ended" ELSE "pushing",
             ![r].plan = plan,
             ![r].left = DOMAIN plan]
       /\ UNCHANGED <<main, tags, releases, merges, crashes>>

\* The release App's credentials are not configured: what has been computed is
\* shown in the summary and not applied.
Unconfigured(r) ==
    /\ runs[r].stage = "pushing"
    /\ crashes < MaxCrashes
    /\ crashes' = crashes + 1
    /\ runs' = [runs EXCEPT ![r].stage = "ended"]
    /\ UNCHANGED <<main, tags, releases, merges, early>>

\* A first release writes no file.
Commits(plan) == \E i \in DOMAIN plan : plan[i].kind # "bootstrap"

ReleaseCommit(run) ==
    [type |-> "chore",
     touches |-> {run.plan[i].package :
                     i \in {i \in DOMAIN run.plan : run.plan[i].kind # "bootstrap"}},
     versions |-> Written(run.plan, main[run.base].versions)]

\* Only a fast-forward is accepted.  The push of a commit starts a run too.
PushMain(r) ==
    LET run == runs[r]
    IN /\ run.stage = "pushing"
       /\ Len(main) = run.base
       /\ IF Commits(run.plan)
          THEN /\ Len(main) < MaxCommits
               /\ main' = Append(main, ReleaseCommit(run))
               /\ runs' = Append([runs EXCEPT ![r].stage = "tagging",
                                              ![r].commit = Len(main) + 1],
                                 Run(Len(main) + 1))
          ELSE /\ main' = main
               /\ runs' = [runs EXCEPT ![r].stage = "tagging",
                                       ![r].commit = Len(main)]
       /\ UNCHANGED <<tags, releases, merges, early, crashes>>

PushRejected(r) ==
    /\ runs[r].stage = "pushing"
    /\ Len(main) # runs[r].base
    /\ runs' = [runs EXCEPT ![r].stage = "failed"]
    /\ UNCHANGED <<main, tags, releases, merges, early, crashes>>

TagOf(run, i) == [package |-> run.plan[i].package,
                  version |-> run.plan[i].version,
                  commit |-> run.commit]

\* The package whose turn it is.
Foremost(run) == {i \in run.left : \A j \in run.left : i <= j}

SameName(t) == {u \in tags : u.package = t.package /\ u.version = t.version}

Advanced(r, i, next) ==
    IF runs[r].left = {i}
    THEN [runs EXCEPT ![r].left = DOMAIN runs[r].plan, ![r].stage = next]
    ELSE [runs EXCEPT ![r].left = @ \ {i}]

PushTag(r) ==
    /\ runs[r].stage = "tagging"
    /\ \E i \in Foremost(runs[r]) :
          LET t == TagOf(runs[r], i)
          IN /\ SameName(t) \subseteq {t}
             /\ tags' = tags \cup {t}
             /\ runs' = Advanced(r, i, "releasing")
    /\ UNCHANGED <<main, releases, merges, early, crashes>>

\* The remote has the tag at another commit; the rest of the tags stay here.
TagRejected(r) ==
    /\ runs[r].stage = "tagging"
    /\ \E i \in Foremost(runs[r]) :
          LET t == TagOf(runs[r], i) IN ~(SameName(t) \subseteq {t})
    /\ runs' = [runs EXCEPT ![r].stage = "failed"]
    /\ UNCHANGED <<main, tags, releases, merges, early, crashes>>

\* gh release create: its event starts a publish run of the tag.
CreateRelease(r) ==
    /\ runs[r].stage = "releasing"
    /\ \E i \in Foremost(runs[r]) :
          LET t == TagOf(runs[r], i)
          IN /\ t \notin releases
             /\ releases' = releases \cup {t}
             /\ runs' = Advanced(r, i, "ended")
    /\ UNCHANGED <<main, tags, merges, early, crashes>>

\* gh release create: another run has made the Release of this tag.
ReleaseRejected(r) ==
    /\ runs[r].stage = "releasing"
    /\ \E i \in Foremost(runs[r]) : TagOf(runs[r], i) \in releases
    /\ runs' = [runs EXCEPT ![r].stage = "failed"]
    /\ UNCHANGED <<main, tags, releases, merges, early, crashes>>

\* A runner is lost, or GitHub fails it.
Dies(r) ==
    /\ runs[r].stage \in {"queued", "pushing", "tagging", "releasing"}
    /\ crashes < MaxCrashes
    /\ crashes' = crashes + 1
    /\ runs' = [runs EXCEPT ![r].stage = "failed"]
    /\ UNCHANGED <<main, tags, releases, merges, early>>

-----------------------------------------------------------------------------

Proceed(r) ==
    \/ Compute(r) \/ PushMain(r) \/ PushRejected(r) \/ PushTag(r)
    \/ TagRejected(r) \/ CreateRelease(r) \/ ReleaseRejected(r)

ReleaseNext ==
    \/ \E m \in Merges : Merge(m)
    \/ \E r \in DOMAIN runs : Proceed(r) \/ Dies(r) \/ Unconfigured(r)

ReleaseSpec == ReleaseInit /\ [][ReleaseNext]_releaseVars

\* A run that is not lost goes on: GitHub starts and schedules its steps.
ReleaseFairness == WF_releaseVars(\E r \in DOMAIN runs : Proceed(r))

ReleaseFairSpec == ReleaseSpec /\ ReleaseFairness

-----------------------------------------------------------------------------

Ended(run) == run.stage \in {"ended", "failed"}

ReleaseWorthy == {"break", "feat", "fix"}

Between(t, u) == {main[i].type : i \in {i \in t.commit + 1 .. u.commit :
                                           t.package \in main[i].touches}}

\* From one release of a package to a later one the version rises, and by as
\* much as the commits between them ask.
VersionsTellTheChange ==
    \A t, u \in tags : t.package = u.package /\ t.commit < u.commit =>
        /\ Newer(u.version, t.version)
        /\ "break" \in Between(t, u) => u.version[1] > t.version[1]
        /\ "feat" \in Between(t, u) => \/ u.version[1] > t.version[1]
                                       \/ u.version[2] > t.version[2]

\* A Release can be published: the tree at its tag carries its version.
ReleasesResolve == \A t \in releases : resolve(t, main) = "resolved"

Untagged(p) == {i \in DOMAIN main :
                   /\ p \in main[i].touches
                   /\ main[i].type \in ReleaseWorthy
                   /\ ~\E t \in tags : t.package = p /\ t.commit >= i}

\* The runs that releases start die out; and then every release-worthy commit of
\* a package that had a release is under a tag, unless a run was lost or had no
\* credentials.
ReleasesSettle ==
    <>[](/\ \A r \in DOMAIN runs : Ended(runs[r])
         /\ crashes = 0 => \A t \in FirstTags : Untagged(t.package) = {})

\* compute_release_bumps.py:23-25, auto-release.yml:18-20: the run that a
\* release starts computes no further bump.  Not so.
EachReleaseHasWork ==
    \A t \in tags \ FirstTags :
        \E i \in 1 .. t.commit :
            /\ t.package \in main[i].touches
            /\ main[i].type \in ReleaseWorthy
            /\ \A u \in tags : u.package = t.package /\ u.commit < t.commit
                                  => u.commit < i

\* Every version on main of a package that had a release is tagged once the
\* runs have ended.  Not so.
VersionsAreTagged ==
    (\A r \in DOMAIN runs : Ended(runs[r])) =>
        \A i \in DOMAIN main, p \in {t.package : t \in FirstTags} :
            \E t \in tags : t.package = p /\ t.version = main[i].versions[p]

\* A tag gets its GitHub Release once the runs have ended.  Not so.
TagsAreReleased ==
    (\A r \in DOMAIN runs : Ended(runs[r])) => tags \subseteq releases

=============================================================================
