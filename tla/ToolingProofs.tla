--------------------------- MODULE ToolingProofs ---------------------------
(***************************************************************************)
(* What TLAPS proves of RepositoryTooling: the releases, for any packages, *)
(* history, merges and overlapping runs, and the conformance suites, for   *)
(* an engine with any defects and any number of lost calls.                *)
(***************************************************************************)
EXTENDS RepositoryTooling, SequenceTheorems, TLAPS

-----------------------------------------------------------------------------
(* Versions                                                                *)

NoOlder(v, w) == v = w \/ Newer(v, w)

LEMMA NewerIsAnOrder ==
    ASSUME NEW u \in Version, NEW v \in Version, NEW w \in Version
    PROVE  /\ ~Newer(v, v)
           /\ NoOlder(v, w) /\ NoOlder(w, v) => v = w
           /\ NoOlder(u, v) /\ Newer(v, w) => Newer(u, w)
           /\ Newer(u, v) /\ NoOlder(v, w) => Newer(u, w)
           /\ NoOlder(u, v) => u[1] >= v[1] /\ (u[1] = v[1] => u[2] >= v[2])
           /\ ~Newer(v, w) => NoOlder(w, v)
BY DEF Version, Newer, NoOlder

LEMMA BumpsRise ==
    ASSUME NEW v \in Version, NEW kind \in {"major", "minor", "patch"}
    PROVE  /\ apply_bump(v, kind) \in Version
           /\ Newer(apply_bump(v, kind), v)
           /\ kind = "major" => apply_bump(v, kind)[1] > v[1]
           /\ kind = "minor" => apply_bump(v, kind)[2] > v[2]
BY DEF Version, Newer, apply_bump

-----------------------------------------------------------------------------
(* The releases: the inductive invariant                                   *)

Bump == [package : discover_packages,
         kind : {"bootstrap", "major", "minor", "patch"}, version : Version]

Plans == UNION {[D -> Bump] : D \in SUBSET (1 .. Len(Packages))}

ReleaseRun ==
    [base : Nat, plan : Plans \cup {<<>>}, commit : Nat, left : SUBSET Nat,
     stage : {"queued", "pushing", "tagging", "releasing", "ended", "failed"}]

Tag == [package : discover_packages, version : Version, commit : Nat]

\* Types of the releases' state.
ReleaseTypes ==
    /\ main \in Seq(Commit) /\ Len(main) >= 1
    /\ tags \subseteq Tag
    /\ runs \in Seq(ReleaseRun)

OnDisk(i, p) == main[i].versions[p]

\* The version on disk never goes back.
VersionsRise ==
    \A i, j \in 1 .. Len(main) : \A p \in discover_packages :
        i <= j => NoOlder(OnDisk(j, p), OnDisk(i, p))

\* A package without a tag has never been bumped.
BumpsFollowTags ==
    \A p \in discover_packages : \A i \in 1 .. Len(main) :
        OnDisk(i, p) # OnDisk(1, p) => \E t \in tags : t.package = p

\* One of a package's tags has the highest version.
LatestExists ==
    \A p \in discover_packages :
        \/ \A t \in tags : t.package # p
        \/ \E t \in tags : /\ t.package = p
                           /\ \A u \in tags : u.package = p => ~Newer(u.version, t.version)

NamesAreUnique ==
    \A t, u \in tags : t.package = u.package /\ t.version = u.version => t = u

\* A tag is at a commit that carries its version.
TagsAreRight ==
    \A t \in tags : t.commit \in 1 .. Len(main) /\ t.version = OnDisk(t.commit, t.package)

Asked(p, from, to) ==
    {main[k].type : k \in {k \in from + 1 .. to : p \in main[k].touches}}

\* A bump rises above what was on disk by what the commits since some tag ask,
\* a first release repeats what has always been there.
Planned(run, i) ==
    LET b == run.plan[i]
        p == b.package
    IN /\ i \in 1 .. Len(Packages) /\ p = Packages[i]
       /\ \/ /\ b.kind = "bootstrap"
             /\ b.version = OnDisk(run.base, p)
             /\ b.version = OnDisk(1, p)
          \/ /\ b.kind # "bootstrap"
             /\ b.version = apply_bump(OnDisk(run.base, p), b.kind)
             /\ \E s \in tags :
                   /\ s.package = p
                   /\ "break" \in Asked(p, s.commit, run.base) => b.kind = "major"
                   /\ "feat" \in Asked(p, s.commit, run.base) => b.kind \in {"major", "minor"}

\* A run with a plan: what it has pushed, and which tags it has made.
RunInOrder(run) ==
    /\ run.base \in 1 .. Len(main)
    /\ run.stage \in {"pushing", "tagging", "releasing"} =>
          /\ run.left \subseteq DOMAIN run.plan
          /\ run.plan \in Plans
          /\ \A i \in DOMAIN run.plan : Planned(run, i)
    /\ run.stage = "pushing" => run.left = DOMAIN run.plan
    /\ run.stage \in {"tagging", "releasing"} =>
          /\ run.commit \in 1 .. Len(main)
          /\ \A i \in DOMAIN run.plan :
                /\ run.plan[i].version = OnDisk(run.commit, run.plan[i].package)
                /\ run.stage = "releasing" \/ i \notin run.left => TagOf(run, i) \in tags

RunsAreInOrder == \A r \in DOMAIN runs : RunInOrder(runs[r])

\* A Release is of a tag.
ReleasesAreTagged == releases \subseteq tags

\* Tags, and those that a run is about to push.
Marks ==
    tags \cup UNION {{TagOf(runs[r], i) : i \in runs[r].left} :
                        r \in {r \in DOMAIN runs : runs[r].stage = "tagging"}}

Tells(t, u) ==
    /\ Newer(u.version, t.version)
    /\ "break" \in Between(t, u) => u.version[1] > t.version[1]
    /\ "feat" \in Between(t, u) => \/ u.version[1] > t.version[1]
                                   \/ u.version[2] > t.version[2]

\* The remote refuses to have it.
Taken(t) == \E w \in tags : w.package = t.package /\ w.version = t.version /\ w # t

\* Between two marks the versions tell the change, or one of them will be refused.
MarksAgree ==
    \A t, u \in Marks :
        t.package = u.package /\ t.commit < u.commit =>
            Tells(t, u) \/ t.version = u.version \/ Taken(t)

RInv ==
    /\ ReleaseTypes
    /\ VersionsRise
    /\ BumpsFollowTags
    /\ LatestExists
    /\ NamesAreUnique
    /\ TagsAreRight
    /\ RunsAreInOrder
    /\ ReleasesAreTagged
    /\ MarksAgree

-----------------------------------------------------------------------------
(* The history                                                             *)

\* main only grows.
HistoryGrows ==
    /\ main' \in Seq(Commit)
    /\ Len(main') >= Len(main)
    /\ \A k \in 1 .. Len(main) : main'[k] = main[k]

LEMMA HistoryIsKept ==
    ASSUME ReleaseTypes, HistoryGrows, NEW to \in 0 .. Len(main)
    PROVE  /\ \A p : \A k \in 1 .. to : OnDisk(k, p)' = OnDisk(k, p)
           /\ \A p : \A from \in Nat : Asked(p, from, to)' = Asked(p, from, to)
           /\ \A t, u : t.commit \in Nat /\ u.commit = to => Between(t, u)' = Between(t, u)
<1> USE DEF ReleaseTypes, HistoryGrows
<1>1. \A k \in 1 .. to : k \in 1 .. Len(main) /\ main'[k] = main[k]
  OBVIOUS
<1>2. \A from \in Nat : \A k \in from + 1 .. to : k \in 1 .. to
  OBVIOUS
<1>3. ASSUME NEW p, NEW from \in Nat
      PROVE  Asked(p, from, to)' = Asked(p, from, to)
  BY <1>1, <1>2 DEF Asked
<1>4. ASSUME NEW t, NEW u, t.commit \in Nat, u.commit = to
      PROVE  Between(t, u)' = Between(t, u)
  BY <1>1, <1>2, <1>4 DEF Between
<1> QED
  BY <1>1, <1>3, <1>4 DEF OnDisk

LEMMA DiskTypes ==
    ASSUME ReleaseTypes, NEW i \in 1 .. Len(main), NEW p \in discover_packages
    PROVE  OnDisk(i, p) \in Version
<1>1. main[i] \in Commit
  BY ElementOfSeq DEF ReleaseTypes
<1>2. main[i].versions \in [discover_packages -> Version]
  BY <1>1 DEF Commit
<1> QED
  BY <1>2 DEF OnDisk

-----------------------------------------------------------------------------
(* What a run computes                                                     *)

LEMMA LatestIsATag ==
    ASSUME LatestExists, NEW p \in discover_packages,
           \E t \in tags : t.package = p
    PROVE  latest_tag_for(p, tags) \in tags /\ latest_tag_for(p, tags).package = p
<1> DEFINE own == {t \in tags : t.package = p}
<1>1. own # {}
  OBVIOUS
<1>2. \E t \in own : \A u \in own : ~Newer(u.version, t.version)
  BY DEF LatestExists
<1>3. latest_tag_for(p, tags) = CHOOSE t \in own : \A u \in own : ~Newer(u.version, t.version)
  BY <1>1 DEF latest_tag_for
<1>4. latest_tag_for(p, tags) \in own
  BY <1>2, <1>3
<1> QED
  BY <1>4

\* The part of the history a run has checked out.
LEMMA CheckedOut ==
    ASSUME ReleaseTypes, NEW base \in 1 .. Len(main), NEW p \in discover_packages
    PROVE  /\ current_version(p, SubSeq(main, 1, base)) = OnDisk(base, p)
           /\ \A s : s.commit \in Nat =>
                 TypesSince(p, s, SubSeq(main, 1, base)) = Asked(p, s.commit, base)
<1> DEFINE history == SubSeq(main, 1, base)
<1>1. Len(history) = base /\ \A k \in 1 .. base : history[k] = main[k]
  <2>1. \A k \in 1 .. base : main[k] \in Commit
    BY ElementOfSeq DEF ReleaseTypes
  <2>2. /\ Len(history) = base
        /\ \A k \in 1 .. base : history[k] = main[1 + k - 1]
    BY <2>1, SubSeqProperties DEF ReleaseTypes
  <2>3. \A k \in 1 .. base : 1 + k - 1 = k
    OBVIOUS
  <2> QED
    BY <2>2, <2>3
<1>2. current_version(p, history) = OnDisk(base, p)
  BY <1>1 DEF current_version, OnDisk
<1>3. ASSUME NEW s, s.commit \in Nat
      PROVE  TypesSince(p, s, history) = Asked(p, s.commit, base)
  <2>1. \A k \in s.commit + 1 .. base : k \in 1 .. base
    BY <1>3
  <2> HIDE DEF history
  <2> QED
    BY <1>1, <2>1 DEF TypesSince, Asked
<1> QED
  BY <1>2, <1>3

LEMMA PlansAreRight ==
    ASSUME ReleaseTypes, LatestExists, TagsAreRight, BumpsFollowTags,
           NEW base \in 1 .. Len(main),
           NEW i \in DOMAIN Bumps(tags, SubSeq(main, 1, base)),
           NEW run, run.base = base, run.plan = Bumps(tags, SubSeq(main, 1, base))
    PROVE  run.plan[i] \in Bump /\ Planned(run, i)
<1> DEFINE history == SubSeq(main, 1, base)
           p == Packages[i]
           b == BumpOf(p, tags, history)
           since == latest_tag_for(p, tags)
<1>1. i \in 1 .. Len(Packages) /\ p \in discover_packages
      /\ run.plan[i] = b /\ b.kind # "none"
  BY DEF Bumps, discover_packages
<1>2. current_version(p, history) = OnDisk(base, p) /\ OnDisk(base, p) \in Version
  BY <1>1, CheckedOut, DiskTypes
<1> DEFINE kind == bump_kind_for(p, since, history)
<1>3. kind # "none"
  BY <1>1 DEF BumpOf
<1>4. since \in tags => since # NoTag
  BY DEF TagsAreRight, NoTag
<1>5. CASE since = NoTag
  <2>1. b = [package |-> p, kind |-> "bootstrap", version |-> OnDisk(base, p)]
    BY <1>2, <1>3, <1>5 DEF BumpOf
  <2>2. \A t \in tags : t.package # p
    BY <1>1, <1>4, <1>5, LatestIsATag
  <2>3. OnDisk(base, p) = OnDisk(1, p)
    BY <1>1, <2>2 DEF BumpsFollowTags
  <2> HIDE DEF b
  <2> QED
    BY <1>1, <1>2, <2>1, <2>3 DEF Planned, Bump
<1>6. CASE since # NoTag
  <2>1. since \in tags /\ since.package = p
    <3>1. \E t \in tags : t.package = p
      BY <1>6 DEF latest_tag_for
    <3> QED
      BY <1>1, <3>1, LatestIsATag
  <2>2. since.commit \in Nat
    BY <2>1 DEF TagsAreRight
  <2>3. TypesSince(p, since, history) = Asked(p, since.commit, base)
    BY <1>1, <2>2, CheckedOut
  <2>4. /\ kind \in {"major", "minor", "patch"}
        /\ "break" \in Asked(p, since.commit, base) => kind = "major"
        /\ "feat" \in Asked(p, since.commit, base) => kind \in {"major", "minor"}
    <3> DEFINE types == TypesSince(p, since, history)
    <3>1. kind = CASE "break" \in types -> "major"
                   [] "feat" \in types /\ "break" \notin types -> "minor"
                   [] "fix" \in types /\ types \cap {"break", "feat"} = {} -> "patch"
                   [] types \cap {"break", "feat", "fix"} = {} -> "none"
      BY DEF bump_kind_for
    <3> HIDE DEF types, kind
    <3>2. kind \in {"major", "minor", "patch"}
          /\ ("break" \in types => kind = "major")
          /\ ("feat" \in types => kind \in {"major", "minor"})
      BY <1>3, <3>1
    <3> QED
      BY <2>3, <3>2 DEF types
  <2>5. b = [package |-> p, kind |-> kind, version |-> apply_bump(OnDisk(base, p), kind)]
    BY <1>2, <1>3, <1>6 DEF BumpOf
  <2>6. apply_bump(OnDisk(base, p), kind) \in Version
    BY <1>2, <2>4, BumpsRise
  <2> HIDE DEF b, kind, since
  <2> QED
    BY <1>1, <2>1, <2>4, <2>5, <2>6 DEF Planned, Bump
<1> QED
  BY <1>5, <1>6

-----------------------------------------------------------------------------
(* What a step keeps                                                       *)

\* A tag or one that a run is about to push.
Marked(t) ==
    \/ t \in tags
    \/ \E r \in DOMAIN runs : /\ runs[r].stage = "tagging"
                              /\ \E i \in runs[r].left : t = TagOf(runs[r], i)

LEMMA MarksAreMarked == \A t : (t \in Marks <=> Marked(t)) /\ (t \in Marks' <=> Marked(t)')
BY DEF Marks, Marked

LEMMA RunTypes ==
    ASSUME ReleaseTypes, NEW r \in DOMAIN runs
    PROVE  runs[r] \in ReleaseRun /\ r \in 1 .. Len(runs)
BY ElementOfSeq DEF ReleaseTypes

LEMMA MarksAreRight ==
    ASSUME ReleaseTypes, TagsAreRight, RunsAreInOrder, NEW t \in Marks
    PROVE  /\ t.commit \in 1 .. Len(main) /\ t.package \in discover_packages
           /\ t.version = OnDisk(t.commit, t.package)
<1>1. CASE t \in tags
  BY <1>1 DEF ReleaseTypes, Tag, TagsAreRight
<1>2. ASSUME NEW r \in DOMAIN runs, runs[r].stage = "tagging",
             NEW i \in runs[r].left, t = TagOf(runs[r], i)
      PROVE  /\ t.commit \in 1 .. Len(main) /\ t.package \in discover_packages
             /\ t.version = OnDisk(t.commit, t.package)
  <2>1. /\ i \in DOMAIN runs[r].plan /\ Planned(runs[r], i)
        /\ runs[r].commit \in 1 .. Len(main)
        /\ runs[r].plan[i].version = OnDisk(runs[r].commit, runs[r].plan[i].package)
    BY <1>2 DEF RunsAreInOrder, RunInOrder
  <2>2. runs[r].plan[i].package \in discover_packages
    BY <2>1 DEF Planned, discover_packages
  <2> QED
    BY <1>2, <2>1, <2>2 DEF TagOf
<1> QED
  BY <1>1, <1>2, MarksAreMarked DEF Marked

LEMMA MarksShrink ==
    ASSUME ReleaseTypes, TagsAreRight, RunsAreInOrder, MarksAgree,
           HistoryGrows, tags \subseteq tags', Marks' \subseteq Marks
    PROVE  MarksAgree'
<1> SUFFICES ASSUME NEW t \in Marks', NEW u \in Marks',
                    t.package = u.package, t.commit < u.commit
             PROVE  Tells(t, u)' \/ t.version = u.version \/ Taken(t)'
  BY DEF MarksAgree
<1>1. t \in Marks /\ u \in Marks
  OBVIOUS
<1>2. t.commit \in 1 .. Len(main) /\ u.commit \in 1 .. Len(main)
  BY <1>1, MarksAreRight
<1>3. Between(t, u)' = Between(t, u)
  <2>1. u.commit \in 0 .. Len(main) /\ t.commit \in Nat
    BY <1>2
  <2> QED
    BY <2>1, HistoryIsKept
<1>4. Tells(t, u) => Tells(t, u)'
  BY <1>3 DEF Tells
<1>5. Taken(t) => Taken(t)'
  BY DEF Taken
<1> QED
  BY <1>1, <1>4, <1>5 DEF MarksAgree

LEMMA RunsStayInOrder ==
    ASSUME ReleaseTypes, TagsAreRight, HistoryGrows, tags \subseteq tags',
           NEW run \in ReleaseRun, RunInOrder(run)
    PROVE  RunInOrder(run)'
<1> USE DEF HistoryGrows
<1>1. \A k \in 1 .. Len(main) : k \in 1 .. Len(main')
  BY DEF ReleaseTypes
<1>2. \A k \in 1 .. Len(main) : \A p : OnDisk(k, p)' = OnDisk(k, p)
  BY DEF OnDisk
<1>3. 1 \in 1 .. Len(main)
  BY DEF ReleaseTypes
<1>4. run.base \in 1 .. Len(main)
  BY DEF RunInOrder
<1>5. \A s \in tags : \A p : Asked(p, s.commit, run.base)' = Asked(p, s.commit, run.base)
  <2>1. run.base \in 0 .. Len(main) /\ \A s \in tags : s.commit \in Nat
    BY <1>4 DEF TagsAreRight
  <2> QED
    BY <2>1, HistoryIsKept
<1>6. \A i : Planned(run, i) => Planned(run, i)'
  BY <1>2, <1>3, <1>4, <1>5 DEF Planned
<1> QED
  BY <1>1, <1>2, <1>4, <1>6 DEF RunInOrder

\* A step of a run that changes neither main nor the tags.
LEMMA RunsOn ==
    ASSUME RInv, UNCHANGED <<main, tags>>, releases' \subseteq tags,
           NEW r \in DOMAIN runs, NEW run \in ReleaseRun, RunInOrder(run),
           runs' = [runs EXCEPT ![r] = run],
           run.stage = "tagging" => runs[r].stage = "tagging",
           run.stage = "tagging" => run = runs[r]
    PROVE  RInv'
<1> USE DEF RInv
<1>1. r \in 1 .. Len(runs) /\ runs \in Seq(ReleaseRun)
  BY RunTypes DEF ReleaseTypes
<1>2. /\ runs' \in Seq(ReleaseRun) /\ Len(runs') = Len(runs)
      /\ runs'[r] = run
      /\ \A q \in DOMAIN runs' : q \in DOMAIN runs /\ (q # r => runs'[q] = runs[q])
  BY <1>1, ExceptSeq
<1>3. ReleaseTypes' /\ HistoryGrows
  BY <1>2 DEF ReleaseTypes, HistoryGrows
<1>4. \A i, p : OnDisk(i, p)' = OnDisk(i, p)
  BY DEF OnDisk
<1>5. VersionsRise' /\ BumpsFollowTags' /\ LatestExists' /\ NamesAreUnique' /\ TagsAreRight'
  BY <1>4 DEF VersionsRise, BumpsFollowTags, LatestExists, NamesAreUnique, TagsAreRight
<1>6. RunsAreInOrder'
  <2>1. \A x \in ReleaseRun : RunInOrder(x) => RunInOrder(x)'
    BY <1>3, RunsStayInOrder
  <2>2. \A q \in DOMAIN runs' : \E x \in ReleaseRun : x = runs'[q] /\ RunInOrder(x)
    BY <1>2, RunTypes DEF RunsAreInOrder
  <2> QED
    BY <2>1, <2>2 DEF RunsAreInOrder
<1>7. Marks' \subseteq Marks
  BY <1>2, MarksAreMarked DEF Marked
<1>8. MarksAgree'
  BY <1>3, <1>7, MarksShrink
<1> QED
  BY <1>3, <1>5, <1>6, <1>8 DEF ReleasesAreTagged

-----------------------------------------------------------------------------
(* The steps                                                               *)

LEMMA ComputeKeeps ==
    ASSUME RInv, NEW r \in DOMAIN runs, Compute(r)
    PROVE  RInv'
<1> DEFINE bumps == Bumps(tags, SubSeq(main, 1, runs[r].base))
           next == IF DOMAIN bumps = {} THEN "ended" ELSE "pushing"
           run == [runs[r] EXCEPT !.stage = next, !.plan = bumps, !.left = DOMAIN bumps]
<1>1. runs[r] \in ReleaseRun /\ runs[r].base \in 1 .. Len(main)
  BY RunTypes DEF RInv, RunsAreInOrder, RunInOrder
<1>2. run.base = runs[r].base /\ run.plan = bumps /\ run.left = DOMAIN bumps
      /\ run.stage = next /\ next \in {"ended", "pushing"}
  BY <1>1 DEF ReleaseRun
<1>3. \A i \in DOMAIN bumps : bumps[i] \in Bump /\ Planned(run, i)
  BY <1>1, <1>2, PlansAreRight DEF RInv
<1>4. bumps \in Plans /\ DOMAIN bumps \in SUBSET Nat
  <2>1. DOMAIN bumps \in SUBSET (1 .. Len(Packages))
        /\ bumps = [i \in DOMAIN bumps |-> bumps[i]]
    BY DEF Bumps
  <2> HIDE DEF bumps
  <2>2. bumps \in [DOMAIN bumps -> Bump]
    BY <1>3, <2>1
  <2>3. \A i \in 1 .. Len(Packages) : i \in Nat
    OBVIOUS
  <2> QED
    BY <2>1, <2>2, <2>3 DEF Plans
<1> HIDE DEF bumps
<1>5. run \in ReleaseRun
  BY <1>1, <1>4 DEF ReleaseRun
<1>6. /\ runs' = [runs EXCEPT ![r] = run]
      /\ UNCHANGED <<main, tags, releases>>
  BY DEF Compute, bumps
<1> HIDE DEF run, next
<1>7. RunInOrder(run)
  BY <1>1, <1>2, <1>3, <1>4 DEF RunInOrder
<1> QED
  BY <1>2, <1>5, <1>6, <1>7, RunsOn DEF RInv, ReleasesAreTagged

\* A run that is over asks for nothing.
LEMMA FailureKeeps ==
    ASSUME RInv, NEW r \in DOMAIN runs, UNCHANGED <<main, tags, releases>>,
           NEW over \in {"failed", "ended"}, runs' = [runs EXCEPT ![r].stage = over]
    PROVE  RInv'
<1> DEFINE run == [runs[r] EXCEPT !.stage = over]
<1>1. runs[r] \in ReleaseRun /\ RunInOrder(runs[r])
  BY RunTypes DEF RInv, RunsAreInOrder
<1>2. run \in ReleaseRun /\ run.base = runs[r].base /\ run.stage = over
  BY <1>1 DEF ReleaseRun
<1>3. RunInOrder(run)
  BY <1>1, <1>2 DEF RunInOrder
<1> QED
  BY <1>2, <1>3, RunsOn DEF RInv, ReleasesAreTagged

LEMMA CreateReleaseKeeps ==
    ASSUME RInv, NEW r \in DOMAIN runs, CreateRelease(r)
    PROVE  RInv'
<1>1. PICK i \in Foremost(runs[r]) :
         /\ releases' = releases \cup {TagOf(runs[r], i)}
         /\ runs' = Advanced(r, i, "ended")
  BY DEF CreateRelease
<1>2. runs[r] \in ReleaseRun /\ RunInOrder(runs[r]) /\ runs[r].stage = "releasing"
  BY RunTypes DEF RInv, RunsAreInOrder, CreateRelease
<1>3. i \in DOMAIN runs[r].plan /\ TagOf(runs[r], i) \in tags
  BY <1>2 DEF RunInOrder, Foremost
<1>4. UNCHANGED <<main, tags>> /\ releases' \subseteq tags
  BY <1>1, <1>3 DEF RInv, ReleasesAreTagged, CreateRelease
<1>5. CASE runs[r].left = {i}
  <2> DEFINE run == [runs[r] EXCEPT !.left = DOMAIN runs[r].plan, !.stage = "ended"]
  <2>1. DOMAIN runs[r].plan \in SUBSET Nat
    BY <1>2 DEF RunInOrder, Planned
  <2>2. run \in ReleaseRun /\ run.base = runs[r].base /\ run.stage = "ended"
    BY <1>2, <2>1 DEF ReleaseRun
  <2>3. RunInOrder(run)
    BY <1>2, <2>2 DEF RunInOrder
  <2>4. runs' = [runs EXCEPT ![r] = run]
    BY <1>1, <1>5 DEF Advanced
  <2> QED
    BY <1>4, <2>2, <2>3, <2>4, RunsOn
<1>6. CASE runs[r].left # {i}
  <2> DEFINE run == [runs[r] EXCEPT !.left = @ \ {i}]
  <2>1. /\ run \in ReleaseRun /\ run.base = runs[r].base /\ run.stage = "releasing"
        /\ run.plan = runs[r].plan /\ run.commit = runs[r].commit
        /\ run.left = runs[r].left \ {i}
    BY <1>2 DEF ReleaseRun
  <2>2. RunInOrder(run)
    BY <1>2, <2>1 DEF RunInOrder, Planned, TagOf
  <2>3. runs' = [runs EXCEPT ![r] = run]
    BY <1>1, <1>6 DEF Advanced
  <2> QED
    BY <1>4, <2>1, <2>2, <2>3, RunsOn
<1> QED
  BY <1>5, <1>6

\* A commit on main that takes no version back and bumps only what has a tag.
LEMMA CommitKeeps ==
    ASSUME RInv, NEW c \in Commit, main' = Append(main, c), UNCHANGED <<tags, releases>>,
           \A p \in discover_packages :
              /\ NoOlder(c.versions[p], OnDisk(Len(main), p))
              /\ c.versions[p] # OnDisk(Len(main), p) => \E t \in tags : t.package = p
    PROVE  /\ main' \in Seq(Commit) /\ Len(main') = Len(main) + 1
           /\ \A k, p : k = Len(main) + 1 => OnDisk(k, p)' = c.versions[p]
           /\ main'[Len(main) + 1] = c
           /\ HistoryGrows
           /\ VersionsRise' /\ BumpsFollowTags' /\ LatestExists'
           /\ NamesAreUnique' /\ TagsAreRight' /\ ReleasesAreTagged'
<1> USE DEF RInv
<1> DEFINE n == Len(main)
<1>1. /\ main \in Seq(Commit) /\ n \in Nat /\ n >= 1
      /\ main' \in Seq(Commit) /\ Len(main') = n + 1 /\ main'[n + 1] = c
      /\ \A k \in 1 .. n : main'[k] = main[k]
  BY AppendProperties DEF ReleaseTypes
<1>2. HistoryGrows
  BY <1>1 DEF HistoryGrows
<1>3. /\ \A k \in 1 .. n : \A p : OnDisk(k, p)' = OnDisk(k, p)
      /\ \A k, p : k = n + 1 => OnDisk(k, p)' = c.versions[p]
  BY <1>1 DEF OnDisk
<1>4. \A k \in 1 .. Len(main') : k \in 1 .. n \/ k = n + 1
  BY <1>1
<1>5. \A p \in discover_packages : \A k \in 1 .. n :
         OnDisk(k, p) \in Version /\ c.versions[p] \in Version
  BY DiskTypes DEF Commit
<1>6. VersionsRise'
  <2> SUFFICES ASSUME NEW i \in 1 .. Len(main'), NEW j \in 1 .. Len(main'),
                      NEW p \in discover_packages, i <= j
               PROVE  NoOlder(OnDisk(j, p), OnDisk(i, p))'
    BY DEF VersionsRise
  <2>1. CASE j \in 1 .. n
    BY <1>1, <1>3, <2>1 DEF VersionsRise
  <2>2. CASE j = n + 1 /\ i = n + 1
    BY <2>2 DEF NoOlder
  <2>3. CASE j = n + 1 /\ i \in 1 .. n
    <3>1. NoOlder(OnDisk(n, p), OnDisk(i, p)) /\ NoOlder(c.versions[p], OnDisk(n, p))
      BY <1>1, <2>3 DEF VersionsRise
    <3>2. NoOlder(c.versions[p], OnDisk(i, p))
      <4>1. n \in 1 .. n
        BY <1>1
      <4> QED
        BY <3>1, <4>1, <1>5, <2>3, NewerIsAnOrder DEF NoOlder
    <3> QED
      BY <1>3, <2>3, <3>2 DEF NoOlder, Newer
  <2> QED
    BY <1>4, <2>1, <2>2, <2>3
<1>7. BumpsFollowTags'
  <2> SUFFICES ASSUME NEW p \in discover_packages, NEW i \in 1 .. Len(main'),
                      OnDisk(i, p)' # OnDisk(1, p)'
               PROVE  \E t \in tags : t.package = p
    BY DEF BumpsFollowTags
  <2>1. 1 \in 1 .. n /\ n \in 1 .. n
    BY <1>1
  <2>2. OnDisk(1, p)' = OnDisk(1, p)
    BY <1>3, <2>1
  <2>3. i \in 1 .. n \/ i = n + 1
    BY <1>4
  <2> QED
    BY <1>3, <2>1, <2>2, <2>3 DEF BumpsFollowTags
<1>8. LatestExists' /\ NamesAreUnique' /\ ReleasesAreTagged'
  BY DEF LatestExists, NamesAreUnique, ReleasesAreTagged
<1>9. TagsAreRight'
  BY <1>1, <1>3 DEF TagsAreRight
<1> QED
  BY <1>1, <1>2, <1>3, <1>6, <1>7, <1>8, <1>9

LEMMA NewRun ==
    ASSUME ReleaseTypes', NEW base \in 1 .. Len(main')
    PROVE  Run(base) \in ReleaseRun /\ RunInOrder(Run(base))'
BY DEF Run, ReleaseRun, RunInOrder, ReleaseTypes

LEMMA MergeKeeps ==
    ASSUME RInv, NEW m \in Merges, Merge(m)
    PROVE  RInv'
<1> USE DEF RInv
<1> DEFINE n == Len(main)
           c == [type |-> m.type, touches |-> m.touches, versions |-> main[n].versions]
<1>1. n \in 1 .. n /\ n \in Nat /\ main[n] \in Commit
  BY ElementOfSeq DEF ReleaseTypes
<1>2. c \in Commit
  BY <1>1, ReleaseAssumption DEF Commit
<1>3. main' = Append(main, c) /\ UNCHANGED <<tags, releases>>
      /\ runs' = Append(runs, Run(n + 1))
  BY DEF Merge
<1>4. \A p : c.versions[p] = OnDisk(n, p)
  BY DEF OnDisk
<1> HIDE DEF c
<1>5. /\ main' \in Seq(Commit) /\ Len(main') = n + 1
      /\ HistoryGrows
      /\ VersionsRise' /\ BumpsFollowTags' /\ LatestExists'
      /\ NamesAreUnique' /\ TagsAreRight' /\ ReleasesAreTagged'
  BY <1>2, <1>3, <1>4, CommitKeeps DEF NoOlder
<1>6. Run(n + 1) \in ReleaseRun
  BY <1>1 DEF Run, ReleaseRun
<1>7. /\ runs' \in Seq(ReleaseRun)
      /\ \A q \in DOMAIN runs' : \/ q \in DOMAIN runs /\ runs'[q] = runs[q]
                                 \/ runs'[q] = Run(n + 1)
  BY <1>3, <1>6, AppendProperties DEF ReleaseTypes
<1>8. ReleaseTypes'
  BY <1>1, <1>3, <1>5, <1>7 DEF ReleaseTypes
<1>9. RunsAreInOrder'
  <2>1. \A x \in ReleaseRun : RunInOrder(x) => RunInOrder(x)'
    BY <1>3, <1>5, RunsStayInOrder
  <2>2. \A q \in DOMAIN runs : runs[q] \in ReleaseRun /\ RunInOrder(runs[q])
    BY RunTypes DEF RunsAreInOrder
  <2>3. \A x : x = Run(n + 1) => RunInOrder(x)'
    <3>1. \A base \in 1 .. Len(main') : \A x : x = Run(base) => RunInOrder(x)'
      BY <1>8, NewRun
    <3>2. n + 1 \in 1 .. Len(main')
      BY <1>1, <1>5
    <3> QED
      BY <3>1, <3>2
  <2>4. \A q \in DOMAIN runs' : \E x \in ReleaseRun : x = runs'[q] /\ RunInOrder(x)'
    BY <1>6, <1>7, <2>1, <2>2, <2>3
  <2> QED
    BY <2>4 DEF RunsAreInOrder
<1>10. Marks' \subseteq Marks
  BY <1>3, <1>7, MarksAreMarked DEF Marked, Run
<1>11. MarksAgree'
  BY <1>3, <1>5, <1>10, MarksShrink
<1> QED
  BY <1>5, <1>8, <1>9, <1>11

\* The version that a plan gives a package.
LEMMA PlanRises ==
    ASSUME ReleaseTypes, TagsAreRight, NEW run, run.base \in 1 .. Len(main),
           run.plan \in Plans, NEW i \in DOMAIN run.plan, Planned(run, i)
    PROVE  LET b == run.plan[i]
               old == OnDisk(run.base, b.package)
           IN /\ b \in Bump /\ old \in Version
              /\ NoOlder(b.version, old)
              /\ b.kind # "bootstrap" =>
                    /\ Newer(b.version, old)
                    /\ b.kind = "major" => b.version[1] > old[1]
                    /\ b.kind = "minor" => b.version[1] = old[1] /\ b.version[2] > old[2]
                    /\ \E t \in tags : t.package = b.package
<1> DEFINE b == run.plan[i]
           old == OnDisk(run.base, b.package)
<1>1. b \in Bump
  BY DEF Plans
<1>2. old \in Version
  BY <1>1, DiskTypes DEF Bump
<1>3. CASE b.kind = "bootstrap"
  BY <1>1, <1>2, <1>3 DEF Planned, NoOlder
<1>4. CASE b.kind # "bootstrap"
  <2>1. b.kind \in {"major", "minor", "patch"} /\ b.version = apply_bump(old, b.kind)
        /\ \E t \in tags : t.package = b.package
    BY <1>1, <1>4 DEF Bump, Planned
  <2>2. /\ Newer(b.version, old)
        /\ b.kind = "major" => b.version[1] > old[1]
        /\ b.kind = "minor" => b.version[2] > old[2]
    BY <1>2, <2>1, BumpsRise
  <2>3. b.kind = "minor" => b.version[1] = old[1]
    BY <2>1 DEF apply_bump
  <2> QED
    BY <1>1, <1>2, <1>4, <2>1, <2>2, <2>3 DEF NoOlder
<1> QED
  BY <1>1, <1>3, <1>4

LEMMA PlansAreOfPackages ==
    ASSUME NEW run, NEW i \in DOMAIN run.plan, NEW j \in DOMAIN run.plan,
           Planned(run, i), Planned(run, j), run.plan[i].package = run.plan[j].package
    PROVE  i = j
BY PackagesAssumption DEF Planned

\* A mark and what a plan made of the whole of main gives its package: the
\* version tells the change since the tag it was computed from, and the marks
\* agree up to that one.
LEMMA PlanTells ==
    ASSUME RInv, NEW run, run.base = Len(main), run.plan \in Plans,
           NEW i \in DOMAIN run.plan, Planned(run, i),
           NEW t \in Marks, t.package = run.plan[i].package
    PROVE  LET v == run.plan[i].version
               asked == Asked(t.package, t.commit, run.base)
           IN \/ t.version = v
              \/ Taken(t)
              \/ /\ run.plan[i].kind # "bootstrap"
                 /\ Newer(v, t.version)
                 /\ "break" \in asked => v[1] > t.version[1]
                 /\ "feat" \in asked => v[1] > t.version[1] \/ v[2] > t.version[2]
<1> USE DEF RInv
<1> DEFINE p == t.package
           n == Len(main)
           b == run.plan[i]
           v == b.version
           old == OnDisk(n, p)
           asked == Asked(p, t.commit, n)
<1>1. n \in 1 .. n /\ 1 \in 1 .. n /\ n \in Nat
  BY DEF ReleaseTypes
<1>2. /\ t.commit \in 1 .. n /\ p \in discover_packages
      /\ t.version = OnDisk(t.commit, p)
  BY MarksAreRight
<1>3. /\ v \in Version /\ old \in Version /\ t.version \in Version
      /\ b.package = p /\ b.kind \in {"bootstrap", "major", "minor", "patch"}
  BY <1>1, <1>2, PlanRises, DiskTypes DEF Bump
<1>4. NoOlder(old, t.version) /\ NoOlder(t.version, OnDisk(1, p))
  BY <1>1, <1>2 DEF VersionsRise
<1>5. CASE b.kind = "bootstrap"
  <2>1. v = old /\ v = OnDisk(1, p)
    BY <1>3, <1>5 DEF Planned
  <2>2. t.version = v
    BY <1>3, <1>4, <2>1, NewerIsAnOrder
  <2> QED
    BY <2>2
<1>6. CASE b.kind # "bootstrap"
  <2>1. /\ Newer(v, old)
        /\ b.kind = "major" => v[1] > old[1]
        /\ b.kind = "minor" => v[1] = old[1] /\ v[2] > old[2]
    BY <1>1, <1>3, <1>6, PlanRises
  <2>2. PICK s \in tags :
           /\ s.package = p
           /\ "break" \in Asked(p, s.commit, n) => b.kind = "major"
           /\ "feat" \in Asked(p, s.commit, n) => b.kind \in {"major", "minor"}
    BY <1>3, <1>6 DEF Planned
  <2>3. s \in Marks /\ s.commit \in 1 .. n /\ s.version = OnDisk(s.commit, p)
        /\ s.version \in Version
    BY <1>2, <2>2, DiskTypes DEF Marks, TagsAreRight
  <2>4. NoOlder(old, s.version)
    BY <1>1, <1>2, <2>3 DEF VersionsRise
  <2>5. Newer(v, t.version) /\ Newer(v, s.version)
    BY <1>3, <1>4, <2>1, <2>3, <2>4, NewerIsAnOrder
  <2>6. \A w \in {t.version, s.version} :
           /\ "break" \in Asked(p, s.commit, n) => v[1] > w[1]
           /\ "feat" \in Asked(p, s.commit, n) => v[1] > w[1] \/ v[2] > w[2]
           /\ v[1] >= w[1] /\ (v[1] = w[1] => v[2] >= w[2])
    <3>1. \A w \in {t.version, s.version} :
             w \in Version /\ old[1] >= w[1] /\ (old[1] = w[1] => old[2] >= w[2])
      BY <1>3, <1>4, <2>3, <2>4, NewerIsAnOrder
    <3>2. v[1] >= old[1] /\ (v[1] = old[1] => v[2] >= old[2])
      BY <1>3, <2>1, NewerIsAnOrder DEF NoOlder
    <3>3. \A w \in Version : w[1] \in Nat /\ w[2] \in Nat
      BY DEF Version
    <3> TAKE w \in {t.version, s.version}
    <3>4. old[1] >= w[1] /\ (old[1] = w[1] => old[2] >= w[2])
      BY <3>1
    <3>5. /\ v[1] \in Nat /\ v[2] \in Nat /\ old[1] \in Nat /\ old[2] \in Nat
          /\ w[1] \in Nat /\ w[2] \in Nat
      BY <1>3, <3>1, <3>3
    <3>6. v[1] >= w[1] /\ (v[1] = w[1] => v[2] >= w[2])
      BY <3>2, <3>4, <3>5
    <3>7. b.kind = "major" => v[1] > w[1]
      BY <2>1, <3>4, <3>5
    <3>8. b.kind = "minor" => v[1] > w[1] \/ v[2] > w[2]
      BY <2>1, <3>4, <3>5
    <3> QED
      BY <2>2, <3>6, <3>7, <3>8
  <2>7. CASE t.commit >= s.commit
    <3>1. asked \subseteq Asked(p, s.commit, n)
      BY <1>2, <2>3, <2>7 DEF Asked
    <3> QED
      BY <1>6, <2>5, <2>6, <3>1
  <2>8. CASE t.commit < s.commit
    <3>1. Tells(t, s) \/ t.version = s.version \/ Taken(t)
      BY <2>2, <2>3, <2>8 DEF MarksAgree
    <3>2. CASE t.version = s.version
      BY <1>2, <2>2, <2>3, <2>8, <3>2 DEF Taken
    <3>3. CASE Tells(t, s)
      <4>1. \A type \in asked : type \in Between(t, s) \/ type \in Asked(p, s.commit, n)
        BY <1>2, <2>3 DEF Between, Asked
      <4>2. /\ "break" \in Between(t, s) => s.version[1] > t.version[1]
            /\ "feat" \in Between(t, s) => \/ s.version[1] > t.version[1]
                                           \/ s.version[2] > t.version[2]
            /\ NoOlder(s.version, t.version)
        BY <3>3 DEF Tells, NoOlder
      <4>3. s.version[1] >= t.version[1]
        BY <1>3, <2>3, <4>2, NewerIsAnOrder
      <4>4. \A w \in {v, t.version, s.version} : w[1] \in Nat /\ w[2] \in Nat
        BY <1>3, <2>3 DEF Version
      <4>5. "break" \in asked => v[1] > t.version[1]
        BY <2>6, <4>1, <4>2, <4>3, <4>4
      <4>6. "feat" \in asked => v[1] > t.version[1] \/ v[2] > t.version[2]
        BY <2>6, <4>1, <4>2, <4>3, <4>4
      <4> QED
        BY <1>6, <2>5, <4>5, <4>6
    <3> QED
      BY <3>1, <3>2, <3>3
  <2> QED
    BY <1>2, <2>3, <2>7, <2>8
<1> QED
  BY <1>5, <1>6

\* The commit that a run pushes carries the versions of its plan.
LEMMA PushedCommit ==
    ASSUME RInv, NEW run, run.base = Len(main), run.plan \in Plans,
           \A i \in DOMAIN run.plan : Planned(run, i)
    PROVE  LET c == ReleaseCommit(run)
           IN /\ c \in Commit /\ c.type = "chore"
              /\ \A i \in DOMAIN run.plan :
                    c.versions[run.plan[i].package] = run.plan[i].version
              /\ \A p \in discover_packages :
                    /\ NoOlder(c.versions[p], OnDisk(Len(main), p))
                    /\ c.versions[p] # OnDisk(Len(main), p) => \E t \in tags : t.package = p
<1> USE DEF RInv
<1> DEFINE n == Len(main)
           plans == run.plan
           disk == main[n].versions
           c == ReleaseCommit(run)
           Of(p) == {i \in DOMAIN plans : plans[i].package = p}
<1>1. n \in 1 .. n /\ main[n] \in Commit
  BY ElementOfSeq DEF ReleaseTypes
<1>2. disk \in [discover_packages -> Version] /\ \A p : disk[p] = OnDisk(n, p)
  BY <1>1 DEF Commit, OnDisk
<1>3. \A i \in DOMAIN plans :
         /\ plans[i] \in Bump
         /\ NoOlder(plans[i].version, OnDisk(n, plans[i].package))
         /\ plans[i].kind # "bootstrap" => \E t \in tags : t.package = plans[i].package
         /\ plans[i].kind = "bootstrap" => plans[i].version = OnDisk(n, plans[i].package)
  BY <1>1, PlanRises DEF Planned
<1>4. /\ c.type = "chore" /\ c.versions = Written(plans, disk)
      /\ c.touches \subseteq discover_packages
      /\ c = [type |-> c.type, touches |-> c.touches, versions |-> c.versions]
  BY <1>3 DEF ReleaseCommit, Bump
<1>5. \A p \in discover_packages :
         \/ Of(p) = {} /\ c.versions[p] = disk[p]
         \/ \E i \in Of(p) : c.versions[p] = plans[i].version
  <2> TAKE p \in discover_packages
  <2>1. c.versions[p] = IF \E i \in DOMAIN plans : plans[i].package = p
                        THEN plans[CHOOSE i \in DOMAIN plans : plans[i].package = p].version
                        ELSE disk[p]
    BY <1>2, <1>4 DEF Written
  <2> QED
    BY <2>1
<1>6. \A i \in DOMAIN plans : c.versions[plans[i].package] = plans[i].version
  BY <1>3, <1>5, PlansAreOfPackages DEF Bump
<1>7. \A p \in discover_packages :
         /\ c.versions[p] \in Version
         /\ NoOlder(c.versions[p], OnDisk(n, p))
         /\ c.versions[p] # OnDisk(n, p) => \E t \in tags : t.package = p
  BY <1>2, <1>3, <1>5 DEF NoOlder, Bump
<1>8. c.versions = [p \in discover_packages |-> c.versions[p]]
  BY <1>2, <1>4 DEF Written
<1>9. c.versions \in [discover_packages -> Version]
  <2> HIDE DEF c
  <2> QED
    BY <1>7, <1>8
<1>10. c \in Commit
  <2> HIDE DEF c
  <2> QED
    BY <1>4, <1>9 DEF Commit, CommitType
<1> QED
  BY <1>4, <1>6, <1>7, <1>10

\* What the push of a plan marks: tags to be at the last commit.
LEMMA PlanMarks ==
    ASSUME RInv, NEW run, run.base = Len(main), run.plan \in Plans,
           NEW i \in DOMAIN run.plan, Planned(run, i),
           NEW t \in Marks, NEW u, u.package = run.plan[i].package,
           u.version = run.plan[i].version, u.commit = Len(main'),
           t.package = u.package, t.commit < u.commit, tags' = tags,
           \/ main' = main /\ run.plan[i].kind = "bootstrap"
           \/ \E c \in Commit : c.type = "chore" /\ main' = Append(main, c)
    PROVE  Tells(t, u)' \/ t.version = u.version \/ Taken(t)'
<1> DEFINE n == Len(main)
           asked == Asked(t.package, t.commit, n)
<1>1. /\ t.commit \in 1 .. n /\ n \in Nat /\ main \in Seq(Commit)
  BY MarksAreRight DEF RInv, ReleaseTypes
<1>2. Taken(t)' = Taken(t)
  BY DEF Taken
<1>3. \/ t.version = u.version
      \/ Taken(t)
      \/ /\ run.plan[i].kind # "bootstrap"
         /\ Newer(u.version, t.version)
         /\ "break" \in asked => u.version[1] > t.version[1]
         /\ "feat" \in asked => \/ u.version[1] > t.version[1]
                                \/ u.version[2] > t.version[2]
  BY PlanTells
<1>4. ASSUME NEW c \in Commit, c.type = "chore", main' = Append(main, c)
      PROVE  \A type \in Between(t, u)' : type \in asked \/ type = "chore"
  <2>1. /\ Len(main') = n + 1 /\ main'[n + 1] = c
        /\ \A k \in 1 .. n : main'[k] = main[k]
    BY <1>1, <1>4, AppendProperties
  <2>2. ASSUME NEW k \in t.commit + 1 .. u.commit, t.package \in main'[k].touches
        PROVE  main'[k].type \in asked \/ main'[k].type = "chore"
    <3>1. (k \in t.commit + 1 .. n /\ k \in 1 .. n) \/ k = n + 1
      BY <1>1, <2>1
    <3> QED
      BY <1>4, <2>1, <2>2, <3>1 DEF Asked
  <2> QED
    BY <2>2 DEF Between
<1>5. CASE t.version = u.version \/ Taken(t)
  BY <1>2, <1>5
<1>6. CASE /\ run.plan[i].kind # "bootstrap"
           /\ Newer(u.version, t.version)
           /\ "break" \in asked => u.version[1] > t.version[1]
           /\ "feat" \in asked => \/ u.version[1] > t.version[1]
                                  \/ u.version[2] > t.version[2]
  <2>1. \A type \in Between(t, u)' : type \in asked \/ type = "chore"
    BY <1>4, <1>6
  <2> HIDE DEF asked
  <2> QED
    BY <1>6, <2>1 DEF Tells
<1> QED
  BY <1>3, <1>5, <1>6

\* What is left to show of the push of a plan, once main is known.
LEMMA PushKeeps ==
    ASSUME RInv, NEW r \in DOMAIN runs, runs[r].stage = "pushing", runs[r].base = Len(main),
           UNCHANGED <<tags, releases>>, HistoryGrows,
           VersionsRise', BumpsFollowTags', LatestExists', NamesAreUnique',
           TagsAreRight', ReleasesAreTagged',
           NEW run \in ReleaseRun, run.base = Len(main), run.plan = runs[r].plan,
           run.left = runs[r].left, run.stage = "tagging", run.commit = Len(main'),
           runs' \in Seq(ReleaseRun),
           \A q \in DOMAIN runs' :
              \/ q = r /\ runs'[q] = run
              \/ q # r /\ q \in DOMAIN runs /\ runs'[q] = runs[q]
              \/ \E base \in 1 .. Len(main') : runs'[q] = Run(base),
           \A i \in DOMAIN run.plan :
              /\ \A k : k = Len(main') => OnDisk(k, run.plan[i].package)' = run.plan[i].version
              /\ \/ main' = main /\ run.plan[i].kind = "bootstrap"
                 \/ \E c \in Commit : c.type = "chore" /\ main' = Append(main, c)
    PROVE  RInv'
<1> USE DEF RInv
<1>1. runs[r] \in ReleaseRun /\ RunInOrder(runs[r])
  BY RunTypes DEF RunsAreInOrder
<1>2. /\ Len(main) \in Nat /\ Len(main) >= 1 /\ Len(main') \in Nat /\ Len(main') >= Len(main)
      /\ main' \in Seq(Commit)
  BY DEF ReleaseTypes, HistoryGrows
<1>4. /\ run.base \in 1 .. Len(main) /\ run.plan \in Plans
      /\ run.left = DOMAIN run.plan
      /\ \A i \in DOMAIN run.plan : Planned(runs[r], i) /\ Planned(run, i)
  BY <1>1 DEF RunInOrder, Planned
<1>5. ReleaseTypes'
  BY <1>2 DEF ReleaseTypes
<1>6. RunInOrder(run)'
  <2>1. \A i \in DOMAIN run.plan : Planned(run, i)'
    <3>1. PICK x : x = runs[r]
      OBVIOUS
    <3>2. RunInOrder(x)'
      BY <1>1, <3>1, RunsStayInOrder
    <3>3. \A i \in DOMAIN run.plan : Planned(x, i)'
      BY <3>1, <3>2 DEF RunInOrder
    <3>4. run.plan = x.plan /\ run.base = x.base
      BY <3>1
    <3> QED
      BY <3>3, <3>4 DEF Planned
  <2>2. run.base \in 1 .. Len(main') /\ run.commit \in 1 .. Len(main')
    BY <1>2, <1>4
  <2>3. \A i \in DOMAIN run.plan :
           run.plan[i].version = OnDisk(run.commit, run.plan[i].package)'
    OBVIOUS
  <2> QED
    BY <1>4, <2>1, <2>2, <2>3 DEF RunInOrder
<1>7. RunsAreInOrder'
  <2>1. \A x \in ReleaseRun : RunInOrder(x) => RunInOrder(x)'
    BY RunsStayInOrder
  <2>2. \A q \in DOMAIN runs : runs[q] \in ReleaseRun /\ RunInOrder(runs[q])
    BY RunTypes DEF RunsAreInOrder
  <2>3. \A base \in 1 .. Len(main') : \A x : x = Run(base) => RunInOrder(x)'
    BY <1>5, NewRun
  <2>4. \A q \in DOMAIN runs' : \E x : x = runs'[q] /\ RunInOrder(x)'
    BY <1>6, <2>1, <2>2, <2>3
  <2> QED
    BY <2>4 DEF RunsAreInOrder
<1>8. \A t \in Marks' : t \in Marks \/ \E i \in DOMAIN run.plan : t = TagOf(run, i)
  <2> SUFFICES ASSUME NEW t \in Marks',
                      NEW q \in DOMAIN runs', runs'[q].stage = "tagging",
                      NEW i \in runs'[q].left, t = TagOf(runs'[q], i)
               PROVE  t \in Marks \/ \E j \in DOMAIN run.plan : t = TagOf(run, j)
    BY MarksAreMarked DEF Marked
  <2>1. CASE q # r /\ q \in DOMAIN runs /\ runs'[q] = runs[q]
    BY <2>1, MarksAreMarked DEF Marked
  <2>2. CASE runs'[q] = run
    BY <1>4, <2>2
  <2>3. ~\E base \in 1 .. Len(main') : runs'[q] = Run(base)
    BY DEF Run
  <2> QED
    BY <2>1, <2>2, <2>3
<1>9. MarksAgree'
  <2> SUFFICES ASSUME NEW t \in Marks', NEW u \in Marks',
                      t.package = u.package, t.commit < u.commit
               PROVE  Tells(t, u)' \/ t.version = u.version \/ Taken(t)'
    BY DEF MarksAgree
  <2>1. t.commit \in Nat /\ u.commit \in Nat /\ u.commit <= Len(main')
    <3>1. \A x \in Marks : x.commit \in Nat /\ x.commit <= Len(main')
      BY <1>2, MarksAreRight
    <3>2. \A i \in DOMAIN run.plan : TagOf(run, i).commit = Len(main')
      BY DEF TagOf
    <3> QED
      BY <1>2, <1>8, <3>1, <3>2
  <2>2. t \in Marks
    BY <1>2, <1>8, <2>1 DEF TagOf
  <2>3. CASE u \in Marks
    <3>1. t.commit \in Nat /\ u.commit \in 0 .. Len(main)
      BY <2>2, <2>3, MarksAreRight
    <3>2. Between(t, u)' = Between(t, u)
      BY <3>1, HistoryIsKept
    <3>3. (Tells(t, u) => Tells(t, u)') /\ Taken(t)' = Taken(t)
      BY <3>2 DEF Tells, Taken
    <3> QED
      BY <2>2, <2>3, <3>3 DEF MarksAgree
  <2>4. ASSUME NEW i \in DOMAIN run.plan, u = TagOf(run, i)
        PROVE  Tells(t, u)' \/ t.version = u.version \/ Taken(t)'
    <3>1. /\ u.package = run.plan[i].package /\ u.version = run.plan[i].version
          /\ u.commit = Len(main')
      BY <2>4 DEF TagOf
    <3> QED
      BY <1>4, <2>2, <3>1, PlanMarks
  <2> QED
    BY <1>8, <2>3, <2>4
<1> QED
  BY <1>5, <1>7, <1>9

LEMMA PushMainKeeps ==
    ASSUME RInv, NEW r \in DOMAIN runs, PushMain(r)
    PROVE  RInv'
<1> USE DEF RInv
<1> DEFINE n == Len(main)
<1>1. /\ runs[r] \in ReleaseRun /\ RunInOrder(runs[r]) /\ runs[r].stage = "pushing"
      /\ runs[r].base = n /\ UNCHANGED <<tags, releases>>
      /\ r \in 1 .. Len(runs) /\ runs \in Seq(ReleaseRun)
  BY RunTypes DEF RunsAreInOrder, PushMain, ReleaseTypes
<1>2. /\ runs[r].plan \in Plans /\ \A i \in DOMAIN runs[r].plan : Planned(runs[r], i)
      /\ n \in 1 .. n /\ n \in Nat /\ main \in Seq(Commit)
  BY <1>1 DEF RunInOrder, ReleaseTypes
<1>3. PICK run : run = [runs[r] EXCEPT !.stage = "tagging", !.commit = Len(main')]
  OBVIOUS
<1>4. Len(main') \in Nat =>
         /\ run \in ReleaseRun /\ run.base = n /\ run.plan = runs[r].plan
         /\ run.left = runs[r].left /\ run.stage = "tagging" /\ run.commit = Len(main')
  BY <1>1, <1>3 DEF ReleaseRun
<1>5. CASE Commits(runs[r].plan)
  <2>1. PICK c : c = ReleaseCommit(runs[r])
    OBVIOUS
  <2>2. /\ main' = Append(main, c)
        /\ runs' = Append([runs EXCEPT ![r].stage = "tagging", ![r].commit = n + 1], Run(n + 1))
    BY <1>1, <1>5, <2>1 DEF PushMain
  <2>3. /\ c \in Commit /\ c.type = "chore"
        /\ \A i \in DOMAIN runs[r].plan :
              c.versions[runs[r].plan[i].package] = runs[r].plan[i].version
        /\ \A p \in discover_packages :
              /\ NoOlder(c.versions[p], OnDisk(n, p))
              /\ c.versions[p] # OnDisk(n, p) => \E t \in tags : t.package = p
    BY <1>1, <1>2, <2>1, PushedCommit
  <2>4. /\ Len(main') = n + 1 /\ HistoryGrows
        /\ \A k, p : k = n + 1 => OnDisk(k, p)' = c.versions[p]
        /\ VersionsRise' /\ BumpsFollowTags' /\ LatestExists'
        /\ NamesAreUnique' /\ TagsAreRight' /\ ReleasesAreTagged'
    BY <1>1, <2>2, <2>3, CommitKeeps
  <2>5. Run(n + 1) \in ReleaseRun /\ n + 1 \in 1 .. Len(main') /\ Len(main') \in Nat
    BY <1>2, <2>4 DEF ReleaseRun, Run
  <2>6. PICK before : before = [runs EXCEPT ![r] = run]
    OBVIOUS
  <2>7. /\ before \in Seq(ReleaseRun) /\ Len(before) = Len(runs) /\ before[r] = run
        /\ \A q \in DOMAIN before : q \in DOMAIN runs /\ (q # r => before[q] = runs[q])
    BY <1>1, <1>4, <2>5, <2>6, ExceptSeq
  <2>8. runs' = Append(before, Run(n + 1))
    BY <1>3, <2>2, <2>4, <2>6
  <2>9. /\ runs' \in Seq(ReleaseRun)
        /\ \A q \in DOMAIN runs' :
              \/ q = r /\ runs'[q] = run
              \/ q # r /\ q \in DOMAIN runs /\ runs'[q] = runs[q]
              \/ \E base \in 1 .. Len(main') : runs'[q] = Run(base)
    <3>1. /\ runs' \in Seq(ReleaseRun)
          /\ \A q \in DOMAIN runs' : \/ q \in DOMAIN before /\ runs'[q] = before[q]
                                     \/ runs'[q] = Run(n + 1)
      BY <2>5, <2>7, <2>8, AppendProperties
    <3> QED
      BY <2>5, <2>7, <3>1
  <2>10. \A i \in DOMAIN run.plan :
           /\ \A k : k = Len(main') => OnDisk(k, run.plan[i].package)' = run.plan[i].version
           /\ \E x \in Commit : x.type = "chore" /\ main' = Append(main, x)
    <3> TAKE i \in DOMAIN run.plan
    <3>1. run.plan = runs[r].plan
      BY <1>4, <2>5
    <3>2. c.versions[run.plan[i].package] = run.plan[i].version
      BY <2>3, <3>1
    <3>3. \A k : k = Len(main') => OnDisk(k, run.plan[i].package)' = run.plan[i].version
      BY <2>4, <3>2
    <3> QED
      BY <2>2, <2>3, <3>3
  <2> QED
    BY <1>1, <1>4, <2>4, <2>5, <2>9, <2>10, PushKeeps
<1>6. CASE ~Commits(runs[r].plan)
  <2>1. /\ main' = main
        /\ runs' = [runs EXCEPT ![r].stage = "tagging", ![r].commit = n]
    BY <1>1, <1>6 DEF PushMain
  <2>2. /\ HistoryGrows
        /\ VersionsRise' /\ BumpsFollowTags' /\ LatestExists'
        /\ NamesAreUnique' /\ TagsAreRight' /\ ReleasesAreTagged'
        /\ \A k, p : OnDisk(k, p)' = OnDisk(k, p)
    BY <1>1, <1>2, <2>1 DEF HistoryGrows, VersionsRise, BumpsFollowTags, LatestExists,
                      NamesAreUnique, TagsAreRight, ReleasesAreTagged, OnDisk
  <2>3. /\ runs' = [runs EXCEPT ![r] = run]
        /\ run \in ReleaseRun
    BY <1>2, <1>3, <1>4, <2>1
  <2>4. /\ runs' \in Seq(ReleaseRun)
        /\ \A q \in DOMAIN runs' :
              \/ q = r /\ runs'[q] = run
              \/ q # r /\ q \in DOMAIN runs /\ runs'[q] = runs[q]
    BY <1>1, <2>3, ExceptSeq
  <2>5. \A i \in DOMAIN run.plan :
           /\ \A k : k = Len(main') => OnDisk(k, run.plan[i].package)' = run.plan[i].version
           /\ run.plan[i].kind = "bootstrap"
    <3> TAKE i \in DOMAIN run.plan
    <3>1. run.plan = runs[r].plan
      BY <1>2, <1>4, <2>1
    <3>2. run.plan[i].kind = "bootstrap" /\ Planned(runs[r], i)
      BY <1>2, <1>6, <3>1 DEF Commits
    <3>3. run.plan[i].version = OnDisk(n, run.plan[i].package)
      BY <1>1, <3>1, <3>2 DEF Planned
    <3> QED
      BY <2>1, <2>2, <3>2, <3>3
  <2>6. \A i \in DOMAIN run.plan :
           /\ \A k : k = Len(main') => OnDisk(k, run.plan[i].package)' = run.plan[i].version
           /\ \/ main' = main /\ run.plan[i].kind = "bootstrap"
              \/ \E c \in Commit : c.type = "chore" /\ main' = Append(main, c)
    BY <2>1, <2>5
  <2>7. \A q \in DOMAIN runs' :
           \/ q = r /\ runs'[q] = run
           \/ q # r /\ q \in DOMAIN runs /\ runs'[q] = runs[q]
           \/ \E base \in 1 .. Len(main') : runs'[q] = Run(base)
    BY <2>4
  <2>8. Len(main') \in Nat
    BY <1>2, <2>1
  <2> QED
    BY <1>1, <1>4, <2>2, <2>4, <2>6, <2>7, <2>8, PushKeeps
<1> QED
  BY <1>5, <1>6

LEMMA LatestStays ==
    ASSUME tags \subseteq Tag, LatestExists, NEW t \in Tag, tags' = tags \cup {t}
    PROVE  LatestExists'
<1> DEFINE Highest(own, x) == \A u \in own : ~Newer(u.version, x.version)
           own(p) == {u \in tags : u.package = p}
<1>1. \A x \in tags' : x.version \in Version
  BY DEF Tag
<1>2. SUFFICES ASSUME NEW p \in discover_packages, t.package = p
               PROVE  \E x \in tags' : x.package = p /\ Highest(own(p) \cup {t}, x)
  BY DEF LatestExists
<1>3. ~Newer(t.version, t.version)
  BY <1>1, NewerIsAnOrder
<1>4. CASE own(p) = {}
  BY <1>2, <1>3, <1>4
<1>5. CASE own(p) # {}
  <2>1. PICK m \in tags : m.package = p /\ Highest(own(p), m)
    BY <1>5 DEF LatestExists
  <2>2. CASE ~Newer(t.version, m.version)
    BY <2>1, <2>2
  <2>3. CASE Newer(t.version, m.version)
    <3>1. \A u \in own(p) : ~Newer(u.version, t.version)
      <4> TAKE u \in own(p)
      <4>1. /\ u.version \in Version /\ m.version \in Version /\ t.version \in Version
            /\ ~Newer(u.version, m.version)
        BY <1>1, <2>1
      <4>2. NoOlder(m.version, u.version)
        BY <4>1, NewerIsAnOrder
      <4>3. Newer(t.version, u.version)
        BY <2>3, <4>1, <4>2, NewerIsAnOrder
      <4> QED
        BY <1>3, <4>1, <4>3, NewerIsAnOrder DEF NoOlder
    <3> QED
      BY <1>2, <1>3, <3>1
  <2> QED
    BY <2>2, <2>3
<1> QED
  BY <1>4, <1>5

LEMMA PushTagKeeps ==
    ASSUME RInv, NEW r \in DOMAIN runs, PushTag(r)
    PROVE  RInv'
<1> USE DEF RInv
<1>1. PICK i \in Foremost(runs[r]) :
         /\ SameName(TagOf(runs[r], i)) \subseteq {TagOf(runs[r], i)}
         /\ tags' = tags \cup {TagOf(runs[r], i)}
         /\ runs' = Advanced(r, i, "releasing")
  BY DEF PushTag
<1>2. PICK t : t = TagOf(runs[r], i)
  OBVIOUS
<1>3. UNCHANGED <<main, releases>> /\ tags \subseteq tags' /\ runs[r].stage = "tagging"
  BY <1>1 DEF PushTag
<1>4. /\ runs[r] \in ReleaseRun /\ RunInOrder(runs[r])
      /\ r \in 1 .. Len(runs) /\ runs \in Seq(ReleaseRun)
  BY RunTypes DEF RunsAreInOrder, ReleaseTypes
<1>5. /\ runs[r].left \subseteq DOMAIN runs[r].plan /\ i \in runs[r].left
      /\ runs[r].plan \in Plans /\ DOMAIN runs[r].plan \in SUBSET Nat
  BY <1>3, <1>4 DEF RunInOrder, Foremost, Planned
<1>6. t \in Marks
  BY <1>2, <1>3, <1>5 DEF Marks
<1>7. /\ t.commit \in 1 .. Len(main) /\ t.package \in discover_packages
      /\ t.version = OnDisk(t.commit, t.package)
  BY <1>6, MarksAreRight
<1>8. t \in Tag
  <2>1. t.version \in Version /\ t.commit \in Nat
    BY <1>7, DiskTypes
  <2> QED
    BY <1>2, <1>7, <2>1 DEF Tag, TagOf
<1>9. HistoryGrows /\ \A k, p : OnDisk(k, p)' = OnDisk(k, p)
  BY <1>3 DEF HistoryGrows, ReleaseTypes, OnDisk
<1>10. VersionsRise' /\ BumpsFollowTags' /\ ReleasesAreTagged'
  BY <1>3, <1>9 DEF VersionsRise, BumpsFollowTags, ReleasesAreTagged
<1>11. LatestExists'
  BY <1>1, <1>2, <1>8, LatestStays DEF ReleaseTypes
<1>12. NamesAreUnique'
  BY <1>1, <1>2 DEF NamesAreUnique, SameName
<1>13. TagsAreRight'
  BY <1>1, <1>2, <1>3, <1>7, <1>9 DEF TagsAreRight
<1>14. PICK run :
         /\ run \in ReleaseRun /\ RunInOrder(run)'
         /\ run.stage = "tagging" => run.left \subseteq runs[r].left
         /\ run.plan = runs[r].plan /\ run.commit = runs[r].commit
         /\ runs' = [runs EXCEPT ![r] = run]
  <2>1. PICK x : x = runs[r]
    OBVIOUS
  <2>2. RunInOrder(x)'
    BY <1>3, <1>4, <1>9, <2>1, RunsStayInOrder
  <2>3. TagOf(x, i) \in tags'
    BY <1>1, <2>1
  <2>4. CASE runs[r].left = {i}
    <3>1. PICK run : run = [x EXCEPT !.left = DOMAIN x.plan, !.stage = "releasing"]
      OBVIOUS
    <3>2. /\ run \in ReleaseRun /\ run.base = x.base /\ run.stage = "releasing"
          /\ run.plan = x.plan /\ run.commit = x.commit /\ run.left = DOMAIN x.plan
      BY <1>4, <1>5, <2>1, <3>1 DEF ReleaseRun
    <3>3. \A j \in DOMAIN x.plan : TagOf(x, j) \in tags'
      BY <1>3, <2>1, <2>2, <2>3, <2>4 DEF RunInOrder
    <3>4. RunInOrder(run)'
      BY <1>3, <2>1, <2>2, <3>2, <3>3 DEF RunInOrder, Planned, TagOf
    <3>5. runs' = [runs EXCEPT ![r] = run]
      BY <1>1, <2>1, <2>4, <3>1 DEF Advanced
    <3> QED
      BY <2>1, <3>2, <3>4, <3>5
  <2>5. CASE runs[r].left # {i}
    <3>1. PICK run : run = [x EXCEPT !.left = x.left \ {i}]
      OBVIOUS
    <3>2. /\ run \in ReleaseRun /\ run.base = x.base /\ run.stage = "tagging"
          /\ run.plan = x.plan /\ run.commit = x.commit /\ run.left = x.left \ {i}
      BY <1>3, <1>4, <2>1, <3>1 DEF ReleaseRun
    <3>3. \A j \in DOMAIN x.plan : j \notin run.left => TagOf(x, j) \in tags'
      BY <1>3, <2>1, <2>2, <2>3, <3>2 DEF RunInOrder
    <3>4. RunInOrder(run)'
      BY <1>3, <2>1, <2>2, <3>2, <3>3 DEF RunInOrder, Planned, TagOf
    <3>5. runs' = [runs EXCEPT ![r] = run]
      BY <1>1, <2>1, <2>5, <3>1 DEF Advanced
    <3> QED
      BY <2>1, <3>2, <3>4, <3>5
  <2> QED
    BY <2>4, <2>5
<1>15. /\ runs' \in Seq(ReleaseRun) /\ runs'[r] = run
       /\ \A q \in DOMAIN runs' : q \in DOMAIN runs /\ (q # r => runs'[q] = runs[q])
  BY <1>4, <1>14, ExceptSeq
<1>16. ReleaseTypes'
  BY <1>1, <1>2, <1>3, <1>8, <1>15 DEF ReleaseTypes
<1>17. RunsAreInOrder'
  <2>1. \A x \in ReleaseRun : RunInOrder(x) => RunInOrder(x)'
    BY <1>3, <1>9, RunsStayInOrder
  <2>2. \A q \in DOMAIN runs' : \E x : x = runs'[q] /\ RunInOrder(x)'
    BY <1>14, <1>15, <2>1, RunTypes DEF RunsAreInOrder
  <2> QED
    BY <2>2 DEF RunsAreInOrder
<1>18. Marks' \subseteq Marks
  <2>1. \A u \in tags' : u \in Marks
    BY <1>1, <1>2, <1>6 DEF Marks
  <2>2. \A j : TagOf(run, j) = TagOf(runs[r], j)
    BY <1>14 DEF TagOf
  <2> SUFFICES ASSUME NEW q \in DOMAIN runs', runs'[q].stage = "tagging",
                      NEW j \in runs'[q].left
               PROVE  TagOf(runs'[q], j) \in Marks
    BY <2>1, MarksAreMarked DEF Marked
  <2> QED
    BY <1>3, <1>14, <1>15, <2>2, MarksAreMarked DEF Marked
<1>19. MarksAgree'
  BY <1>3, <1>9, <1>18, MarksShrink
<1> QED
  BY <1>10, <1>11, <1>12, <1>13, <1>16, <1>17, <1>19

LEMMA ReleasesBegin == ReleaseInit => RInv
<1> SUFFICES ASSUME ReleaseInit PROVE RInv
  OBVIOUS
<1>1. /\ main = <<FirstCommit>> /\ tags = FirstTags /\ releases = FirstTags /\ runs = <<>>
  BY DEF ReleaseInit
<1>2. /\ FirstCommit \in Commit /\ main \in Seq(Commit) /\ Len(main) = 1 /\ main[1] = FirstCommit
  BY <1>1, ReleaseAssumption
<1>3. \A t \in tags :
         /\ t \in [package : discover_packages, version : Version, commit : {1}]
         /\ t.version = OnDisk(1, t.package)
  BY <1>1, <1>2, ReleaseAssumption DEF OnDisk
<1>4. runs \in Seq(ReleaseRun) /\ DOMAIN runs = {}
  BY <1>1
<1>5. ReleaseTypes
  BY <1>2, <1>3, <1>4 DEF ReleaseTypes, Tag
<1>6. VersionsRise /\ BumpsFollowTags
  BY <1>2 DEF VersionsRise, BumpsFollowTags, NoOlder
<1>7. NamesAreUnique /\ TagsAreRight
  BY <1>2, <1>3 DEF NamesAreUnique, TagsAreRight
<1>8. LatestExists
  <2> SUFFICES ASSUME NEW p \in discover_packages, NEW t \in tags, t.package = p
               PROVE  \A u \in tags : u.package = p => ~Newer(u.version, t.version)
    BY DEF LatestExists
  <2>1. OnDisk(1, p) \in Version
    BY <1>2, <1>5, DiskTypes
  <2> QED
    BY <1>3, <2>1, NewerIsAnOrder
<1>9. RunsAreInOrder /\ ReleasesAreTagged
  BY <1>1, <1>4 DEF RunsAreInOrder, ReleasesAreTagged
<1>10. MarksAgree
  <2>1. \A t \in Marks : t.commit = 1
    BY <1>3, <1>4, MarksAreMarked DEF Marked
  <2> QED
    BY <2>1 DEF MarksAgree
<1> QED
  BY <1>5, <1>6, <1>7, <1>8, <1>9, <1>10 DEF RInv

LEMMA ReleasesGoOn == RInv /\ [ReleaseNext]_releaseVars => RInv'
<1> SUFFICES ASSUME RInv, [ReleaseNext]_releaseVars PROVE RInv'
  OBVIOUS
<1>1. CASE UNCHANGED releaseVars
  <2>1. UNCHANGED <<main, tags, releases, runs>>
    BY <1>1 DEF releaseVars
  <2>2. HistoryGrows /\ Marks' \subseteq Marks
    BY <2>1 DEF RInv, ReleaseTypes, HistoryGrows, Marks, TagOf
  <2>3. MarksAgree'
    BY <2>1, <2>2, MarksShrink DEF RInv
  <2>4. RunsAreInOrder'
    <3>1. \A x \in ReleaseRun : RunInOrder(x) => RunInOrder(x)'
      BY <2>1, <2>2, RunsStayInOrder DEF RInv
    <3>2. \A r \in DOMAIN runs : \E x \in ReleaseRun : x = runs'[r] /\ RunInOrder(x)
      BY <2>1, RunTypes DEF RInv, RunsAreInOrder
    <3> QED
      BY <2>1, <3>1, <3>2 DEF RunsAreInOrder
  <2>5. \A i, p : OnDisk(i, p)' = OnDisk(i, p)
    BY <2>1 DEF OnDisk
  <2> QED
    BY <2>1, <2>3, <2>4, <2>5 DEF RInv, ReleaseTypes, VersionsRise, BumpsFollowTags, LatestExists,
                                  NamesAreUnique, TagsAreRight, ReleasesAreTagged
<1>2. ASSUME NEW m \in Merges, Merge(m) PROVE RInv'
  BY <1>2, MergeKeeps
<1>3. ASSUME NEW r \in DOMAIN runs, Proceed(r) \/ Dies(r) \/ Unconfigured(r)
      PROVE  RInv'
  <2>1. CASE Compute(r)
    BY <2>1, ComputeKeeps
  <2>2. CASE PushMain(r)
    BY <2>2, PushMainKeeps
  <2>3. CASE PushTag(r)
    BY <2>3, PushTagKeeps
  <2>4. CASE CreateRelease(r)
    BY <2>4, CreateReleaseKeeps
  <2>5. CASE \/ PushRejected(r) \/ TagRejected(r) \/ ReleaseRejected(r) \/ Dies(r)
             \/ Unconfigured(r)
    BY <2>5, FailureKeeps
       DEF PushRejected, TagRejected, ReleaseRejected, Dies, Unconfigured
  <2> QED
    BY <1>3, <2>1, <2>2, <2>3, <2>4, <2>5 DEF Proceed
<1> QED
  BY <1>1, <1>2, <1>3 DEF ReleaseNext

\* A step of the tools is one of the releases or leaves them alone.
LEMMA ToolsRelease ==
    /\ ToolInit => ReleaseInit
    /\ [ToolNext]_toolVars => [ReleaseNext]_releaseVars
BY DEF ToolInit, ToolNext, toolVars

\* The inductive invariant, of the specification that the run checks.
THEOREM ReleaseInvariant == ToolFairSpec => []RInv
<1>1. ToolInit => RInv
  BY ReleasesBegin, ToolsRelease
<1>2. RInv /\ [ToolNext]_toolVars => RInv'
  BY ReleasesGoOn, ToolsRelease
<1> QED
  BY <1>1, <1>2, PTL DEF ToolFairSpec

\* Whatever is merged while runs overlap, fail and die: from one release tag of
\* a package to a later one the version tells the change.
THEOREM ReleasesTellTheChange == ToolFairSpec => []VersionsTellTheChange
<1>1. RInv => VersionsTellTheChange
  <2> SUFFICES ASSUME RInv, NEW t \in tags, NEW u \in tags,
                      t.package = u.package, t.commit < u.commit
               PROVE  Tells(t, u)
    BY DEF VersionsTellTheChange, Tells
  <2>1. t # u
    BY DEF RInv, ReleaseTypes, Tag
  <2>2. Tells(t, u) \/ t.version = u.version \/ Taken(t)
    BY DEF RInv, MarksAgree, Marks
  <2> QED
    BY <2>1, <2>2 DEF RInv, NamesAreUnique, Taken
<1> QED
  BY <1>1, ReleaseInvariant, PTL

\* A GitHub Release is of a tag, and the tree at a tag carries its version: the
\* publish run that the Release starts resolves to the package.
THEOREM ReleasesAreResolved == ToolFairSpec => []ReleasesResolve
<1>1. RInv => ReleasesResolve
  <2> SUFFICES ASSUME RInv, NEW t \in releases PROVE resolve(t, main) = "resolved"
    BY DEF ReleasesResolve
  <2>1. t \in tags /\ t.commit \in 1 .. Len(main) /\ t.version = OnDisk(t.commit, t.package)
        /\ t.package \in discover_packages
    BY DEF RInv, ReleasesAreTagged, TagsAreRight, ReleaseTypes, Tag
  <2>2. current_version(t.package, SubSeq(main, 1, t.commit)) = t.version
    BY <2>1, CheckedOut DEF RInv
  <2> QED
    BY <2>1, <2>2 DEF resolve
<1> QED
  BY <1>1, ReleaseInvariant, PTL

-----------------------------------------------------------------------------
(* The conformance suites: the inductive invariant                         *)

PlanState ==
    [lifecycle : {"none", "proposed", "approved", "executed"}, executions : Nat]

Answered ==
    [status : {200, 201, 403, 409},
     code : {"", "plan_hash_mismatch", "plan_not_approvable", "invalid_nonce",
             "plan_not_approved"},
     state : {"", "proposed", "approved", "executed"},
     facts : SUBSET (ReceiptChecks \cup {"long_hash", "plan_hash", "nonce", "digest",
                                         "digest_matches"})]

\* The answers are those of the engine in the states that the calls lead to.
Traced(calls, h, p) ==
    \E states :
        /\ states[0] = Unproposed
        /\ states[Len(h)] = p
        /\ \A n \in 1 .. Len(h) : /\ h[n] = Answer(states[n - 1], calls[n])
                                  /\ states[n] = Done(states[n - 1], calls[n])

\* What no engine has that passes the scenario.
Caught(k) ==
    CASE k = "read_only_recommendation"      -> {"no_nonce"}
      [] k = "execution_denied_by_policy"    -> {"unnamed_codes", "executes_unapproved"}
      [] k = "approval_rejected"             -> {"any_nonce"}
      [] k = "duplicate_execution_prevented" -> {"executes_again"}
      [] k = "reused_challenge_rejected"     -> {"approves_again", "approve_forgets"}
      [] k = "modified_plan_hash_rejected"   -> {"any_hash"}
      [] k = "execution_receipt_versioned"   -> {"no_receipt", "foreign_receipt"}
      [] k = "audit_export_hash_verifies"    -> {"stale_digest"}
      [] OTHER                               -> {}

\* An outcome tells what the engine is like.
Telling(k, outcome, p) ==
    /\ outcome = "PASS" =>
          /\ defects \cap Caught(k) = {}
          /\ "advances_anyway" \notin defects => p \in ExpectedOf(k)
    /\ outcome = "FAIL" => lost > 0 \/ ~(defects \subseteq {"advances_anyway"})
    /\ outcome = "BLOCKED" => k \in NotExercisable

HasFailed == \E i \in DOMAIN results : results[i].outcome = "FAIL"

Result == [outcome : {"PASS", "FAIL", "BLOCKED"}, plan : PlanState]

CInv ==
    /\ defects \subseteq KnownDefects
    /\ lost \in Nat
    /\ heard = <<>> \/ Len(heard) <= Len(Calls)
    /\ heard \in Seq(Answered)
    /\ plan \in PlanState
    /\ Traced(Calls, heard, plan)
    /\ results \in Seq(Result) /\ Len(results) <= Len(SCENARIOS)
    /\ \A i \in DOMAIN results : Telling(SCENARIOS[i], results[i].outcome, results[i].plan)
    /\ lost > 0 => HasFailed
    /\ exit \in {0, 1} => Len(results) = Len(SCENARIOS) /\ (exit = 1 <=> HasFailed)

Exercised == {SCENARIOS[i] : i \in 1 .. Len(SCENARIOS)} \ NotExercisable

LEMMA PlanFirst ==
    ASSUME NEW a, NEW b, NEW c, NEW x, NEW y, NEW z
    PROVE  /\ <<a, b, c>> \o <<x>> = <<a, b, c, x>>
           /\ <<a, b, c>> \o <<x, y>> = <<a, b, c, x, y>>
           /\ <<a, b, c>> \o <<x, y, z>> = <<a, b, c, x, y, z>>
<1> DEFINE S == {a, b, c, x, y, z}
<1>1. /\ <<a, b, c>> \in Seq(S) /\ <<x>> \in Seq(S) /\ <<x, y>> \in Seq(S)
      /\ <<x, y, z>> \in Seq(S) /\ <<a, b, c, x>> \in Seq(S)
      /\ <<a, b, c, x, y>> \in Seq(S) /\ <<a, b, c, x, y, z>> \in Seq(S)
  OBVIOUS
<1>2. <<a, b, c>> \o <<x>> = <<a, b, c, x>>
  <2>1. PICK s : s = <<a, b, c>> \o <<x>>
    OBVIOUS
  <2>2. PICK t : t = <<a, b, c, x>>
    OBVIOUS
  <2>3. s \in Seq(S) /\ Len(s) = 4
    BY <1>1, <2>1, ConcatProperties
  <2>4. t \in Seq(S) /\ Len(t) = 4
    BY <1>1, <2>2
  <2>5. \A i \in 1 .. 4 : s[i] = t[i]
    BY <1>1, <2>1, <2>2, ConcatProperties
  <2>6. s = t
    BY <2>3, <2>4, <2>5, SeqEqual
  <2> QED
    BY <2>1, <2>2, <2>6
<1>3. <<a, b, c>> \o <<x, y>> = <<a, b, c, x, y>>
  <2>1. PICK s : s = <<a, b, c>> \o <<x, y>>
    OBVIOUS
  <2>2. PICK t : t = <<a, b, c, x, y>>
    OBVIOUS
  <2>3. s \in Seq(S) /\ Len(s) = 5
    BY <1>1, <2>1, ConcatProperties
  <2>4. t \in Seq(S) /\ Len(t) = 5
    BY <1>1, <2>2
  <2>5. \A i \in 1 .. 5 : s[i] = t[i]
    BY <1>1, <2>1, <2>2, ConcatProperties
  <2>6. s = t
    BY <2>3, <2>4, <2>5, SeqEqual
  <2> QED
    BY <2>1, <2>2, <2>6
<1>4. <<a, b, c>> \o <<x, y, z>> = <<a, b, c, x, y, z>>
  <2>1. PICK s : s = <<a, b, c>> \o <<x, y, z>>
    OBVIOUS
  <2>2. PICK t : t = <<a, b, c, x, y, z>>
    OBVIOUS
  <2>3. s \in Seq(S) /\ Len(s) = 6
    BY <1>1, <2>1, ConcatProperties
  <2>4. t \in Seq(S) /\ Len(t) = 6
    BY <1>1, <2>2
  <2>5. \A i \in 1 .. 6 : s[i] = t[i]
    BY <1>1, <2>1, <2>2, ConcatProperties
  <2>6. s = t
    BY <2>3, <2>4, <2>5, SeqEqual
  <2> QED
    BY <2>1, <2>2, <2>6
<1> QED
  BY <1>2, <1>3, <1>4

LEMMA ScenarioCalls ==
    /\ CallsOf("read_only_recommendation") = <<"case", "run", "plan">>
    /\ CallsOf("execution_denied_by_policy") = <<"case", "run", "plan", "execute">>
    /\ CallsOf("approval_granted_then_execute") =
          <<"case", "run", "plan", "approve", "execute">>
    /\ CallsOf("approval_rejected") =
          <<"case", "run", "plan", "approve_wrong_nonce", "read_case">>
    /\ PydanticCallsOf("approval_rejected") =
          <<"case", "run", "plan", "approve_wrong_nonce">>
    /\ CallsOf("duplicate_execution_prevented") =
          <<"case", "run", "plan", "approve", "execute", "execute">>
    /\ CallsOf("reused_challenge_rejected") =
          <<"case", "run", "plan", "approve", "approve">>
    /\ CallsOf("modified_plan_hash_rejected") =
          <<"case", "run", "plan", "approve_wrong_hash">>
    /\ CallsOf("execution_receipt_versioned") =
          <<"case", "run", "plan", "approve", "execute_traced">>
    /\ CallsOf("audit_export_hash_verifies") = <<"export">>
<1>1. \A x, y, z :
         /\ _fresh_plan \o <<x>> = <<"case", "run", "plan", x>>
         /\ _fresh_plan \o <<x, y>> = <<"case", "run", "plan", x, y>>
         /\ _fresh_plan \o <<x, y, z>> = <<"case", "run", "plan", x, y, z>>
  BY PlanFirst DEF _fresh_plan
<1>2. _fresh_plan = <<"case", "run", "plan">>
  BY DEF _fresh_plan
<1>3. /\ CallsOf("read_only_recommendation") = _fresh_plan
      /\ CallsOf("execution_denied_by_policy") = _fresh_plan \o <<"execute">>
      /\ CallsOf("approval_granted_then_execute") = _fresh_plan \o <<"approve", "execute">>
      /\ CallsOf("approval_rejected") = _fresh_plan \o <<"approve_wrong_nonce", "read_case">>
      /\ PydanticCallsOf("approval_rejected") = _fresh_plan \o <<"approve_wrong_nonce">>
      /\ CallsOf("duplicate_execution_prevented") =
            _fresh_plan \o <<"approve", "execute", "execute">>
      /\ CallsOf("reused_challenge_rejected") = _fresh_plan \o <<"approve", "approve">>
      /\ CallsOf("modified_plan_hash_rejected") = _fresh_plan \o <<"approve_wrong_hash">>
      /\ CallsOf("execution_receipt_versioned") =
            _fresh_plan \o <<"approve", "execute_traced">>
      /\ CallsOf("audit_export_hash_verifies") = <<"export">>
  BY DEF CallsOf, PydanticCallsOf
<1> QED
  BY <1>1, <1>2, <1>3

AllCalls == {"case", "run", "plan", "execute", "approve", "approve_wrong_nonce",
             "read_case", "approve_wrong_hash", "execute_traced", "export"}

LEMMA AnswerTypes ==
    ASSUME NEW p \in PlanState, NEW call \in AllCalls
    PROVE  Answer(p, call) \in Answered /\ Done(p, call) \in PlanState
<1>1. /\ Refused(403, "plan_hash_mismatch") \in Answered
      /\ Refused(409, "plan_not_approvable") \in Answered
      /\ Refused(403, "invalid_nonce") \in Answered
      /\ Refused(409, "plan_not_approved") \in Answered
  <2>1. ASSUME NEW code \in {"plan_hash_mismatch", "plan_not_approvable", "invalid_nonce",
                             "plan_not_approved"}, NEW status \in {403, 409}
        PROVE  Refused(status, code) \in Answered
    <3>1. Named(code) \in {"", "plan_hash_mismatch", "plan_not_approvable", "invalid_nonce",
                           "plan_not_approved"}
      BY DEF Named
    <3> QED
      BY <3>1, ZenonT(30) DEF Refused, Answered
  <2> QED
    BY <2>1
<1>2. Receipt(call) \subseteq ReceiptChecks
  BY DEF Receipt
<1>3. /\ Ok(200, "approved", {}) \in Answered
      /\ Ok(200, "executed", Receipt(call)) \in Answered
      /\ Ok(201, "", {}) \in Answered
      /\ Ok(200, "", {}) \in Answered
  BY <1>2, ZenonT(30) DEF Ok, Answered
<1>4. Approve(p, call) \in Answered
  BY <1>1, <1>3 DEF Approve
<1>5. Execute(p, call) \in Answered
  BY <1>1, <1>3 DEF Execute
<1>6. Answer(p, call) \in Answered
  <2>1. /\ Ok(201, "proposed", {"long_hash", "plan_hash"} \cup
                (IF "no_nonce" \in defects THEN {} ELSE {"nonce"})) \in Answered
        /\ Ok(200, "", {"digest"} \cup (IF "stale_digest" \in defects THEN {}
                                        ELSE {"digest_matches"})) \in Answered
    BY ZenonT(30) DEF Ok, Answered
  <2> QED
    BY <1>3, <1>4, <1>5, <2>1 DEF Answer, AllCalls
<1>7. Done(p, call) \in PlanState
  BY DEF Done, PlanState, AllCalls
<1> QED
  BY <1>6, <1>7

-----------------------------------------------------------------------------
(* What a scenario tells of the engine                                     *)

Proposed == [lifecycle |-> "proposed", executions |-> 0]
Approved == [lifecycle |-> "approved", executions |-> 0]
Executed == [lifecycle |-> "executed", executions |-> 1]

\* _fresh_plan, which fails an engine that gives no nonce.
LEMMA FreshPlan ==
    ASSUME NEW calls, calls[1] = "case", calls[2] = "run", calls[3] = "plan",
           NEW h, Len(h) \in Nat, NEW states, states[0] = Unproposed,
           \A n \in 1 .. Len(h) : /\ h[n] = Answer(states[n - 1], calls[n])
                                  /\ states[n] = Done(states[n - 1], calls[n])
    PROVE  /\ Len(h) >= 3 =>
                 /\ h[3].state = "proposed" /\ "long_hash" \in h[3].facts
                 /\ states[3] = Proposed
           /\ PlanFailed(h) <=> Len(h) >= 3 /\ "no_nonce" \in defects
<1>1. Len(h) >= 1 => h[1] = Ok(201, "", {}) /\ states[1] = Unproposed
  <2>1. Len(h) >= 1 => 1 \in 1 .. Len(h) /\ 1 - 1 = 0
    OBVIOUS
  <2>2. Len(h) >= 1 => h[1] = Answer(Unproposed, "case") /\ states[1] = Done(Unproposed, "case")
    BY <2>1
  <2> QED
    BY <2>2, ZenonT(30) DEF Answer, Done
<1>2. Len(h) >= 2 => h[2] = Ok(201, "", {}) /\ states[2] = Unproposed
  <2>1. Len(h) >= 2 => 2 \in 1 .. Len(h) /\ 2 - 1 = 1 /\ Len(h) >= 1
    OBVIOUS
  <2>2. Len(h) >= 2 => h[2] = Answer(Unproposed, "run") /\ states[2] = Done(Unproposed, "run")
    BY <1>1, <2>1
  <2> QED
    BY <2>2, ZenonT(30) DEF Answer, Done
<1>3. Len(h) >= 3 => /\ h[3] = Ok(201, "proposed", {"long_hash", "plan_hash"} \cup
                               (IF "no_nonce" \in defects THEN {} ELSE {"nonce"}))
                     /\ states[3] = Proposed
  <2>1. Len(h) >= 3 => 3 \in 1 .. Len(h) /\ 3 - 1 = 2 /\ Len(h) >= 2
    OBVIOUS
  <2>2. Len(h) >= 3 => h[3] = Answer(Unproposed, "plan") /\ states[3] = Done(Unproposed, "plan")
    BY <1>2, <2>1
  <2> QED
    BY <2>2, ZenonT(30) DEF Answer, Done, Unproposed, Proposed
<1>4. /\ Created(Ok(201, "", {}))
      /\ \A facts : /\ Created(Ok(201, "proposed", facts))
                    /\ Ok(201, "proposed", facts).facts = facts
                    /\ Ok(201, "proposed", facts).state = "proposed"
  BY DEF Created, Ok
<1>5. Len(h) >= 3 => ({"plan_hash", "nonce"} \subseteq h[3].facts <=> "no_nonce" \notin defects)
                     /\ "long_hash" \in h[3].facts /\ h[3].state = "proposed" /\ Created(h[3])
  <2>1. PICK facts : facts = {"long_hash", "plan_hash"} \cup
                             (IF "no_nonce" \in defects THEN {} ELSE {"nonce"})
    OBVIOUS
  <2>2. /\ {"plan_hash", "nonce"} \subseteq facts <=> "no_nonce" \notin defects
        /\ "long_hash" \in facts
    BY <2>1
  <2>3. Len(h) >= 3 => h[3] = Ok(201, "proposed", facts)
    BY <1>3, <2>1
  <2>4. Len(h) >= 3 => h[3].facts = facts /\ h[3].state = "proposed" /\ Created(h[3])
    <3>1. /\ Ok(201, "proposed", facts).facts = facts
          /\ Ok(201, "proposed", facts).state = "proposed"
          /\ Created(Ok(201, "proposed", facts))
      BY <1>4
    <3> QED
      BY <2>3, <3>1
  <2> QED
    BY <2>2, <2>4
<1>6. PlanFailed(h) <=> Len(h) >= 3 /\ "no_nonce" \in defects
  BY <1>1, <1>2, <1>4, <1>5 DEF PlanFailed
<1> QED
  BY <1>3, <1>5, <1>6

Passes(k, h) == ~StopsEarly(k, h) /\ Holds(k, h)

\* The verdict on a scenario that has made all its calls, or stopped.
Verdict(k, h, p) ==
    /\ Passes(k, h) => /\ defects \cap Caught(k) = {}
                       /\ "advances_anyway" \notin defects => p \in ExpectedOf(k)
    /\ ~Passes(k, h) => ~(defects \subseteq {"advances_anyway"})

\* What the engine makes of the calls after _fresh_plan.
LEMMA EngineAnswers ==
    /\ Answer(Proposed, "approve") = Ok(200, "approved", {})
    /\ Done(Proposed, "approve") = IF "approve_forgets" \in defects THEN Proposed ELSE Approved
    /\ Answer(Proposed, "approve_wrong_nonce") =
          IF "any_nonce" \in defects THEN Ok(200, "approved", {}) ELSE Refused(403, "invalid_nonce")
    /\ Answer(Proposed, "approve_wrong_hash") =
          IF "any_hash" \in defects THEN Ok(200, "approved", {})
          ELSE Refused(403, "plan_hash_mismatch")
    /\ Answer(Approved, "approve") =
          IF "approves_again" \in defects THEN Ok(200, "approved", {})
          ELSE Refused(409, "plan_not_approvable")
    /\ \A call \in {"execute", "execute_traced"} :
          /\ Answer(Proposed, call) =
                IF "executes_unapproved" \in defects THEN Ok(200, "executed", Receipt(call))
                ELSE Refused(409, "plan_not_approved")
          /\ Answer(Approved, call) = Ok(200, "executed", Receipt(call))
          /\ Answer(Executed, call) =
                IF "executes_again" \in defects THEN Ok(200, "executed", Receipt(call))
                ELSE Refused(409, "plan_not_approved")
<1>1. \A p : /\ Answer(p, "approve") = Approve(p, "approve")
             /\ Answer(p, "approve_wrong_nonce") = Approve(p, "approve_wrong_nonce")
             /\ Answer(p, "approve_wrong_hash") = Approve(p, "approve_wrong_hash")
             /\ Answer(p, "execute") = Execute(p, "execute")
             /\ Answer(p, "execute_traced") = Execute(p, "execute_traced")
  BY DEF Answer
<1>2. /\ Approve(Proposed, "approve") = Ok(200, "approved", {})
      /\ Approve(Approved, "approve") = IF "approves_again" \in defects
                                        THEN Ok(200, "approved", {})
                                        ELSE Refused(409, "plan_not_approvable")
  BY DEF Approve, Proposed, Approved
<1>3. Approve(Proposed, "approve_wrong_nonce") =
        IF "any_nonce" \in defects THEN Ok(200, "approved", {}) ELSE Refused(403, "invalid_nonce")
  BY DEF Approve, Proposed
<1>4. Approve(Proposed, "approve_wrong_hash") =
        IF "any_hash" \in defects THEN Ok(200, "approved", {})
        ELSE Refused(403, "plan_hash_mismatch")
  BY DEF Approve, Proposed
<1>5. \A call :
         /\ Execute(Proposed, call) =
               IF "executes_unapproved" \in defects THEN Ok(200, "executed", Receipt(call))
               ELSE Refused(409, "plan_not_approved")
         /\ Execute(Approved, call) = Ok(200, "executed", Receipt(call))
         /\ Execute(Executed, call) =
               IF "executes_again" \in defects THEN Ok(200, "executed", Receipt(call))
               ELSE Refused(409, "plan_not_approved")
  BY DEF Execute, Proposed, Approved, Executed
<1>6. Done(Proposed, "approve") = IF "approve_forgets" \in defects THEN Proposed ELSE Approved
  <2>1. Ok(200, "approved", {}).status = 200
    BY DEF Ok
  <2>2. Answer(Proposed, "approve").status = 200
    <3>1. Answer(Proposed, "approve") = Approve(Proposed, "approve")
      BY <1>1
    <3>2. Approve(Proposed, "approve") = Ok(200, "approved", {})
      BY <1>2
    <3>3. Answer(Proposed, "approve") = Ok(200, "approved", {})
      BY <3>1, <3>2
    <3> QED
      BY <3>3, <2>1
  <2>3. [Proposed EXCEPT !.lifecycle = "approved"] = Approved
    BY DEF Proposed, Approved
  <2> QED
    BY <2>2, <2>3 DEF Done
<1> QED
  BY <1>1, <1>2, <1>3, <1>4, <1>5, <1>6

LEMMA EngineDoes ==
    /\ \A call \in {"approve_wrong_nonce", "approve_wrong_hash"} :
          "advances_anyway" \notin defects /\ Answer(Proposed, call).status # 200
             => Done(Proposed, call) = Proposed
    /\ "advances_anyway" \notin defects /\ Answer(Approved, "approve").status # 200
          => Done(Approved, "approve") = Approved
    /\ \A call \in {"execute", "execute_traced"} :
          /\ Answer(Proposed, call).status = 200 => Done(Proposed, call) = Executed
          /\ Done(Approved, call) = Executed
          /\ "advances_anyway" \notin defects =>
                /\ Answer(Proposed, call).status # 200 => Done(Proposed, call) = Proposed
                /\ Answer(Executed, call).status # 200 => Done(Executed, call) = Executed
<1>1. \A call \in {"execute", "execute_traced"} : Answer(Approved, call).status = 200
  <2>1. \A facts : Ok(200, "executed", facts).status = 200
    BY DEF Ok
  <2> QED
    BY <2>1, EngineAnswers
<1>2. ASSUME NEW p, NEW call \in {"approve", "approve_wrong_nonce", "approve_wrong_hash",
                                 "execute", "execute_traced"},
             "advances_anyway" \notin defects, Answer(p, call).status # 200
      PROVE  Done(p, call) = p
  BY <1>2 DEF Done
<1>3. /\ Executed = [lifecycle |-> "executed", executions |-> Proposed.executions + 1]
      /\ Executed = [lifecycle |-> "executed", executions |-> Approved.executions + 1]
  BY DEF Executed, Proposed, Approved
<1>4. \A call \in {"approve_wrong_nonce", "approve_wrong_hash"} :
         "advances_anyway" \notin defects /\ Answer(Proposed, call).status # 200
            => Done(Proposed, call) = Proposed
  BY <1>2
<1>5. "advances_anyway" \notin defects /\ Answer(Approved, "approve").status # 200
         => Done(Approved, "approve") = Approved
  BY <1>2
<1>6. ASSUME NEW call \in {"execute", "execute_traced"}
      PROVE  /\ Answer(Proposed, call).status = 200 => Done(Proposed, call) = Executed
             /\ Done(Approved, call) = Executed
             /\ "advances_anyway" \notin defects =>
                   /\ Answer(Proposed, call).status # 200 => Done(Proposed, call) = Proposed
                   /\ Answer(Executed, call).status # 200 => Done(Executed, call) = Executed
  <2>1. Answer(Proposed, call).status = 200 =>
           Done(Proposed, call) = [lifecycle |-> "executed", executions |-> Proposed.executions + 1]
    BY DEF Done
  <2>2. Done(Approved, call) = [lifecycle |-> "executed", executions |-> Approved.executions + 1]
    BY <1>1 DEF Done
  <2>3. "advances_anyway" \notin defects =>
           /\ Answer(Proposed, call).status # 200 => Done(Proposed, call) = Proposed
           /\ Answer(Executed, call).status # 200 => Done(Executed, call) = Executed
    BY <1>2
  <2> QED
    BY <1>3, <2>1, <2>2, <2>3
<1> QED
  BY <1>4, <1>5, <1>6

\* What a scenario reads of the answers.
LEMMA Refusals ==
    ASSUME NEW status, NEW code
    PROVE  Refused(status, code).status = status /\ Refused(status, code).code = Named(code)
BY DEF Refused

LEMMA Refused409 ==
    /\ Refused(409, "plan_not_approved").status = 409
    /\ Refused(409, "plan_not_approved").code = Named("plan_not_approved")
    /\ Refused(409, "plan_not_approvable").status = 409
    /\ Refused(409, "plan_not_approvable").code = Named("plan_not_approvable")
BY Refusals

LEMMA Refused403 ==
    /\ Refused(403, "invalid_nonce").status = 403
    /\ Refused(403, "invalid_nonce").code = Named("invalid_nonce")
    /\ Refused(403, "plan_hash_mismatch").status = 403
    /\ Refused(403, "plan_hash_mismatch").code = Named("plan_hash_mismatch")
BY Refusals

LEMMA Granted ==
    /\ Ok(200, "approved", {}).status = 200
    /\ Ok(200, "approved", {}).state = "approved"
    /\ \A facts : /\ Ok(200, "executed", facts).status = 200
                  /\ Ok(200, "executed", facts).state = "executed"
                  /\ Ok(200, "executed", facts).facts = facts
BY DEF Ok

LEMMA Names ==
    \A code \in {"plan_not_approved", "plan_not_approvable", "invalid_nonce",
                 "plan_hash_mismatch"} :
        Named(code) = code <=> "unnamed_codes" \notin defects
BY DEF Named

LEMMA DeniedVerdict ==
    ASSUME NEW h, NEW p, ~StopsEarly("execution_denied_by_policy", h),
           h[4] = Answer(Proposed, "execute"), p = Done(Proposed, "execute")
    PROVE  Verdict("execution_denied_by_policy", h, p)
<1> DEFINE k == "execution_denied_by_policy"
<1>1. Passes(k, h) <=> h[4].status = 409 /\ h[4].code = "plan_not_approved"
  BY DEF Passes, Holds
<1>2. CASE "executes_unapproved" \in defects
  <2>1. h[4] = Ok(200, "executed", Receipt("execute"))
    BY <1>2, EngineAnswers
  <2>2. h[4].status = 200
    BY <2>1, Granted
  <2>3. ~Passes(k, h)
    BY <1>1, <2>2
  <2> QED
    BY <1>2, <2>3 DEF Verdict
<1>3. CASE "executes_unapproved" \notin defects
  <2>1. h[4] = Refused(409, "plan_not_approved")
    BY <1>3, EngineAnswers
  <2>2. h[4].status = 409 /\ h[4].code = Named("plan_not_approved")
    BY <2>1, Refused409
  <2>3. "advances_anyway" \notin defects => p = Proposed
    BY <2>2, EngineDoes
  <2>4. Caught(k) = {"unnamed_codes", "executes_unapproved"} /\ ExpectedOf(k) = {Proposed}
    BY DEF Caught, ExpectedOf, Proposed
  <2>5. Passes(k, h) <=> "unnamed_codes" \notin defects
    BY <1>1, <2>2, Names
  <2> QED
    BY <1>3, <2>3, <2>4, <2>5 DEF Verdict
<1> QED
  BY <1>2, <1>3

LEMMA ReadOnlyVerdict ==
    ASSUME NEW h, NEW p, ~StopsEarly("read_only_recommendation", h),
           h[3].state = "proposed", "long_hash" \in h[3].facts, p = Proposed,
           "no_nonce" \notin defects
    PROVE  Verdict("read_only_recommendation", h, p)
<1> DEFINE k == "read_only_recommendation"
<1>1. Passes(k, h)
  BY DEF Passes, Holds
<1>2. Caught(k) = {"no_nonce"} /\ ExpectedOf(k) = {Proposed}
  BY DEF Caught, ExpectedOf, Proposed
<1> QED
  BY <1>1, <1>2 DEF Verdict

LEMMA RejectedVerdict ==
    ASSUME NEW h, NEW p, ~StopsEarly("approval_rejected", h),
           h[4] = Answer(Proposed, "approve_wrong_nonce"),
           p = Done(Proposed, "approve_wrong_nonce")
    PROVE  Verdict("approval_rejected", h, p)
<1> DEFINE k == "approval_rejected"
<1>1. Passes(k, h) <=> h[4].status = 403 /\ h[4].code = "invalid_nonce"
  BY DEF Passes, Holds
<1>2. Caught(k) = {"any_nonce"} /\ ExpectedOf(k) = {Proposed}
  BY DEF Caught, ExpectedOf, Proposed
<1>3. CASE "any_nonce" \in defects
  <2>1. h[4] = Ok(200, "approved", {})
    BY <1>3, EngineAnswers
  <2>2. h[4].status = 200
    BY <2>1, Granted
  <2>3. ~Passes(k, h)
    BY <1>1, <2>2
  <2> QED
    BY <1>3, <2>3 DEF Verdict
<1>4. CASE "any_nonce" \notin defects
  <2>1. h[4] = Refused(403, "invalid_nonce")
    BY <1>4, EngineAnswers
  <2>2. h[4].status = 403 /\ h[4].code = Named("invalid_nonce")
    BY <2>1, Refused403
  <2>3. "advances_anyway" \notin defects => p = Proposed
    BY <2>2, EngineDoes
  <2>4. Passes(k, h) <=> "unnamed_codes" \notin defects
    BY <1>1, <2>2, Names
  <2> QED
    BY <1>2, <1>4, <2>3, <2>4 DEF Verdict
<1> QED
  BY <1>3, <1>4

LEMMA ModifiedHashVerdict ==
    ASSUME NEW h, NEW p, ~StopsEarly("modified_plan_hash_rejected", h),
           h[4] = Answer(Proposed, "approve_wrong_hash"),
           p = Done(Proposed, "approve_wrong_hash")
    PROVE  Verdict("modified_plan_hash_rejected", h, p)
<1> DEFINE k == "modified_plan_hash_rejected"
<1>1. Passes(k, h) <=> h[4].status = 403 /\ h[4].code = "plan_hash_mismatch"
  BY DEF Passes, Holds
<1>2. Caught(k) = {"any_hash"} /\ ExpectedOf(k) = {Proposed}
  BY DEF Caught, ExpectedOf, Proposed
<1>3. CASE "any_hash" \in defects
  <2>1. h[4] = Ok(200, "approved", {})
    BY <1>3, EngineAnswers
  <2>2. h[4].status = 200
    BY <2>1, Granted
  <2>3. ~Passes(k, h)
    BY <1>1, <2>2
  <2> QED
    BY <1>3, <2>3 DEF Verdict
<1>4. CASE "any_hash" \notin defects
  <2>1. h[4] = Refused(403, "plan_hash_mismatch")
    BY <1>4, EngineAnswers
  <2>2. h[4].status = 403 /\ h[4].code = Named("plan_hash_mismatch")
    BY <2>1, Refused403
  <2>3. "advances_anyway" \notin defects => p = Proposed
    BY <2>2, EngineDoes
  <2>4. Passes(k, h) <=> "unnamed_codes" \notin defects
    BY <1>1, <2>2, Names
  <2> QED
    BY <1>2, <1>4, <2>3, <2>4 DEF Verdict
<1> QED
  BY <1>3, <1>4

\* The plan after an approval, which "approve_forgets" loses.
LEMMA AfterApproval ==
    ASSUME NEW q, q = Done(Proposed, "approve")
    PROVE  /\ q = IF "approve_forgets" \in defects THEN Proposed ELSE Approved
           /\ q \in {Proposed, Approved}
BY EngineAnswers

LEMMA ReusedChallengeVerdict ==
    ASSUME NEW h, NEW p, NEW q, ~StopsEarly("reused_challenge_rejected", h),
           h[4] = Answer(Proposed, "approve"), q = Done(Proposed, "approve"),
           h[5] = Answer(q, "approve"), p = Done(q, "approve")
    PROVE  Verdict("reused_challenge_rejected", h, p)
<1> DEFINE k == "reused_challenge_rejected"
<1>1. Passes(k, h) <=> /\ h[4].status = 200 /\ h[5].status >= 400
                       /\ h[5].code = "plan_not_approvable"
  BY DEF Passes, Holds
<1>2. Caught(k) = {"approves_again", "approve_forgets"} /\ ExpectedOf(k) = {Approved}
  BY DEF Caught, ExpectedOf, Approved
<1>3. h[4].status = 200
  BY EngineAnswers, Granted
<1>4. CASE "approves_again" \in defects \/ "approve_forgets" \in defects
  <2>1. h[5] = Ok(200, "approved", {})
    BY <1>4, AfterApproval, EngineAnswers
  <2>2. h[5].status = 200
    BY <2>1, Granted
  <2>3. ~Passes(k, h)
    BY <1>1, <2>2
  <2> QED
    BY <1>4, <2>3 DEF Verdict
<1>5. CASE "approves_again" \notin defects /\ "approve_forgets" \notin defects
  <2>1. q = Approved /\ h[5] = Refused(409, "plan_not_approvable")
    BY <1>5, AfterApproval, EngineAnswers
  <2>2. h[5].status = 409 /\ h[5].code = Named("plan_not_approvable")
    BY <2>1, Refused409
  <2>3. "advances_anyway" \notin defects => p = Approved
    BY <2>1, <2>2, EngineDoes
  <2>4. Passes(k, h) <=> "unnamed_codes" \notin defects
    BY <1>1, <1>3, <2>2, Names
  <2> QED
    BY <1>2, <1>5, <2>3, <2>4 DEF Verdict
<1> QED
  BY <1>4, <1>5

LEMMA Receipts ==
    /\ "no_receipt" \notin defects => Receipt("execute") # {}
    /\ ReceiptChecks \subseteq Receipt("execute_traced")
          <=> "no_receipt" \notin defects /\ "foreign_receipt" \notin defects
BY DEF Receipt, ReceiptChecks

\* What an execution that is answered with 200 has done.
LEMMA ExecutesOnce ==
    ASSUME NEW call \in {"execute", "execute_traced"}, NEW q \in {Proposed, Approved}
    PROVE  /\ Answer(q, call).status = 200 =>
                 Answer(q, call) = Ok(200, "executed", Receipt(call)) /\ Done(q, call) = Executed
           /\ q = Approved => Answer(q, call) = Ok(200, "executed", Receipt(call))
<1>1. CASE q = Approved
  BY <1>1, EngineAnswers, EngineDoes
<1>2. CASE q = Proposed
  <2>1. CASE "executes_unapproved" \in defects
    <3>1. Answer(q, call) = Ok(200, "executed", Receipt(call))
      BY <1>2, <2>1, EngineAnswers
    <3>2. Answer(q, call).status = 200
      BY <3>1, Granted
    <3> QED
      BY <1>2, <3>1, <3>2, EngineDoes
  <2>2. CASE "executes_unapproved" \notin defects
    <3>1. Answer(q, call) = Refused(409, "plan_not_approved")
      BY <1>2, <2>2, EngineAnswers
    <3>2. Answer(q, call).status = 409
      BY <3>1, Refused409
    <3>3. Proposed # Approved
      BY DEF Proposed, Approved
    <3> QED
      BY <1>2, <3>2, <3>3
  <2> QED
    BY <2>1, <2>2
<1> QED
  BY <1>1, <1>2

LEMMA GrantedVerdict ==
    ASSUME NEW h, NEW p, NEW q, ~StopsEarly("approval_granted_then_execute", h),
           q = Done(Proposed, "approve"), h[5] = Answer(q, "execute"), p = Done(q, "execute")
    PROVE  Verdict("approval_granted_then_execute", h, p)
<1> DEFINE k == "approval_granted_then_execute"
<1>1. Passes(k, h) <=> h[5].status = 200 /\ h[5].state = "executed" /\ h[5].facts # {}
  BY DEF Passes, Holds
<1>2. Caught(k) = {} /\ ExpectedOf(k) = {Executed}
  BY DEF Caught, ExpectedOf, Executed
<1>3. Passes(k, h) => p = Executed
  BY <1>1, AfterApproval, ExecutesOnce
<1>4. "approve_forgets" \notin defects /\ "no_receipt" \notin defects => Passes(k, h)
  <2> SUFFICES ASSUME "approve_forgets" \notin defects, "no_receipt" \notin defects
               PROVE  Passes(k, h)
    OBVIOUS
  <2>1. h[5] = Ok(200, "executed", Receipt("execute"))
    BY AfterApproval, ExecutesOnce
  <2>2. h[5].status = 200 /\ h[5].state = "executed" /\ h[5].facts = Receipt("execute")
    BY <2>1, Granted
  <2> QED
    BY <1>1, <2>2, Receipts
<1> QED
  BY <1>2, <1>3, <1>4 DEF Verdict

LEMMA DuplicateVerdict ==
    ASSUME NEW h, NEW p, NEW q, NEW r, ~StopsEarly("duplicate_execution_prevented", h),
           q = Done(Proposed, "approve"), h[5] = Answer(q, "execute"),
           r = Done(q, "execute"), h[6] = Answer(r, "execute"), p = Done(r, "execute")
    PROVE  Verdict("duplicate_execution_prevented", h, p)
<1> DEFINE k == "duplicate_execution_prevented"
<1>1. Passes(k, h) <=> /\ h[5].status = 200 /\ h[6].status = 409
                       /\ h[6].code = "plan_not_approved"
  BY DEF Passes, Holds
<1>2. Caught(k) = {"executes_again"} /\ ExpectedOf(k) = {Executed}
  BY DEF Caught, ExpectedOf, Executed
<1>3. h[5].status = 200 => r = Executed
  BY AfterApproval, ExecutesOnce
<1>4. r = Executed /\ "executes_again" \in defects => h[6].status = 200
  <2>1. r = Executed /\ "executes_again" \in defects
           => h[6] = Ok(200, "executed", Receipt("execute"))
    BY EngineAnswers
  <2> QED
    BY <2>1, Granted
<1>5. r = Executed /\ "executes_again" \notin defects =>
         /\ h[6].status = 409 /\ h[6].code = Named("plan_not_approved")
         /\ "advances_anyway" \notin defects => p = Executed
  <2> SUFFICES ASSUME r = Executed, "executes_again" \notin defects
               PROVE  /\ h[6].status = 409 /\ h[6].code = Named("plan_not_approved")
                      /\ "advances_anyway" \notin defects => p = Executed
    OBVIOUS
  <2>1. h[6] = Refused(409, "plan_not_approved")
    BY EngineAnswers
  <2>2. h[6].status = 409 /\ h[6].code = Named("plan_not_approved")
    BY <2>1, Refused409
  <2> QED
    BY <2>2, EngineDoes
<1>6. Passes(k, h) => /\ "executes_again" \notin defects
                      /\ "advances_anyway" \notin defects => p = Executed
  BY <1>1, <1>3, <1>4, <1>5
<1>7. ASSUME "approve_forgets" \notin defects, "executes_again" \notin defects,
             "unnamed_codes" \notin defects
      PROVE  Passes(k, h)
  <2>1. h[5] = Ok(200, "executed", Receipt("execute"))
    BY <1>7, AfterApproval, ExecutesOnce
  <2>2. h[5].status = 200
    BY <2>1, Granted
  <2> QED
    BY <1>1, <1>3, <1>5, <1>7, <2>2, Names
<1> QED
  BY <1>2, <1>6, <1>7 DEF Verdict

LEMMA ReceiptVerdict ==
    ASSUME NEW h, NEW p, NEW q, ~StopsEarly("execution_receipt_versioned", h),
           q = Done(Proposed, "approve"), h[5] = Answer(q, "execute_traced"),
           p = Done(q, "execute_traced")
    PROVE  Verdict("execution_receipt_versioned", h, p)
<1> DEFINE k == "execution_receipt_versioned"
<1>1. Passes(k, h) <=> h[5].status = 200 /\ ReceiptChecks \subseteq h[5].facts
  BY DEF Passes, Holds
<1>2. Caught(k) = {"no_receipt", "foreign_receipt"} /\ ExpectedOf(k) = {Executed}
  BY DEF Caught, ExpectedOf, Executed
<1>3. h[5].status = 200 => h[5].facts = Receipt("execute_traced") /\ p = Executed
  <2>1. h[5].status = 200 => /\ h[5] = Ok(200, "executed", Receipt("execute_traced"))
                             /\ p = Executed
    BY AfterApproval, ExecutesOnce
  <2> QED
    BY <2>1, Granted
<1>4. "approve_forgets" \notin defects => h[5].status = 200
  <2>1. "approve_forgets" \notin defects => h[5] = Ok(200, "executed", Receipt("execute_traced"))
    BY AfterApproval, ExecutesOnce
  <2> QED
    BY <2>1, Granted
<1> QED
  BY <1>1, <1>2, <1>3, <1>4, Receipts DEF Verdict

LEMMA ExportVerdict ==
    ASSUME NEW h, NEW p, ~StopsEarly("audit_export_hash_verifies", h),
           h[1] = Answer(Unproposed, "export"), p = Done(Unproposed, "export")
    PROVE  Verdict("audit_export_hash_verifies", h, p)
<1> DEFINE k == "audit_export_hash_verifies"
<1>1. Passes(k, h) <=> h[1].status = 200 /\ {"digest", "digest_matches"} \subseteq h[1].facts
  BY DEF Passes, Holds
<1>2. Caught(k) = {"stale_digest"} /\ ExpectedOf(k) = {Unproposed}
  BY DEF Caught, ExpectedOf
<1>3. PICK facts : facts = {"digest"} \cup (IF "stale_digest" \in defects THEN {}
                                           ELSE {"digest_matches"})
  OBVIOUS
<1>4. h[1] = Ok(200, "", facts)
  BY <1>3 DEF Answer
<1>5. Ok(200, "", facts).status = 200 /\ Ok(200, "", facts).facts = facts
  BY DEF Ok
<1>6. h[1].status = 200 /\ h[1].facts = facts
  BY <1>4, <1>5
<1>7. p = Unproposed
  BY DEF Done
<1>8. {"digest", "digest_matches"} \subseteq facts <=> "stale_digest" \notin defects
  BY <1>3
<1> QED
  BY <1>1, <1>2, <1>6, <1>7, <1>8 DEF Verdict

LEMMA ExercisedScenarios ==
    Exercised = {"read_only_recommendation", "execution_denied_by_policy",
                 "approval_granted_then_execute", "approval_rejected",
                 "duplicate_execution_prevented", "reused_challenge_rejected",
                 "modified_plan_hash_rejected", "execution_receipt_versioned",
                 "audit_export_hash_verifies"}
<1>1. 1 .. Len(SCENARIOS) = {1, 2, 3, 4, 5, 6, 7, 8, 9, 10, 11, 12}
  BY DEF SCENARIOS
<1> QED
  BY <1>1 DEF Exercised, SCENARIOS, NotExercisable

CallsAre(calls, k) == calls = CallsOf(k) \/ calls = PydanticCallsOf(k)

LEMMA CallTable ==
    ASSUME NEW k \in Exercised, NEW calls, CallsAre(calls, k)
    PROVE  /\ k # "audit_export_hash_verifies" =>
                 calls[1] = "case" /\ calls[2] = "run" /\ calls[3] = "plan"
           /\ k = "audit_export_hash_verifies" => Len(calls) = 1 /\ calls[1] = "export"
           /\ k = "read_only_recommendation" => Len(calls) = 3
           /\ k = "execution_denied_by_policy" => Len(calls) = 4 /\ calls[4] = "execute"
           /\ k = "approval_granted_then_execute" =>
                 Len(calls) = 5 /\ calls[4] = "approve" /\ calls[5] = "execute"
           /\ k = "approval_rejected" =>
                 /\ calls[4] = "approve_wrong_nonce"
                 /\ \/ Len(calls) = 4
                    \/ Len(calls) = 5 /\ calls[5] = "read_case"
           /\ k = "duplicate_execution_prevented" =>
                 /\ Len(calls) = 6 /\ calls[4] = "approve"
                 /\ calls[5] = "execute" /\ calls[6] = "execute"
           /\ k = "reused_challenge_rejected" =>
                 Len(calls) = 5 /\ calls[4] = "approve" /\ calls[5] = "approve"
           /\ k = "modified_plan_hash_rejected" =>
                 Len(calls) = 4 /\ calls[4] = "approve_wrong_hash"
           /\ k = "execution_receipt_versioned" =>
                 Len(calls) = 5 /\ calls[4] = "approve" /\ calls[5] = "execute_traced"
           /\ Len(calls) \in 1 .. 6
           /\ \A n \in 1 .. Len(calls) : calls[n] \in AllCalls
<1>1. k # "approval_rejected" => calls = CallsOf(k)
  BY DEF CallsAre, PydanticCallsOf
<1>2. /\ 1 .. 1 = {1} /\ 1 .. 3 = {1, 2, 3} /\ 1 .. 4 = {1, 2, 3, 4}
      /\ 1 .. 5 = {1, 2, 3, 4, 5} /\ 1 .. 6 = {1, 2, 3, 4, 5, 6}
  OBVIOUS
<1>3. CASE k = "read_only_recommendation"
  <2>1. calls = <<"case", "run", "plan">>
    BY <1>1, <1>3, ScenarioCalls
  <2>2. /\ Len(calls) = 3 /\ calls[1] = "case" /\ calls[2] = "run"
        /\ calls[3] = "plan"
    BY <2>1
  <2> QED
    BY <1>2, <1>3, <2>2 DEF AllCalls
<1>4. CASE k = "execution_denied_by_policy"
  <2>1. calls = <<"case", "run", "plan", "execute">>
    BY <1>1, <1>4, ScenarioCalls
  <2>2. /\ Len(calls) = 4 /\ calls[1] = "case" /\ calls[2] = "run"
        /\ calls[3] = "plan" /\ calls[4] = "execute"
    BY <2>1
  <2> QED
    BY <1>2, <1>4, <2>2 DEF AllCalls
<1>5. CASE k = "approval_granted_then_execute"
  <2>1. calls = <<"case", "run", "plan", "approve", "execute">>
    BY <1>1, <1>5, ScenarioCalls
  <2>2. /\ Len(calls) = 5 /\ calls[1] = "case" /\ calls[2] = "run"
        /\ calls[3] = "plan" /\ calls[4] = "approve"
        /\ calls[5] = "execute"
    BY <2>1
  <2> QED
    BY <1>2, <1>5, <2>2 DEF AllCalls
<1>6. CASE k = "approval_rejected"
  <2>1. CASE calls = CallsOf(k)
    <3>1. calls = <<"case", "run", "plan", "approve_wrong_nonce", "read_case">>
      BY <1>6, <2>1, ScenarioCalls
    <3>2. /\ Len(calls) = 5 /\ calls[1] = "case" /\ calls[2] = "run"
          /\ calls[3] = "plan" /\ calls[4] = "approve_wrong_nonce"
          /\ calls[5] = "read_case"
      BY <3>1
    <3>3. \A n \in 1 .. 5 : calls[n] \in AllCalls
      BY <1>2, <3>2 DEF AllCalls
    <3>4. Len(calls) \in 1 .. 6
      BY <3>2
    <3> QED
      BY <1>6, <3>2, <3>3, <3>4
  <2>2. CASE calls = PydanticCallsOf(k)
    <3>1. calls = <<"case", "run", "plan", "approve_wrong_nonce">>
      BY <1>6, <2>2, ScenarioCalls
    <3>2. /\ Len(calls) = 4 /\ calls[1] = "case" /\ calls[2] = "run"
          /\ calls[3] = "plan" /\ calls[4] = "approve_wrong_nonce"
      BY <3>1
    <3>3. \A n \in 1 .. 4 : calls[n] \in AllCalls
      BY <1>2, <3>2 DEF AllCalls
    <3>4. Len(calls) \in 1 .. 6
      BY <3>2
    <3> QED
      BY <1>6, <3>2, <3>3, <3>4
  <2> QED
    BY <2>1, <2>2 DEF CallsAre
<1>7. CASE k = "duplicate_execution_prevented"
  <2>1. calls = <<"case", "run", "plan", "approve", "execute", "execute">>
    BY <1>1, <1>7, ScenarioCalls
  <2>2. /\ Len(calls) = 6 /\ calls[1] = "case" /\ calls[2] = "run"
        /\ calls[3] = "plan" /\ calls[4] = "approve"
        /\ calls[5] = "execute" /\ calls[6] = "execute"
    BY <2>1
  <2> QED
    BY <1>2, <1>7, <2>2 DEF AllCalls
<1>8. CASE k = "reused_challenge_rejected"
  <2>1. calls = <<"case", "run", "plan", "approve", "approve">>
    BY <1>1, <1>8, ScenarioCalls
  <2>2. /\ Len(calls) = 5 /\ calls[1] = "case" /\ calls[2] = "run"
        /\ calls[3] = "plan" /\ calls[4] = "approve"
        /\ calls[5] = "approve"
    BY <2>1
  <2> QED
    BY <1>2, <1>8, <2>2 DEF AllCalls
<1>9. CASE k = "modified_plan_hash_rejected"
  <2>1. calls = <<"case", "run", "plan", "approve_wrong_hash">>
    BY <1>1, <1>9, ScenarioCalls
  <2>2. /\ Len(calls) = 4 /\ calls[1] = "case" /\ calls[2] = "run"
        /\ calls[3] = "plan" /\ calls[4] = "approve_wrong_hash"
    BY <2>1
  <2> QED
    BY <1>2, <1>9, <2>2 DEF AllCalls
<1>10. CASE k = "execution_receipt_versioned"
  <2>1. calls = <<"case", "run", "plan", "approve", "execute_traced">>
    BY <1>1, <1>10, ScenarioCalls
  <2>2. /\ Len(calls) = 5 /\ calls[1] = "case" /\ calls[2] = "run"
        /\ calls[3] = "plan" /\ calls[4] = "approve"
        /\ calls[5] = "execute_traced"
    BY <2>1
  <2> QED
    BY <1>2, <1>10, <2>2 DEF AllCalls
<1>11. CASE k = "audit_export_hash_verifies"
  <2>1. calls = <<"export">>
    BY <1>1, <1>11, ScenarioCalls
  <2>2. /\ Len(calls) = 1 /\ calls[1] = "export"
    BY <2>1
  <2> QED
    BY <1>2, <1>11, <2>2 DEF AllCalls
<1> QED
  BY <1>3, <1>4, <1>5, <1>6, <1>7, <1>8, <1>9, <1>10, <1>11, ExercisedScenarios

LEMMA Judgement ==
    ASSUME NEW k \in Exercised, NEW calls, CallsAre(calls, k),
           NEW h, Len(h) \in Nat, Len(h) <= Len(calls), NEW p, Traced(calls, h, p),
           StopsEarly(k, h) \/ ~(Len(h) < Len(calls))
    PROVE  Verdict(k, h, p)
<1>1. PICK states :
         /\ states[0] = Unproposed /\ states[Len(h)] = p
         /\ \A n \in 1 .. Len(h) : /\ h[n] = Answer(states[n - 1], calls[n])
                                   /\ states[n] = Done(states[n - 1], calls[n])
  BY DEF Traced
<1>2. k # "audit_export_hash_verifies" =>
         /\ Len(h) >= 3 => /\ h[3].state = "proposed" /\ "long_hash" \in h[3].facts
                           /\ states[3] = Proposed
         /\ PlanFailed(h) <=> Len(h) >= 3 /\ "no_nonce" \in defects
  BY <1>1, CallTable, FreshPlan
<1>3. Len(h) >= 1 => h[1] = Answer(Unproposed, calls[1]) /\ states[1] = Done(Unproposed, calls[1])
  <2>1. Len(h) >= 1 => 1 \in 1 .. Len(h) /\ 1 - 1 = 0
    OBVIOUS
  <2> QED
    BY <1>1, <2>1
<1>4. Len(h) >= 4 /\ k # "audit_export_hash_verifies" =>
         h[4] = Answer(Proposed, calls[4]) /\ states[4] = Done(Proposed, calls[4])
  <2>1. Len(h) >= 4 => 4 \in 1 .. Len(h) /\ 4 - 1 = 3 /\ Len(h) >= 3
    OBVIOUS
  <2> QED
    BY <1>1, <1>2, <2>1
<1>5. Len(h) >= 5 => h[5] = Answer(states[4], calls[5]) /\ states[5] = Done(states[4], calls[5])
  <2>1. Len(h) >= 5 => 5 \in 1 .. Len(h) /\ 5 - 1 = 4
    OBVIOUS
  <2> QED
    BY <1>1, <2>1
<1>6. Len(h) >= 6 => h[6] = Answer(states[5], calls[6]) /\ states[6] = Done(states[5], calls[6])
  <2>1. Len(h) >= 6 => 6 \in 1 .. Len(h) /\ 6 - 1 = 5
    OBVIOUS
  <2> QED
    BY <1>1, <2>1
<1>7. CASE StopsEarly(k, h)
  <2>1. ~(k = "approval_granted_then_execute" /\ Len(h) = 4
          /\ ~(h[4].status = 200 /\ h[4].state = "approved"))
    <3> SUFFICES ASSUME k = "approval_granted_then_execute", Len(h) = 4
                 PROVE  h[4].status = 200 /\ h[4].state = "approved"
      OBVIOUS
    <3>1. h[4] = Answer(Proposed, "approve")
      BY <1>4, CallTable
    <3>2. h[4] = Ok(200, "approved", {})
      BY <3>1, EngineAnswers
    <3> QED
      BY <3>2, Granted
  <2>2. "no_nonce" \in defects
    BY <1>2, <1>7, <2>1 DEF StopsEarly
  <2> QED
    BY <1>7, <2>2 DEF Verdict, Passes
<1>8. CASE ~StopsEarly(k, h)
  <2>1. Len(h) = Len(calls)
    BY <1>8, CallTable
  <2>2. CASE k = "read_only_recommendation"
    <3>1. Len(h) = 3 /\ p = Proposed
      BY <1>1, <1>2, <2>1, <2>2, CallTable
    <3>2. "no_nonce" \notin defects
      BY <1>2, <1>8, <2>2, <3>1 DEF StopsEarly
    <3> QED
      BY <1>2, <1>8, <2>2, <3>1, <3>2, ReadOnlyVerdict
  <2>3. CASE k = "execution_denied_by_policy"
    <3>1. Len(h) = 4 /\ h[4] = Answer(Proposed, "execute") /\ p = Done(Proposed, "execute")
      BY <1>1, <1>4, <2>1, <2>3, CallTable
    <3> QED
      BY <1>8, <2>3, <3>1, DeniedVerdict
  <2>4. CASE k = "approval_granted_then_execute"
    <3>1. /\ Len(h) = 5 /\ states[4] = Done(Proposed, "approve")
          /\ h[5] = Answer(states[4], "execute") /\ p = Done(states[4], "execute")
      BY <1>1, <1>4, <1>5, <2>1, <2>4, CallTable
    <3> QED
      BY <1>8, <2>4, <3>1, GrantedVerdict
  <2>5. CASE k = "approval_rejected"
    <3>1. /\ \/ Len(h) = 4
             \/ Len(h) = 5 /\ calls[5] = "read_case"
          /\ h[4] = Answer(Proposed, "approve_wrong_nonce")
          /\ states[4] = Done(Proposed, "approve_wrong_nonce")
      BY <1>4, <2>1, <2>5, CallTable
    <3>2. \A q : Done(q, "read_case") = q
      BY DEF Done
    <3>3. CASE Len(h) = 4
      BY <1>1, <1>8, <2>5, <3>1, <3>3, RejectedVerdict
    <3>4. CASE Len(h) = 5 /\ calls[5] = "read_case"
      <4>1. p = Done(states[4], "read_case")
        BY <1>1, <1>5, <3>4
      <4> QED
        BY <1>8, <2>5, <3>1, <3>2, <3>4, <4>1, RejectedVerdict
    <3> QED
      BY <3>1, <3>3, <3>4
  <2>6. CASE k = "duplicate_execution_prevented"
    <3>1. /\ Len(h) = 6 /\ states[4] = Done(Proposed, "approve")
          /\ h[5] = Answer(states[4], "execute") /\ states[5] = Done(states[4], "execute")
          /\ h[6] = Answer(states[5], "execute") /\ p = Done(states[5], "execute")
      BY <1>1, <1>4, <1>5, <1>6, <2>1, <2>6, CallTable
    <3> QED
      BY <1>8, <2>6, <3>1, DuplicateVerdict
  <2>7. CASE k = "reused_challenge_rejected"
    <3>1. /\ Len(h) = 5 /\ h[4] = Answer(Proposed, "approve")
          /\ states[4] = Done(Proposed, "approve")
          /\ h[5] = Answer(states[4], "approve") /\ p = Done(states[4], "approve")
      BY <1>1, <1>4, <1>5, <2>1, <2>7, CallTable
    <3> QED
      BY <1>8, <2>7, <3>1, ReusedChallengeVerdict
  <2>8. CASE k = "modified_plan_hash_rejected"
    <3>1. /\ Len(h) = 4 /\ h[4] = Answer(Proposed, "approve_wrong_hash")
          /\ p = Done(Proposed, "approve_wrong_hash")
      BY <1>1, <1>4, <2>1, <2>8, CallTable
    <3> QED
      BY <1>8, <2>8, <3>1, ModifiedHashVerdict
  <2>9. CASE k = "execution_receipt_versioned"
    <3>1. /\ Len(h) = 5 /\ states[4] = Done(Proposed, "approve")
          /\ h[5] = Answer(states[4], "execute_traced")
          /\ p = Done(states[4], "execute_traced")
      BY <1>1, <1>4, <1>5, <2>1, <2>9, CallTable
    <3> QED
      BY <1>8, <2>9, <3>1, ReceiptVerdict
  <2>10. CASE k = "audit_export_hash_verifies"
    <3>1. /\ Len(h) = 1 /\ h[1] = Answer(Unproposed, "export")
          /\ p = Done(Unproposed, "export")
      BY <1>1, <1>3, <2>1, <2>10, CallTable
    <3> QED
      BY <1>8, <2>10, <3>1, ExportVerdict
  <2> QED
    BY <2>2, <2>3, <2>4, <2>5, <2>6, <2>7, <2>8, <2>9, <2>10, ExercisedScenarios
<1> QED
  BY <1>7, <1>8

-----------------------------------------------------------------------------
(* The conformance suites: the steps keep the invariant                    *)

\* The scenario under way is one the suite exercises, its calls are in the table.
LEMMA UnderWay ==
    ASSUME CInv, Exercising
    PROVE  /\ key \in Exercised /\ CallsAre(Calls, key)
           /\ Len(results) + 1 \in 1 .. Len(SCENARIOS)
<1>1. Len(results) \in Nat /\ Len(SCENARIOS) \in Nat /\ Len(results) + 1 \in 1 .. Len(SCENARIOS)
  BY LenProperties DEF CInv, Exercising, Underway, SCENARIOS
<1>2. CallsAre(Calls, key)
  BY DEF CallsAre, Calls
<1> QED
  BY <1>1, <1>2 DEF Exercised, key, Exercising

\* Nobody repairs or breaks the engine during the run.
LEMMA SameEngine ==
    ASSUME defects' = defects
    PROVE  \A p, call : Answer(p, call)' = Answer(p, call) /\ Done(p, call)' = Done(p, call)
<1>1. \A code : Named(code)' = Named(code)
  BY DEF Named
<1>2. \A status, code : Refused(status, code)' = Refused(status, code)
  BY <1>1 DEF Refused
<1>3. \A call : Receipt(call)' = Receipt(call)
  BY DEF Receipt
<1>4. \A p, call : Approve(p, call)' = Approve(p, call)
  BY <1>2 DEF Approve
<1>5. \A p, call : Execute(p, call)' = Execute(p, call)
  BY <1>2, <1>3 DEF Execute
<1>6. \A p, call : Answer(p, call)' = Answer(p, call)
  BY <1>4, <1>5 DEF Answer
<1>7. \A p, call : Done(p, call)' = Done(p, call)
  BY <1>6 DEF Done
<1> QED
  BY <1>6, <1>7

LEMMA CallKeeps == CInv /\ Call => CInv'
<1> SUFFICES ASSUME CInv, Call PROVE CInv'
  OBVIOUS
<1>1. /\ key' = key /\ Calls' = Calls /\ defects' = defects /\ lost' = lost
      /\ results' = results /\ exit' = exit
  BY DEF Call, key, Calls
<1>2. PICK n : n = Len(heard)
  OBVIOUS
<1>3. PICK calls : calls = Calls
  OBVIOUS
<1>4. PICK c : c = NextCall
  OBVIOUS
<1>5. n \in Nat /\ n < Len(calls) /\ c \in AllCalls /\ c = calls[n + 1]
  <2>1. n \in Nat /\ n < Len(calls) /\ c = calls[n + 1]
    BY <1>2, <1>3, <1>4, LenProperties DEF CInv, Call, ToCall, NextCall
  <2>2. Exercising
    BY DEF Call
  <2>3. Len(calls) \in 1 .. 6 /\ \A k \in 1 .. Len(calls) : calls[k] \in AllCalls
    BY <1>3, <2>2, UnderWay, CallTable
  <2> QED
    BY <2>1, <2>3
<1>6. PICK a : a = Answer(plan, c)
  OBVIOUS
<1>7. PICK q : q = Done(plan, c)
  OBVIOUS
<1>8. heard' = Append(heard, a) /\ plan' = q
  BY <1>4, <1>6, <1>7 DEF Call
<1>9. a \in Answered /\ q \in PlanState
  BY <1>5, <1>6, <1>7, AnswerTypes DEF CInv
<1>10. /\ heard' \in Seq(Answered) /\ Len(heard') = n + 1 /\ heard'[n + 1] = a
       /\ \A k \in 1 .. n : heard'[k] = heard[k]
  BY <1>2, <1>8, <1>9, AppendProperties DEF CInv
<1>11. PICK states :
          /\ states[0] = Unproposed /\ states[n] = plan
          /\ \A k \in 1 .. n : /\ heard[k] = Answer(states[k - 1], calls[k])
                               /\ states[k] = Done(states[k - 1], calls[k])
  BY <1>2, <1>3 DEF CInv, Traced
<1>12. Traced(Calls, heard, plan)'
  <2>1. PICK next : next = [k \in 0 .. n + 1 |-> IF k = n + 1 THEN q ELSE states[k]]
    OBVIOUS
  <2>2. next[0] = Unproposed /\ next[n + 1] = q
    BY <1>5, <1>11, <2>1
  <2>3. \A k \in 1 .. n : next[k] = states[k] /\ next[k - 1] = states[k - 1]
    BY <1>5, <2>1
  <2>4. next[n] = plan
    BY <1>5, <1>11, <2>1
  <2>5. ASSUME NEW k \in 1 .. n + 1
        PROVE  /\ heard'[k] = Answer(next[k - 1], calls[k])
               /\ next[k] = Done(next[k - 1], calls[k])
    <3>1. CASE k = n + 1
      <4>1. k - 1 = n
        BY <1>5, <3>1
      <4> QED
        BY <1>5, <1>6, <1>7, <1>10, <2>2, <2>4, <3>1, <4>1
    <3>2. CASE k # n + 1
      <4>1. k \in 1 .. n
        BY <1>5, <3>2
      <4> QED
        BY <1>10, <1>11, <2>3, <4>1
    <3> QED
      BY <3>1, <3>2
  <2>6. \A k \in 1 .. n + 1 : /\ heard'[k] = Answer(next[k - 1], calls[k])'
                              /\ next[k] = Done(next[k - 1], calls[k])'
    BY <1>1, <2>5, SameEngine
  <2>7. Calls' = calls /\ Len(heard') = n + 1 /\ plan' = q
    BY <1>1, <1>3, <1>8, <1>10
  <2> QED
    BY <2>2, <2>6, <2>7 DEF Traced
<1>13. Len(heard') <= Len(Calls')
  BY <1>1, <1>3, <1>5, <1>10, UnderWay, CallTable DEF Call
<1>14. /\ \A i \in DOMAIN results' :
             Telling(SCENARIOS[i], results[i].outcome, results[i].plan)'
       /\ lost' > 0 => HasFailed'
       /\ exit' \in {0, 1} => Len(results') = Len(SCENARIOS) /\ (exit' = 1 <=> HasFailed')
  BY <1>1 DEF CInv, Telling, HasFailed
<1> QED
  BY <1>1, <1>8, <1>9, <1>10, <1>12, <1>13, <1>14 DEF CInv

\* No call, no answer.
LEMMA NothingHeard == \A calls : Traced(calls, <<>>, Unproposed)
<1> TAKE calls
<1>1. PICK states : states = [k \in {0} |-> Unproposed]
  OBVIOUS
<1>2. Len(<<>>) = 0 /\ 1 .. 0 = {} /\ states[0] = Unproposed
  BY <1>1
<1> QED
  BY <1>2 DEF Traced

LEMMA ConformanceBegins == ConfInit => CInv
<1> SUFFICES ASSUME ConfInit PROVE CInv
  OBVIOUS
<1>1. defects \subseteq KnownDefects
  BY ConformanceAssumption DEF ConfInit
<1>2. Unproposed \in PlanState /\ <<>> \in Seq(Answered) /\ <<>> \in Seq(Result)
      /\ Len(<<>>) = 0 /\ DOMAIN <<>> = {}
  BY DEF Unproposed, PlanState
<1>3. Traced(Calls, heard, plan)
  BY NothingHeard DEF ConfInit
<1>4. Len(results) <= Len(SCENARIOS)
  BY <1>2 DEF ConfInit, SCENARIOS
<1> QED
  BY <1>1, <1>2, <1>3, <1>4 DEF ConfInit, CInv

\* What holds of the outcome that is recorded last holds of all of them.
LEMMA RecordKeeps ==
    ASSUME CInv, Underway, NEW outcome \in {"PASS", "FAIL", "BLOCKED"}, NEW left \in PlanState,
           Recorded(outcome, left), defects' = defects, exit' = exit,
           lost' \in Nat, lost' >= lost, lost' = lost \/ outcome = "FAIL",
           NEW k, k = key, Telling(k, outcome, left)'
    PROVE  CInv'
<1>1. PICK n : n = Len(results)
  OBVIOUS
<1>2. PICK r : r = [outcome |-> outcome, plan |-> left]
  OBVIOUS
<1>3. r \in Result /\ r.outcome = outcome /\ r.plan = left
  BY <1>2 DEF Result
<1>4. /\ n \in Nat /\ n < Len(SCENARIOS) /\ DOMAIN results = 1 .. n
      /\ results \in Seq(Result)
  BY <1>1, LenProperties DEF CInv, Underway
<1>5. /\ results' \in Seq(Result) /\ Len(results') = n + 1 /\ results'[n + 1] = r
      /\ DOMAIN results' = 1 .. n + 1 /\ \A i \in 1 .. n : results'[i] = results[i]
  BY <1>1, <1>2, <1>3, <1>4, AppendProperties, LenProperties DEF Recorded
<1>6. heard' = <<>> /\ plan' = Unproposed
  BY DEF Recorded
<1>7. /\ defects' \subseteq KnownDefects /\ heard' \in Seq(Answered) /\ plan' \in PlanState
      /\ Traced(Calls, heard, plan)'
  <2>1. Unproposed \in PlanState /\ <<>> \in Seq(Answered)
    BY DEF Unproposed, PlanState
  <2>2. \A calls : Traced(calls, <<>>, Unproposed)'
    <3> TAKE calls
    <3>1. PICK states : states = [j \in {0} |-> Unproposed]
      OBVIOUS
    <3>2. Len(<<>>) = 0 /\ 1 .. 0 = {} /\ states[0] = Unproposed
      BY <3>1
    <3> QED
      BY <3>2 DEF Traced
  <2>3. Traced(Calls, heard, plan)'
    BY <1>6, <2>2
  <2> QED
    BY <1>6, <2>1, <2>3 DEF CInv
<1>8. Len(results') <= Len(SCENARIOS)
  <2>1. Len(SCENARIOS) = 12
    BY DEF SCENARIOS
  <2> QED
    BY <1>4, <1>5, <2>1
<1>9. ASSUME NEW i \in DOMAIN results'
      PROVE  Telling(SCENARIOS[i], results[i].outcome, results[i].plan)'
  <2>1. CASE i = n + 1
    <3>1. SCENARIOS[i] = k /\ results'[i].outcome = outcome /\ results'[i].plan = left
      BY <1>1, <1>3, <1>5, <2>1 DEF key
    <3> QED
      BY <3>1
  <2>2. CASE i # n + 1
    <3>1. i \in 1 .. n /\ i \in DOMAIN results /\ results'[i] = results[i]
      BY <1>4, <1>5, <2>2
    <3>2. Telling(SCENARIOS[i], results[i].outcome, results[i].plan)
      BY <3>1 DEF CInv
    <3> QED
      BY <3>1, <3>2 DEF Telling, CInv
  <2> QED
    BY <2>1, <2>2
<1>10. lost' > 0 => HasFailed'
  <2>1. CASE outcome = "FAIL"
    BY <1>3, <1>4, <1>5, <2>1 DEF HasFailed
  <2>2. CASE lost' = lost
    <3>1. lost > 0 => \E i \in 1 .. n : results[i].outcome = "FAIL"
      BY <1>4 DEF CInv, HasFailed
    <3> QED
      BY <1>4, <1>5, <2>2, <3>1 DEF HasFailed
  <2> QED
    BY <2>1, <2>2
<1>11. exit' = -1
  BY DEF Underway
<1> QED
  BY <1>5, <1>6, <1>7, <1>8, <1>9, <1>10, <1>11 DEF CInv

LEMMA BlockedKeeps == CInv /\ Blocked => CInv'
<1> SUFFICES ASSUME CInv, Blocked PROVE CInv'
  OBVIOUS
<1>1. PICK k : k = key
  OBVIOUS
<1>2. PICK left : left = plan
  OBVIOUS
<1>3. /\ Underway /\ Recorded("BLOCKED", left) /\ left \in PlanState
      /\ k \in NotExercisable
      /\ defects' = defects /\ exit' = exit /\ lost' = lost /\ lost \in Nat
  BY <1>1, <1>2 DEF Blocked, CInv
<1>4. Telling(k, "BLOCKED", left)'
  BY <1>3 DEF Telling
<1> QED
  BY <1>1, <1>3, <1>4, RecordKeeps

LEMMA CallRaisesKeeps == CInv /\ CallRaises => CInv'
<1> SUFFICES ASSUME CInv, CallRaises PROVE CInv'
  OBVIOUS
<1>1. PICK k : k = key
  OBVIOUS
<1>2. PICK left \in {plan, Done(plan, NextCall)} : Recorded("FAIL", left)
  BY DEF CallRaises, OnException
<1>3. Exercising /\ Underway /\ Len(heard) \in Nat /\ Len(heard) < Len(Calls)
  BY LenProperties DEF CallRaises, Exercising, ToCall, CInv
<1>4. NextCall \in AllCalls
  <2>1. Len(Calls) \in 1 .. 6 /\ \A j \in 1 .. Len(Calls) : Calls[j] \in AllCalls
    BY <1>3, UnderWay, CallTable
  <2> QED
    BY <1>3, <2>1 DEF NextCall
<1>5. left \in PlanState
  BY <1>2, <1>4, AnswerTypes DEF CInv
<1>6. defects' = defects /\ exit' = exit /\ lost' = lost + 1 /\ lost \in Nat
  BY DEF CallRaises, CInv
<1>7. Telling(k, "FAIL", left)'
  BY <1>6 DEF Telling
<1> QED
  BY <1>1, <1>2, <1>3, <1>5, <1>6, <1>7, RecordKeeps

LEMMA JudgedKeeps == CInv /\ Judged => CInv'
<1> SUFFICES ASSUME CInv, Judged PROVE CInv'
  OBVIOUS
<1>1. PICK k : k = key
  OBVIOUS
<1>2. PICK left : left = plan
  OBVIOUS
<1>3. PICK outcome : outcome = IF Passes(k, heard) THEN "PASS" ELSE "FAIL"
  OBVIOUS
<1>4. /\ Exercising /\ Underway /\ Recorded(outcome, left) /\ left \in PlanState
      /\ defects' = defects /\ exit' = exit /\ lost' = lost /\ lost \in Nat
      /\ Len(heard) \in Nat /\ (StopsEarly(k, heard) \/ ~(Len(heard) < Len(Calls)))
  BY <1>1, <1>2, <1>3, LenProperties DEF Judged, Exercising, ToCall, CInv, Passes
<1>5. k \in Exercised /\ CallsAre(Calls, k)
  BY <1>1, <1>4, UnderWay
<1>6. Len(heard) <= Len(Calls)
  <2>1. Len(Calls) \in 1 .. 6
    BY <1>5, CallTable
  <2>2. heard = <<>> => Len(heard) = 0
    OBVIOUS
  <2> QED
    BY <2>1, <2>2 DEF CInv
<1>7. Verdict(k, heard, left)
  BY <1>2, <1>4, <1>5, <1>6, Judgement DEF CInv
<1>8. Telling(k, outcome, left)'
  BY <1>3, <1>4, <1>7 DEF Verdict, Telling
<1>9. outcome \in {"PASS", "FAIL", "BLOCKED"}
  BY <1>3
<1> QED
  BY <1>1, <1>4, <1>8, <1>9, RecordKeeps

LEMMA ExitKeeps == CInv /\ (NotConfigured \/ Reported) => CInv'
<1> SUFFICES ASSUME CInv, NotConfigured \/ Reported PROVE CInv'
  OBVIOUS
<1>1. UNCHANGED <<suite, defects, plan, heard, results, lost>>
  BY DEF NotConfigured, Reported
<1>2. exit' \in {0, 1} => Len(results) = Len(SCENARIOS) /\ (exit' = 1 <=> HasFailed)
  BY DEF NotConfigured, Reported, HasFailed
<1>3. key' = key /\ Calls' = Calls /\ HasFailed' = HasFailed
  BY <1>1 DEF key, Calls, HasFailed
<1>4. \A p, call : Answer(p, call)' = Answer(p, call) /\ Done(p, call)' = Done(p, call)
  BY <1>1, SameEngine
<1>5. Traced(Calls, heard, plan)'
  BY <1>1, <1>3, <1>4 DEF CInv, Traced
<1>6. \A j \in DOMAIN results' : Telling(SCENARIOS[j], results[j].outcome, results[j].plan)'
  BY <1>1 DEF CInv, Telling
<1> QED
  BY <1>1, <1>2, <1>3, <1>5, <1>6 DEF CInv

LEMMA ConformanceGoesOn == CInv /\ [ConfNext]_suiteVars => CInv'
<1> SUFFICES ASSUME CInv, [ConfNext]_suiteVars PROVE CInv'
  OBVIOUS
<1>1. CASE UNCHANGED suiteVars
  <2>1. UNCHANGED <<suite, defects, plan, heard, results, lost, exit>>
    BY <1>1 DEF suiteVars
  <2>2. key' = key /\ Calls' = Calls /\ HasFailed' = HasFailed
    BY <2>1 DEF key, Calls, HasFailed
  <2>3. \A p, call : Answer(p, call)' = Answer(p, call) /\ Done(p, call)' = Done(p, call)
    BY <2>1, SameEngine
  <2>4. Traced(Calls, heard, plan)'
    BY <2>1, <2>2, <2>3 DEF CInv, Traced
  <2>5. \A j \in DOMAIN results' : Telling(SCENARIOS[j], results[j].outcome, results[j].plan)'
    BY <2>1 DEF CInv, Telling
  <2> QED
    BY <2>1, <2>2, <2>4, <2>5 DEF CInv
<1>2. CASE ConfNext
  BY <1>2, CallKeeps, BlockedKeeps, CallRaisesKeeps, JudgedKeeps, ExitKeeps DEF ConfNext
<1> QED
  BY <1>1, <1>2

LEMMA ToolsConform ==
    /\ ToolInit => ConfInit
    /\ [ToolNext]_toolVars => [ConfNext]_suiteVars
BY DEF ToolInit, ToolNext, toolVars

\* The inductive invariant: what has been heard is what the engine answers in
\* the states its calls lead to, and every outcome tells of its defects.
THEOREM ConformanceInvariant == ToolFairSpec => []CInv
<1>1. ToolInit => CInv
  BY ConformanceBegins, ToolsConform
<1>2. CInv /\ [ToolNext]_toolVars => CInv'
  BY ConformanceGoesOn, ToolsConform
<1> QED
  BY <1>1, <1>2, PTL DEF ToolFairSpec

\* Whatever set of defects the engine has and whichever calls are lost: the
\* gate is passed if and only if no call was lost and nothing is wrong that a
\* caller can see.
THEOREM GateSoundness == ToolFairSpec => []GateIsSound
<1>1. CInv => GateIsSound
  <2> SUFFICES ASSUME CInv, exit \in {0, 1}
               PROVE  exit = 0 <=> defects \subseteq {"advances_anyway"} /\ lost = 0
    BY DEF GateIsSound
  <2>1. /\ Len(results) = Len(SCENARIOS) /\ DOMAIN results = 1 .. Len(SCENARIOS)
        /\ exit = 1 <=> HasFailed
    BY LenProperties DEF CInv
  <2>2. CASE exit = 1
    <3>1. PICK i \in DOMAIN results : results[i].outcome = "FAIL"
      BY <2>1, <2>2 DEF HasFailed
    <3>2. lost > 0 \/ ~(defects \subseteq {"advances_anyway"})
      BY <3>1 DEF CInv, Telling
    <3> QED
      BY <2>2, <3>2
  <2>3. CASE exit = 0
    <3>1. ~HasFailed /\ lost = 0
      BY <2>1, <2>3 DEF CInv
    <3>2. ASSUME NEW k \in Exercised PROVE defects \cap Caught(k) = {}
      <4>1. PICK i \in 1 .. Len(SCENARIOS) : k = SCENARIOS[i]
        BY <3>2 DEF Exercised
      <4>2. i \in DOMAIN results /\ results[i].outcome \in {"PASS", "FAIL", "BLOCKED"}
        <5>1. i \in 1 .. Len(results) /\ results \in Seq(Result) /\ i \in DOMAIN results
          BY <2>1, <4>1 DEF CInv
        <5>2. results[i] \in Result
          BY <5>1, ElementOfSeq
        <5> QED
          BY <5>1, <5>2 DEF Result
      <4>3. results[i].outcome # "FAIL" /\ results[i].outcome # "BLOCKED"
        BY <3>1, <3>2, <4>1, <4>2 DEF HasFailed, CInv, Telling, Exercised
      <4> QED
        BY <4>1, <4>2, <4>3 DEF CInv, Telling
    <3>3. /\ "no_nonce" \notin defects /\ "unnamed_codes" \notin defects
          /\ "executes_unapproved" \notin defects /\ "any_nonce" \notin defects
          /\ "executes_again" \notin defects /\ "approves_again" \notin defects
          /\ "approve_forgets" \notin defects /\ "any_hash" \notin defects
          /\ "no_receipt" \notin defects /\ "foreign_receipt" \notin defects
          /\ "stale_digest" \notin defects
      BY <3>2, ExercisedScenarios DEF Caught
    <3>4. defects \subseteq {"advances_anyway"}
      BY <3>3 DEF CInv, KnownDefects
    <3> QED
      BY <2>3, <3>1, <3>4
  <2> QED
    BY <2>2, <2>3
<1> QED
  BY <1>1, ConformanceInvariant, PTL

\* A scenario passes only on an engine that has done what the scenario expects.
THEOREM PassesAreEarned == ToolFairSpec => []PassIsEarned
<1>1. CInv => PassIsEarned
  BY DEF CInv, Telling, PassIsEarned
<1> QED
  BY <1>1, ConformanceInvariant, PTL

=============================================================================
