---------------------------- MODULE ReleaseBumps ----------------------------
(***************************************************************************)
(* scripts/compute_release_bumps.py and scripts/resolve_release_target.py: *)
(* what a history of commits and a set of release tags ask to be released, *)
(* and which package a tag publishes.                                      *)
(*                                                                         *)
(* A history is a sequence of [type, touches, versions]: the Conventional  *)
(* Commits type of the message, the packages whose directory the commit    *)
(* changes, and the version each package's own file has in its tree.  A    *)
(* tag is [package, version, commit], commit an index into the history.    *)
(***************************************************************************)
EXTENDS Integers, Sequences

CONSTANT Packages       \* the packages, in the order they are discovered in

\* The directories of two packages have different names.
ASSUME PackagesAssumption ==
    \A i, j \in 1 .. Len(Packages) : Packages[i] = Packages[j] => i = j

discover_packages == {Packages[i] : i \in 1 .. Len(Packages)}

Version == Nat \X Nat \X Nat

Newer(v, w) ==
    \/ v[1] > w[1]
    \/ v[1] = w[1] /\ v[2] > w[2]
    \/ v[1] = w[1] /\ v[2] = w[2] /\ v[3] > w[3]

\* Before every commit.
NoTag == [package |-> "none", version |-> <<0, 0, 0>>, commit |-> 0]

\* The tag with the highest version.
latest_tag_for(p, tags) ==
    LET own == {t \in tags : t.package = p}
    IN IF own = {} THEN NoTag
       ELSE CHOOSE t \in own : \A u \in own : ~Newer(u.version, t.version)

\* Mutant: a clone of depth one.
TypesSince_HeadOnly(p, since_tag, history) ==
    {history[i].type : i \in {i \in {Len(history)} : p \in history[i].touches}}

\* git log since_tag..HEAD -- the package's directory
TypesSince(p, since_tag, history) ==
    {history[i].type : i \in {i \in since_tag.commit + 1 .. Len(history) :
                                 p \in history[i].touches}}

\* Mutant: the lowest.
bump_kind_for_Lowest(p, since_tag, history) ==
    LET types == TypesSince(p, since_tag, history)
    IN CASE "fix" \in types -> "patch"
         [] "feat" \in types /\ "fix" \notin types -> "minor"
         [] "break" \in types /\ types \cap {"feat", "fix"} = {} -> "major"
         [] types \cap {"break", "feat", "fix"} = {} -> "none"

\* The highest bump that a commit since the tag asks for.
bump_kind_for(p, since_tag, history) ==
    LET types == TypesSince(p, since_tag, history)
    IN CASE "break" \in types -> "major"
         [] "feat" \in types /\ "break" \notin types -> "minor"
         [] "fix" \in types /\ types \cap {"break", "feat"} = {} -> "patch"
         [] types \cap {"break", "feat", "fix"} = {} -> "none"

apply_bump(v, kind) ==
    CASE kind = "major" -> <<v[1] + 1, 0, 0>>
      [] kind = "minor" -> <<v[1], v[2] + 1, 0>>
      [] kind = "patch" -> <<v[1], v[2], v[3] + 1>>

current_version(p, history) == history[Len(history)].versions[p]

\* A package without a tag is released as it is; any other one is bumped from
\* the version on disk, whatever its tag says.
BumpOf(p, tags, history) ==
    LET since_tag == latest_tag_for(p, tags)
        kind == bump_kind_for(p, since_tag, history)
        current == current_version(p, history)
    IN CASE kind = "none" -> [package |-> p, kind |-> "none", version |-> current]
         [] kind # "none" /\ since_tag = NoTag ->
               [package |-> p, kind |-> "bootstrap", version |-> current]
         [] kind # "none" /\ since_tag # NoTag ->
               [package |-> p, kind |-> kind, version |-> apply_bump(current, kind)]

\* main: what --apply --json prints of the packages with bumped = true, each
\* at its package's index.
Bumps(tags, history) ==
    [i \in {i \in 1 .. Len(Packages) :
               BumpOf(Packages[i], tags, history).kind # "none"} |->
        BumpOf(Packages[i], tags, history)]

\* Mutant: without --apply.
Written_Nothing(plan, versions) == versions

\* write_new_version, for each bump that is not a package's first release.
Written(plan, versions) ==
    [p \in DOMAIN versions |->
        IF \E i \in DOMAIN plan : plan[i].package = p
        THEN plan[CHOOSE i \in DOMAIN plan : plan[i].package = p].version
        ELSE versions[p]]

\* A tag is published only from a tree that carries its version.
resolve(tag, history) ==
    CASE tag.package \notin discover_packages -> "no_package"
      [] tag.package \in discover_packages ->
            IF tag.version = current_version(tag.package,
                                             SubSeq(history, 1, tag.commit))
            THEN "resolved" ELSE "mismatch"

=============================================================================
