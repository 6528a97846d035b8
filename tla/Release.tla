------------------------------ MODULE Release ------------------------------
(***************************************************************************)
(* Releasing a package: the release commands of src/cli/project.ts, run by *)
(* maintainers in clones of their own, and the workflow publish.yml that a *)
(* pushed tag starts.                                                      *)
(*                                                                         *)
(* A command is a sequence of git and npm processes, and may be            *)
(* interrupted between any two of them; what it has done by then stays.    *)
(* Meanwhile others push commits, run releases, and publish.               *)
(*                                                                         *)
(* Nobody rewinds origin/main or moves a tag there: main is the sequence   *)
(* of the versions its commits' package.json has, and a commit on it is a  *)
(* position.  A clone is at a position, and has at most one commit that it *)
(* could not push yet.                                                     *)
(***************************************************************************)
EXTENDS Naturals, Sequences

CONSTANTS
    Maintainers,
    Bases,          \* how many MAJOR.MINOR.PATCH there are
    Pres,           \* how many prereleases each of them has
    MaxCommits,     \* bound on the length of main
    Nobody

ASSUME ReleaseAssumption ==
    /\ Bases \in Nat \ {0} /\ Pres \in Nat /\ MaxCommits \in Nat \ {0}
    /\ Nobody \notin Maintainers

(* The versions in compareVersions' order: of each base its prereleases,   *)
(* then the stable version.  0 is no version.                              *)
Slots == Pres + 1
Versions == 1 .. Bases * Slots
Stable(v) == v % Slots = 0
StableOf(v) == IF Stable(v) THEN v ELSE v + Slots - (v % Slots)

VARIABLES
    main,       \* origin/main: the version of each commit
    tags,       \* tags of origin: the commit of each version's tag, 0 for none
    runs,       \* publish.yml's run for each tag
    published,  \* npm: the commit each version was built from, 0 for none
    latest,     \* npm's dist-tag latest
    clone,      \* the maintainers' clones, and the command each runs
    solo        \* environment: the one who works when all is quiet, else Nobody

vars == <<main, tags, runs, published, latest, clone, solo>>
origin == <<main, tags, runs>>
npm == <<published, latest>>

\* What a command does next; the first four are the commands, just synchronized.
Commands == {"normal", "version", "pre", "first"}
PCs == Commands \cup {"idle", "unpublished", "untagged", "bumped", "committed", "pushed", "verified", "tagged", "done", "ready"}
Clone == [pc : PCs, at : 1 .. MaxCommits, ahead : Versions \cup {0},
          tree : Versions, tags : [Versions -> 0 .. MaxCommits + 1]]

\* Only shapes: the history, the registry and the clones.
TypeOK ==
    /\ main \in Seq(Versions) /\ Len(main) \in 1 .. MaxCommits
    /\ tags \in [Versions -> 0 .. MaxCommits]
    /\ runs \in [Versions -> {"none", "queued", "passed", "failed"}]
    /\ published \in [Versions -> 0 .. MaxCommits]
    /\ latest \in Versions \cup {0}
    /\ clone \in [Maintainers -> Clone]
    /\ solo \in Maintainers \cup {Nobody}

\* A package that was never released, and clones of it.
Init ==
    /\ main = <<Slots>>
    /\ tags = [v \in Versions |-> 0]
    /\ runs = [v \in Versions |-> "none"]
    /\ published = [v \in Versions |-> 0]
    /\ latest = 0
    /\ clone = [m \in Maintainers |->
                  [pc |-> "idle", at |-> 1, ahead |-> 0,
                   tree |-> Slots, tags |-> tags]]
    /\ solo = Nobody

-----------------------------------------------------------------------------
(* Git.                                                                    *)

Unpushed == MaxCommits + 1
HeadOf(m) == IF clone[m].ahead = 0 THEN clone[m].at ELSE Unpushed
HeadVersion(m) == IF clone[m].ahead = 0 THEN main[clone[m].at] ELSE clone[m].ahead
Clean(m) == clone[m].tree = HeadVersion(m)

Goto(m, pc) == clone' = [clone EXCEPT ![m].pc = pc]
At(m, pc) == clone[m].pc = pc
\* No command runs in m's clone; the one who is alone stops when the release is done.
Idle(m) ==
    \/ solo = Nobody /\ clone[m].pc \in {"idle", "done", "ready"}
    \/ solo = m /\ clone[m].pc \in {"idle", "ready"}

\* git fetch --tags brings the tags that the clone has not got, and fails if it has one
\* elsewhere.
Clobbers(m) == \E v \in Versions :
    tags[v] # 0 /\ clone[m].tags[v] # 0 /\ clone[m].tags[v] # tags[v]
Fetched(m) == [v \in Versions |-> IF clone[m].tags[v] # 0 THEN clone[m].tags[v] ELSE tags[v]]

(* assertClean and assertMainIsSynchronized: git fetch, then main and      *)
(* origin/main compared.  A command that is refused has fetched the tags.  *)
Synchronized(m) ==
    Clean(m) /\ ~Clobbers(m) /\ clone[m].ahead = 0 /\ clone[m].at = Len(main)
Start(m, command) ==
    /\ Idle(m) /\ Clean(m)
    /\ solo = m => command = "normal"
    /\ clone' = [clone EXCEPT ![m] = [@ EXCEPT
                    !.pc = IF Synchronized(m) THEN command ELSE "idle", !.tags = Fetched(m)]]
    /\ UNCHANGED <<origin, npm, solo>>

\* tagExists: in the clone, else at origin, where a query that fails finds nothing.
Local(m, v) == clone[m].tags[v] # 0
TagSeen(m, v) == {Local(m, v) \/ tags[v] # 0, Local(m, v)}

-----------------------------------------------------------------------------
(* release, from the registry's answers to the bumped manifest.            *)

Current(m) == clone[m].tree
Bump(m, v) == clone' = [clone EXCEPT ![m] = [@ EXCEPT !.pc = "bumped", !.tree = v]]

\* npm version patch, minor or major.
Bumps(v) == {w \in Versions : Stable(w) /\ w > v /\ w >= StableOf(v)}

(* A version that is published is bumped.  One that is not, and has no tag *)
(* either, is bumped if it was prepared; anything else is refused: a tag   *)
(* whose publishing failed, and a package npm has not got.  Each answer is *)
(* asked for when the one before it is there.                              *)
BumpNext(m) == \E v \in Bumps(Current(m)) : Bump(m, v)

ReleaseNext(m) ==
    /\ At(m, "normal")
    /\ \/ published[Current(m)] # 0 /\ BumpNext(m)
       \/ published[Current(m)] = 0 /\ Goto(m, "unpublished")
    /\ UNCHANGED <<origin, npm, solo>>

LookForTag(m) ==
    /\ At(m, "unpublished")
    /\ \E tagged \in TagSeen(m, Current(m)) : Goto(m, IF tagged THEN "idle" ELSE "untagged")
    /\ UNCHANGED <<origin, npm, solo>>

\* Against: what was pushed to main and never tagged is not released past.
NeverPrepared(v) == FALSE
\* isPreparedReleaseVersion, of a version without a tag.
Prepared(v) == latest # 0 /\ v > latest

LookForLatest(m) ==
    /\ At(m, "untagged")
    /\ \/ Prepared(Current(m)) /\ BumpNext(m)
       \/ ~Prepared(Current(m)) /\ Goto(m, "idle")
    /\ UNCHANGED <<origin, npm, solo>>

\* requestedReleaseAction: the version of --version, if nobody has it.
ReleaseVersion(m) ==
    /\ At(m, "version")
    /\ \E v \in Versions :
        /\ Stable(v)
        /\ \E tagged \in TagSeen(m, v) :
            \/ /\ v >= Current(m) /\ published[v] = 0 /\ ~tagged
               /\ Bump(m, v)
            \/ /\ v < Current(m) \/ published[v] # 0 \/ tagged
               /\ Goto(m, "idle")
    /\ UNCHANGED <<origin, npm, solo>>

\* preReleaseAction, again for as long as npm has the version it answers.
NextPre(v) == v + 1
PreReleases(v) == {w \in Versions : NextPre(v) <= w /\ w < StableOf(NextPre(v))}
ReleasePre(m) ==
    /\ At(m, "pre")
    /\ \E v \in PreReleases(Current(m)) :
        /\ published[v] = 0
        /\ \A w \in PreReleases(Current(m)) : w < v => published[w] # 0
        /\ Bump(m, v)
    /\ UNCHANGED <<origin, npm, solo>>

-----------------------------------------------------------------------------
(* finishRelease.                                                          *)

\* Against: the tag before the push.
StraightToTag == "verified"
AfterCommit == "committed"

\* git add; git commit, if anything is staged.
Commit(m) ==
    /\ At(m, "bumped")
    /\ clone' = [clone EXCEPT ![m] = [@ EXCEPT
                    !.pc = AfterCommit,
                    !.ahead = IF Clean(m) THEN clone[m].ahead ELSE clone[m].tree]]
    /\ UNCHANGED <<origin, npm, solo>>

FastForward(m) == clone[m].at = Len(main)

(* git push origin main: it moves main, finds it up to date, or is refused *)
(* because others have pushed.  An answer that is lost stops the command.  *)
PushMain(m) ==
    /\ At(m, "committed")
    /\ \/ /\ FastForward(m)
          /\ clone[m].ahead # 0 => Len(main) < MaxCommits
          /\ main' = IF clone[m].ahead = 0 THEN main ELSE Append(main, clone[m].ahead)
          /\ \E pc \in {"pushed"} \cup (IF solo = Nobody THEN {"idle"} ELSE {}) :
              clone' = [clone EXCEPT ![m] = [@ EXCEPT !.pc = pc, !.at = Len(main'), !.ahead = 0]]
       \/ ~FastForward(m) /\ Goto(m, "idle") /\ UNCHANGED main
    /\ UNCHANGED <<tags, runs, npm, solo>>

\* git ls-remote: the release commit is still the head of main, or there is no tag.
VerifyMain(m) ==
    /\ At(m, "pushed")
    /\ Goto(m, IF clone[m].ahead = 0 /\ clone[m].at = Len(main) THEN "verified" ELSE "idle")
    /\ UNCHANGED <<origin, npm, solo>>

\* tagExists, and git tag.
Tag(m) ==
    /\ At(m, "verified")
    /\ \E tagged \in TagSeen(m, Current(m)) :
        IF tagged THEN Goto(m, "idle")
        ELSE clone' = [clone EXCEPT ![m] = [@ EXCEPT !.pc = "tagged",
                                                     !.tags[clone[m].tree] = HeadOf(m)]]
    /\ UNCHANGED <<origin, npm, solo>>

\* Against: a tag that another clone pushed is replaced.
AnyTag(m, v) == TRUE
Accepted(m, v) == tags[v] \in {0, clone[m].tags[v]}

\* git push origin refs/tags/v: a new tag starts publish.yml.
Pushed(m, v) ==
    /\ tags' = [tags EXCEPT ![v] = clone[m].tags[v]]
    /\ runs' = [runs EXCEPT ![v] = IF tags[v] = 0 THEN "queued" ELSE @]
    /\ UNCHANGED main
PushTag(m) ==
    /\ At(m, "tagged")
    /\ IF Accepted(m, Current(m))
       THEN /\ Pushed(m, Current(m))
            /\ \E pc \in {"done"} \cup (IF solo = Nobody THEN {"idle"} ELSE {}) : Goto(m, pc)
       ELSE Goto(m, "idle") /\ UNCHANGED origin
    /\ UNCHANGED <<npm, solo>>

\* The terminal is closed, or a process of the command fails.
Interrupt(m) ==
    /\ clone[m].pc \notin {"idle", "done", "ready"} /\ solo = Nobody
    /\ Goto(m, "idle")
    /\ UNCHANGED <<origin, npm, solo>>

-----------------------------------------------------------------------------
(* publishFirst: release --first.                                          *)

\* The dist-tag of npm publish without --tag is latest, whatever the version.
Publish(v, commit) ==
    /\ published' = [published EXCEPT ![v] = commit]
    /\ latest' = v

PublishFirst(m) ==
    /\ At(m, "first")
    /\ \/ published[Current(m)] = 0 /\ Publish(Current(m), HeadOf(m))
       \/ published[Current(m)] # 0 /\ UNCHANGED npm
    /\ Goto(m, "idle")
    /\ UNCHANGED <<origin, solo>>

-----------------------------------------------------------------------------
(* publish.yml.                                                            *)

TagMatchesManifest(v) == main[tags[v]] = v

\* npm refuses a version it has; a prerelease is next, and latest only if it is the first.
RunPublish(v) ==
    /\ runs[v] = "queued"
    /\ \/ /\ TagMatchesManifest(v) /\ published[v] = 0
          /\ published' = [published EXCEPT ![v] = tags[v]]
          /\ latest' = IF Stable(v) \/ latest = 0 THEN v ELSE latest
          /\ runs' = [runs EXCEPT ![v] = "passed"]
       \/ /\ ~TagMatchesManifest(v) \/ published[v] # 0
          /\ runs' = [runs EXCEPT ![v] = "failed"]
          /\ UNCHANGED npm
    /\ UNCHANGED <<main, tags, clone, solo>>

\* CI fails, npm is away, or the queue's group cancels the run.
RunFails(v) ==
    /\ runs[v] = "queued" /\ solo = Nobody
    /\ runs' = [runs EXCEPT ![v] = "failed"]
    /\ UNCHANGED <<main, tags, npm, clone, solo>>

\* A maintainer repairs a failed publish: the run is started again.
Rerun(v) ==
    /\ runs[v] = "failed" /\ published[v] = 0
    /\ runs' = [runs EXCEPT ![v] = "queued"]
    /\ UNCHANGED <<main, tags, npm, clone, solo>>

-----------------------------------------------------------------------------
(* By hand.                                                                *)

\* git reset --hard origin/main, after a pull.
Reset(m) ==
    /\ Idle(m) /\ ~Synchronized(m)
    /\ clone' = [clone EXCEPT ![m] = [@ EXCEPT !.pc = "idle", !.at = Len(main), !.ahead = 0,
                                              !.tree = main[Len(main)]]]
    /\ UNCHANGED <<origin, npm, solo>>

\* git push of a tag whose push failed; git tag -d if origin has another.
RepairTag(m, v) ==
    /\ Idle(m)
    /\ Local(m, v) /\ tags[v] # clone[m].tags[v]
    /\ IF tags[v] = 0
       THEN Pushed(m, v) /\ UNCHANGED clone
       ELSE /\ clone' = [clone EXCEPT ![m].tags[v] = 0]
            /\ UNCHANGED origin
    /\ UNCHANGED <<npm, solo>>

\* Work is pushed to main, and may prepare a version.
Work ==
    /\ solo = Nobody /\ Len(main) < MaxCommits
    /\ \E v \in {main[Len(main)]} \cup Bumps(main[Len(main)]) : main' = Append(main, v)
    /\ UNCHANGED <<tags, runs, npm, clone, solo>>

-----------------------------------------------------------------------------
(* release-status: the clone, its tag, the tag's run and npm.              *)

\* Against: npm is believed without the tag and its run.
OnNpm(m) == Clean(m) /\ clone[m].ahead = 0 /\ published[Current(m)] # 0
Ready(m) ==
    /\ Clean(m) /\ clone[m].ahead = 0
    /\ tags[Current(m)] # 0 /\ tags[Current(m)] = clone[m].tags[Current(m)]
    /\ runs[Current(m)] = "passed" /\ published[Current(m)] # 0
ReleaseStatus(m) ==
    /\ Idle(m)
    /\ Ready(m)
    /\ Goto(m, "ready")
    /\ UNCHANGED <<origin, npm, solo>>

\* From here on one maintainer is alone, and there is room for a version and a commit.
BecomeQuiet(m) ==
    /\ solo = Nobody /\ solo' = m
    /\ \A w \in Maintainers : At(w, "idle")
    /\ Len(main) < MaxCommits
    /\ \A w \in Maintainers : Bumps(main[Len(main)]) # {}
    /\ published # [v \in Versions |-> 0]
    /\ UNCHANGED <<origin, npm, clone>>

-----------------------------------------------------------------------------
Finish(m) == Commit(m) \/ PushMain(m) \/ VerifyMain(m) \/ Tag(m) \/ PushTag(m)
Decide(m) == \/ ReleaseNext(m) \/ LookForTag(m) \/ LookForLatest(m)
             \/ ReleaseVersion(m) \/ ReleasePre(m) \/ PublishFirst(m)

Next ==
    \/ \E m \in Maintainers :
        \/ \E command \in Commands : Start(m, command)
        \/ Decide(m) \/ Finish(m) \/ Interrupt(m)
        \/ Reset(m) \/ ReleaseStatus(m) \/ BecomeQuiet(m)
        \/ \E v \in Versions : RepairTag(m, v)
    \/ \E v \in Versions : RunPublish(v) \/ RunFails(v) \/ Rerun(v)
    \/ Work

Spec == Init /\ [][Next]_vars

(* Commands that nobody interrupts go on, GitHub runs what is queued, and  *)
(* the maintainer who is alone repairs what is broken and tries again.     *)
FairSpec ==
    /\ Spec
    /\ \A m \in Maintainers :
        /\ WF_vars(solo = m /\ (Decide(m) \/ Finish(m)))
        /\ WF_vars(solo = m /\ Start(m, "normal"))
        /\ SF_vars(solo = m /\ Reset(m))
        /\ SF_vars(solo = m /\ \E v \in Versions : RepairTag(m, v))
    /\ WF_vars(\E v \in Versions : RunPublish(v))
    /\ WF_vars(solo # Nobody /\ \E v \in Versions : Rerun(v))

-----------------------------------------------------------------------------
(* A tag at origin names a commit that is on origin/main and whose manifest *)
(* has the tag's version: no interleaving of pushes, refusals, failed       *)
(* queries and interruptions tags anything else (finishRelease, :604).      *)
TagsAreOnMain ==
    \A v \in Versions : tags[v] # 0 => tags[v] <= Len(main) /\ main[tags[v]] = v

(* What npm has of a version is what its tag names, unless that version was *)
(* published by --first, which looks at no tag (publishFirst, :508).        *)
PublishedFromTag ==
    \A v \in Versions : runs[v] = "passed" => published[v] = tags[v] /\ tags[v] # 0

(* What a maintainer is told is so: a release that ends well has its tag at *)
(* origin, on the commit its clone is at, although others tag and push      *)
(* between any two steps of it (finishRelease, :604), and release-status    *)
(* says ready only of a version that npm has from its tag, and that nothing *)
(* published past the tag (releaseStatus, :644).                            *)
ReportsAreTrue ==
    \A m \in Maintainers :
        /\ At(m, "done") => tags[Current(m)] = HeadOf(m)
        /\ At(m, "ready") => published[Current(m)] = tags[Current(m)] /\ tags[Current(m)] # 0

(* Whatever was interrupted, refused or left half done, a maintainer who    *)
(* repairs it and runs release again gets a version published.              *)
ReleasesGoOn ==
    solo # Nobody ~> \E m \in Maintainers : At(m, "done") /\ runs[Current(m)] = "passed"
=============================================================================
