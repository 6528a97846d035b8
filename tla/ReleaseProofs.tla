--------------------------- MODULE ReleaseProofs ---------------------------
(***************************************************************************)
(* Proofs about Release for any number of maintainers, versions and        *)
(* commits: what tags name, what npm has of them, and what is reported.    *)
(***************************************************************************)
EXTENDS Release, TLAPS

\* What the record k of a clone may rely on.
Sound(k) ==
    /\ k.at <= Len(main)
    /\ \A v \in Versions : k.tags[v] # 0 => k.tags[v] <= Len(main) /\ main[k.tags[v]] = v
    /\ k.pc = "first" => k.ahead = 0
    /\ k.pc = "committed" => k.tree = IF k.ahead = 0 THEN main[k.at] ELSE k.ahead
    /\ k.pc \in {"pushed", "verified", "tagged"} => k.ahead = 0 /\ k.tree = main[k.at]
    /\ k.pc = "tagged" => k.tags[k.tree] = k.at
    /\ k.pc = "done" => tags[k.tree] = IF k.ahead = 0 THEN k.at ELSE Unpushed
    /\ k.pc = "ready" => published[k.tree] = tags[k.tree] /\ tags[k.tree] # 0

RunsHaveTags == \A v \in Versions : runs[v] # "none" => tags[v] # 0

\* The inductive invariant behind the safety properties of Release.
Safe ==
    /\ TypeOK
    /\ TagsAreOnMain
    /\ RunsHaveTags
    /\ PublishedFromTag
    /\ \A m \in Maintainers : Sound(clone[m])

\* Nothing at origin or on npm is taken back.
Grows ==
    /\ Len(main) <= Len(main') /\ \A i \in 1 .. Len(main) : main'[i] = main[i]
    /\ \A v \in Versions : tags[v] # 0 => tags'[v] = tags[v]
    /\ \A v \in Versions : published[v] # 0 => published'[v] = published[v]

LEMMA VersionFacts ==
    /\ Versions \subseteq Nat \ {0}
    /\ Slots \in Versions
    /\ Unpushed \in Nat \ (0 .. MaxCommits)
    /\ MaxCommits \in Nat \ {0}
<1> USE ReleaseAssumption DEF Slots
<1>1. Bases * (Pres + 1) \in Nat /\ Bases * (Pres + 1) >= Pres + 1
    OBVIOUS
<1> QED
    BY <1>1 DEF Versions, Unpushed

LEMMA InitSafe == Init => Safe
<1> SUFFICES ASSUME Init PROVE Safe
    OBVIOUS
<1> USE VersionFacts
<1> HIDE DEF Versions, Slots
<1>1. Len(main) = 1 /\ main[1] = Slots /\ main \in Seq(Versions)
    BY DEF Init
<1>2. ASSUME NEW m \in Maintainers
      PROVE  /\ clone[m] = [pc |-> "idle", at |-> 1, ahead |-> 0, tree |-> Slots, tags |-> tags]
             /\ clone[m] \in Clone
    <2>1. tags \in [Versions -> 0 .. MaxCommits + 1]
        BY DEF Init
    <2> QED
        BY <2>1 DEF Init, Clone, PCs
<1>3. clone \in [Maintainers -> Clone]
    BY <1>2 DEF Init
<1>4. TypeOK
    <2>1. main \in Seq(Versions) /\ Len(main) \in 1 .. MaxCommits
        BY <1>1
    <2>2. tags \in [Versions -> 0 .. MaxCommits] /\ published \in [Versions -> 0 .. MaxCommits]
        BY DEF Init
    <2>3. runs \in [Versions -> {"none", "queued", "passed", "failed"}]
        BY DEF Init
    <2> QED
        BY <1>3, <2>1, <2>2, <2>3 DEF Init, TypeOK
<1>5. TagsAreOnMain /\ RunsHaveTags /\ PublishedFromTag
    BY DEF Init, TagsAreOnMain, RunsHaveTags, PublishedFromTag
<1>6. ASSUME NEW m \in Maintainers PROVE Sound(clone[m])
    BY <1>1, <1>2 DEF Init, Sound
<1> QED
    BY <1>4, <1>5, <1>6 DEF Safe

\* A clone that does nothing keeps what it relies on.
LEMMA SoundGrows ==
    ASSUME TypeOK, TypeOK', Grows, NEW k \in Clone, Sound(k), UNCHANGED k
    PROVE  Sound(k)'
<1> USE VersionFacts
<1> HIDE DEF Versions, Unpushed
<1>1. k.at \in 1 .. Len(main) /\ k.tree \in Versions
    BY DEF Sound, Clone, TypeOK
<1>2. main'[k.at] = main[k.at]
    BY <1>1 DEF Grows
<1>3. \A v \in Versions : k.tags[v] # 0 => k.tags[v] \in 1 .. Len(main)
    BY DEF Sound, Clone, TypeOK
<1>4. k.pc = "done" => tags[k.tree] # 0
    BY <1>1 DEF Sound
<1>5. Len(main) \in Nat /\ Len(main') \in Nat /\ Len(main) <= Len(main')
    BY DEF Grows, TypeOK
<1>6. k.at <= Len(main')
    BY <1>1, <1>5
<1>7. \A v \in Versions : k.tags[v] # 0 => k.tags[v] <= Len(main') /\ main'[k.tags[v]] = v
    BY <1>3, <1>5 DEF Grows, Sound
<1>8. k.pc = "ready" => published'[k.tree] = tags'[k.tree] /\ tags'[k.tree] # 0
    BY <1>1 DEF Grows, Sound
<1>9. k.pc = "done" => tags'[k.tree] = tags[k.tree]
    BY <1>1, <1>4 DEF Grows
<1> QED
    BY <1>2, <1>6, <1>7, <1>8, <1>9 DEF Sound

\* A step in m's clone alone.
LEMMA LocalStep ==
    ASSUME Safe, NEW m \in Maintainers, NEW k \in Clone,
           clone' = [clone EXCEPT ![m] = k],
           UNCHANGED <<main, tags, runs, published, latest>>,
           solo' \in Maintainers \cup {Nobody},
           Sound(k)
    PROVE  Safe'
<1>1. TypeOK'
    BY DEF Safe, TypeOK
<1>2. TagsAreOnMain' /\ RunsHaveTags' /\ PublishedFromTag'
    BY DEF Safe, TagsAreOnMain, RunsHaveTags, PublishedFromTag
<1>3. ASSUME NEW w \in Maintainers PROVE Sound(clone[w])'
    <2>1. CASE w = m
        <3>1. clone'[w] = k
            BY <2>1 DEF Safe, TypeOK
        <3>2. Sound(k)'
            BY DEF Sound
        <3> QED
            BY <3>1, <3>2 DEF Sound
    <2>2. CASE w # m
        <3>1. clone'[w] = clone[w] /\ Sound(clone[w])
            BY <2>2 DEF Safe, TypeOK
        <3> QED
            BY <3>1 DEF Sound
    <2> QED
        BY <2>1, <2>2
<1> QED
    BY <1>1, <1>2, <1>3 DEF Safe

\* Goto only moves the command on.
LEMMA GotoRecord ==
    ASSUME TypeOK, NEW m \in Maintainers, NEW pc \in PCs, Goto(m, pc)
    PROVE  \E k \in Clone :
             /\ clone' = [clone EXCEPT ![m] = k]
             /\ k.pc = pc /\ k.at = clone[m].at /\ k.ahead = clone[m].ahead
             /\ k.tree = clone[m].tree /\ k.tags = clone[m].tags
<1> DEFINE k == [clone[m] EXCEPT !.pc = pc]
<1>1. k \in Clone /\ clone' = [clone EXCEPT ![m] = k]
    BY DEF TypeOK, Clone, Goto
<1>2. k.pc = pc /\ k.at = clone[m].at /\ k.ahead = clone[m].ahead
      /\ k.tree = clone[m].tree /\ k.tags = clone[m].tags
    BY DEF TypeOK, Clone
<1> QED
    BY <1>1, <1>2

\* A command that ends, or goes on to a step that expects nothing.
LEMMA GotoStep ==
    ASSUME Safe, NEW m \in Maintainers,
           NEW pc \in {"idle", "unpublished", "untagged"}, Goto(m, pc),
           UNCHANGED <<main, tags, runs, published, latest, solo>>
    PROVE  Safe'
<1>1. PICK k \in Clone :
        /\ clone' = [clone EXCEPT ![m] = k]
        /\ k.pc = pc /\ k.at = clone[m].at /\ k.tags = clone[m].tags
    BY GotoRecord DEF Safe, PCs
<1>2. Sound(k)
    BY <1>1 DEF Safe, Sound
<1> QED
    BY <1>1, <1>2, LocalStep DEF Safe, TypeOK

LEMMA BumpStep ==
    ASSUME Safe, NEW m \in Maintainers, NEW v \in Versions, Bump(m, v),
           UNCHANGED <<main, tags, runs, published, latest, solo>>
    PROVE  Safe'
<1> DEFINE k == [clone[m] EXCEPT !.pc = "bumped", !.tree = v]
<1>1. k \in Clone /\ clone' = [clone EXCEPT ![m] = k]
    BY DEF Safe, TypeOK, Clone, Bump, PCs
<1>2. k.pc = "bumped" /\ k.at = clone[m].at /\ k.tags = clone[m].tags
    BY DEF Safe, TypeOK, Clone
<1> HIDE DEF k
<1>3. Sound(k)
    BY <1>2 DEF Safe, Sound
<1> QED
    BY <1>1, <1>3, LocalStep DEF Safe, TypeOK

LEMMA StartSafe ==
    ASSUME Safe, NEW m \in Maintainers, NEW command \in Commands, Start(m, command)
    PROVE  Safe'
<1> DEFINE k == [clone[m] EXCEPT !.pc = IF Synchronized(m) THEN command ELSE "idle",
                                !.tags = Fetched(m)]
<1>1. Fetched(m) \in [Versions -> 0 .. MaxCommits + 1]
    <2>1. ASSUME NEW v \in Versions
          PROVE  (IF clone[m].tags[v] # 0 THEN clone[m].tags[v] ELSE tags[v]) \in 0 .. MaxCommits + 1
        <3>1. tags[v] \in 0 .. MaxCommits /\ clone[m].tags[v] \in 0 .. MaxCommits + 1
            <4>1. clone[m] \in Clone /\ tags[v] \in 0 .. MaxCommits
                BY DEF Safe, TypeOK
            <4> QED
                BY <4>1 DEF Clone
        <3>2. tags[v] \in 0 .. MaxCommits + 1
            BY <3>1, ReleaseAssumption
        <3> QED
            BY <3>1, <3>2
    <2> QED
        BY <2>1 DEF Fetched
<1>2. k \in Clone /\ clone' = [clone EXCEPT ![m] = k]
    BY <1>1 DEF Safe, TypeOK, Clone, Start, PCs
<1>3. /\ k.pc \in Commands \cup {"idle"}
      /\ k.pc # "idle" => k.ahead = 0
      /\ k.at = clone[m].at /\ k.tags = Fetched(m)
    BY DEF Safe, TypeOK, Clone, Start, Synchronized
<1> HIDE DEF k
<1>4. \A v \in Versions : k.tags[v] # 0 => k.tags[v] <= Len(main) /\ main[k.tags[v]] = v
    BY <1>3 DEF Fetched, Safe, Sound, TagsAreOnMain
<1>5. Sound(k)
    BY <1>3, <1>4 DEF Safe, Sound, Commands
<1>6. UNCHANGED <<main, tags, runs, published, latest, solo>>
    BY DEF Start, origin, npm
<1> QED
    BY <1>2, <1>5, <1>6, LocalStep DEF Safe, TypeOK

LEMMA DecideSafe ==
    ASSUME Safe, NEW m \in Maintainers,
           \/ ReleaseNext(m) \/ LookForTag(m) \/ LookForLatest(m)
           \/ ReleaseVersion(m) \/ ReleasePre(m)
    PROVE  Safe'
<1>1. UNCHANGED <<main, tags, runs, published, latest, solo>>
    BY DEF ReleaseNext, LookForTag, LookForLatest, ReleaseVersion, ReleasePre, origin, npm
<1>2. \/ \E pc \in {"idle", "unpublished", "untagged"} : Goto(m, pc)
      \/ \E v \in Versions : Bump(m, v)
    BY DEF ReleaseNext, LookForTag, LookForLatest, BumpNext, ReleaseVersion, ReleasePre, Bumps, PreReleases
<1> QED
    BY <1>1, <1>2, GotoStep, BumpStep

LEMMA CommitSafe ==
    ASSUME Safe, NEW m \in Maintainers, Commit(m)
    PROVE  Safe'
<1> DEFINE a == IF Clean(m) THEN clone[m].ahead ELSE clone[m].tree
<1> DEFINE k == [clone[m] EXCEPT !.pc = "committed", !.ahead = a]
<1>1. clone[m] \in Clone
    BY DEF Safe, TypeOK
<1>2. k \in Clone /\ clone' = [clone EXCEPT ![m] = k]
    <2>1. a \in Versions \cup {0}
        BY <1>1 DEF Clone
    <2>2. clone' = [clone EXCEPT ![m] = k]
        <3>1. CASE Clean(m)
            BY <1>1, <3>1 DEF Clone, Commit, AfterCommit
        <3>2. CASE ~Clean(m)
            BY <1>1, <3>2 DEF Clone, Commit, AfterCommit
        <3> QED
            BY <3>1, <3>2
    <2> HIDE DEF a
    <2> QED
        BY <1>1, <2>1, <2>2 DEF Clone, PCs
<1>3. /\ k.pc = "committed" /\ k.at = clone[m].at /\ k.tags = clone[m].tags /\ k.tree = clone[m].tree
      /\ k.ahead = IF Clean(m) THEN clone[m].ahead ELSE clone[m].tree
    BY <1>1 DEF Clone, AfterCommit
<1> HIDE DEF k
<1>4. k.tree # 0
    BY <1>1, <1>3, VersionFacts DEF Clone
<1>5. Sound(k)
    BY <1>3, <1>4 DEF Safe, Sound, Clean, HeadVersion
<1> QED
    BY <1>2, <1>5, LocalStep DEF Safe, TypeOK, Commit, origin, npm

LEMMA VerifyMainSafe ==
    ASSUME Safe, NEW m \in Maintainers, VerifyMain(m)
    PROVE  Safe'
<1>1. UNCHANGED <<main, tags, runs, published, latest, solo>>
    BY DEF VerifyMain, origin, npm
<1>2. CASE Goto(m, "idle")
    BY <1>1, <1>2, GotoStep
<1>3. CASE Goto(m, "verified")
    <2>1. PICK k \in Clone :
            /\ clone' = [clone EXCEPT ![m] = k]
            /\ k.pc = "verified" /\ k.at = clone[m].at /\ k.ahead = clone[m].ahead
            /\ k.tree = clone[m].tree /\ k.tags = clone[m].tags
        BY <1>3, GotoRecord DEF Safe, PCs
    <2>2. Sound(k)
        BY <2>1 DEF Safe, Sound, VerifyMain, At
    <2> QED
        BY <1>1, <2>1, <2>2, LocalStep DEF Safe, TypeOK
<1> QED
    BY <1>2, <1>3 DEF VerifyMain

LEMMA TagSafe ==
    ASSUME Safe, NEW m \in Maintainers, Tag(m)
    PROVE  Safe'
<1>1. UNCHANGED <<main, tags, runs, published, latest, solo>>
    BY DEF Tag, origin, npm
<1>2. CASE Goto(m, "idle")
    BY <1>1, <1>2, GotoStep
<1>3. CASE clone' = [clone EXCEPT ![m] = [@ EXCEPT !.pc = "tagged", !.tags[clone[m].tree] = HeadOf(m)]]
    <2> DEFINE o == clone[m]
    <2> DEFINE k == [o EXCEPT !.pc = "tagged", !.tags = [o.tags EXCEPT ![o.tree] = o.at]]
    <2>1. /\ o \in Clone /\ Sound(o) /\ o.pc = "verified"
          /\ HeadOf(m) = o.at
        BY DEF Safe, TypeOK, Tag, At, Sound, HeadOf
    <2>2. o.at \in 0 .. MaxCommits + 1
        BY <2>1, ReleaseAssumption DEF Clone
    <2>3. [o.tags EXCEPT ![o.tree] = o.at] \in [Versions -> 0 .. MaxCommits + 1]
        BY <2>1, <2>2 DEF Clone
    <2>4. k \in Clone
        BY <2>1, <2>3 DEF Clone, PCs
    <2>5. clone' = [clone EXCEPT ![m] = k]
        BY <1>3, <2>1 DEF Clone
    <2>6. k.pc = "tagged" /\ k.at = o.at /\ k.ahead = o.ahead /\ k.tree = o.tree
          /\ k.tags = [o.tags EXCEPT ![o.tree] = o.at]
        BY <2>1 DEF Clone
    <2> HIDE DEF k
    <2>7. \A v \in Versions : k.tags[v] = IF v = o.tree THEN o.at ELSE o.tags[v]
        BY <2>1, <2>6 DEF Clone
    <2>8. Sound(k)
        BY <2>1, <2>6, <2>7 DEF Sound, Clone
    <2> QED
        BY <1>1, <2>4, <2>5, <2>8, LocalStep DEF Safe, TypeOK
<1> QED
    BY <1>2, <1>3 DEF Tag

LEMMA ResetSafe ==
    ASSUME Safe, NEW m \in Maintainers, Reset(m)
    PROVE  Safe'
<1> DEFINE k == [clone[m] EXCEPT !.pc = "idle", !.at = Len(main), !.ahead = 0, !.tree = main[Len(main)]]
<1>1. Len(main) \in 1 .. MaxCommits /\ main[Len(main)] \in Versions /\ clone[m] \in Clone
    BY DEF Safe, TypeOK
<1>2. k \in Clone /\ clone' = [clone EXCEPT ![m] = k]
    BY <1>1 DEF Clone, Reset, PCs
<1>3. k.pc = "idle" /\ k.at = Len(main) /\ k.tags = clone[m].tags
    BY <1>1 DEF Clone
<1> HIDE DEF k
<1>4. Sound(k)
    BY <1>1, <1>3 DEF Safe, Sound
<1> QED
    BY <1>2, <1>4, LocalStep DEF Safe, TypeOK, Reset, origin, npm

LEMMA ReleaseStatusSafe ==
    ASSUME Safe, NEW m \in Maintainers, ReleaseStatus(m)
    PROVE  Safe'
<1>1. PICK k \in Clone :
        /\ clone' = [clone EXCEPT ![m] = k]
        /\ k.pc = "ready" /\ k.at = clone[m].at /\ k.ahead = clone[m].ahead
        /\ k.tree = clone[m].tree /\ k.tags = clone[m].tags
    BY GotoRecord DEF ReleaseStatus, Safe, PCs
<1>2. published[k.tree] = tags[k.tree] /\ tags[k.tree] # 0
    BY <1>1 DEF ReleaseStatus, Ready, Current, Safe, PublishedFromTag, Clone
<1>3. Sound(k)
    BY <1>1, <1>2 DEF Safe, Sound
<1> QED
    BY <1>1, <1>3, LocalStep DEF Safe, TypeOK, ReleaseStatus, origin, npm
-----------------------------------------------------------------------------
(* Steps that others see *)

LEMMA SharedStep ==
    ASSUME Safe, TypeOK', Grows, TagsAreOnMain', RunsHaveTags', PublishedFromTag',
           NEW m \in Maintainers, \A w \in Maintainers \ {m} : UNCHANGED clone[w],
           Sound(clone[m])'
    PROVE  Safe'
<1>1. ASSUME NEW w \in Maintainers \ {m} PROVE Sound(clone[w])'
    BY SoundGrows DEF Safe, TypeOK
<1> QED
    BY <1>1 DEF Safe

\* main got commits: what tags name is where it was.
LEMMA MainStep ==
    ASSUME Safe, Grows, UNCHANGED <<tags, runs, published>>
    PROVE  TagsAreOnMain' /\ RunsHaveTags' /\ PublishedFromTag'
<1>1. TagsAreOnMain'
    <2> SUFFICES ASSUME NEW v \in Versions, tags[v] # 0
                 PROVE  tags[v] <= Len(main') /\ main'[tags[v]] = v
        BY DEF TagsAreOnMain
    <2>1. tags[v] \in 1 .. Len(main) /\ main[tags[v]] = v
        BY ReleaseAssumption DEF Safe, TypeOK, TagsAreOnMain
    <2>2. Len(main) \in Nat /\ (main' \in Seq(Versions) => Len(main') \in Nat)
        BY DEF Safe, TypeOK
    <2>3. main'[tags[v]] = v /\ Len(main) <= Len(main')
        BY <2>1 DEF Grows
    <2> QED
        BY <2>1, <2>2, <2>3
<1> QED
    BY <1>1 DEF Safe, RunsHaveTags, PublishedFromTag

LEMMA PushMainSafe ==
    ASSUME Safe, NEW m \in Maintainers, PushMain(m)
    PROVE  Safe'
<1>0. UNCHANGED <<tags, runs, published, latest, solo>>
    BY DEF PushMain, npm
<1>1. CASE ~FastForward(m)
    BY <1>0, <1>1, GotoStep DEF PushMain
<1>2. CASE FastForward(m)
    <2> DEFINE o == clone[m]
    <2>1. /\ o \in Clone /\ Sound(o) /\ o.at = Len(main) /\ o.tree = IF o.ahead = 0 THEN main[o.at] ELSE o.ahead
          /\ main \in Seq(Versions) /\ Len(main) \in 1 .. MaxCommits
        BY <1>2 DEF Safe, TypeOK, PushMain, At, Sound, FastForward
    <2>2. /\ main' \in Seq(Versions) /\ Len(main') \in 1 .. MaxCommits
          /\ Len(main) <= Len(main') /\ \A i \in 1 .. Len(main) : main'[i] = main[i]
          /\ main'[Len(main')] = o.tree
        <3>1. CASE o.ahead = 0
            <4>1. main' = main
                BY <1>2, <3>1 DEF PushMain
            <4> QED
                BY <2>1, <3>1, <4>1
        <3>2. CASE o.ahead # 0
            <4>1. main' = Append(main, o.ahead) /\ o.ahead \in Versions /\ Len(main) < MaxCommits
                BY <1>2, <2>1, <3>2 DEF PushMain, Clone
            <4> QED
                BY <2>1, <3>2, <4>1, ReleaseAssumption
        <3> QED
            BY <3>1, <3>2
    <2>3. Grows
        BY <1>0, <2>2 DEF Grows
    <2>4. PICK pc \in PCs :
            /\ clone' = [clone EXCEPT ![m] = [@ EXCEPT !.pc = pc, !.at = Len(main'), !.ahead = 0]]
            /\ pc \in {"pushed", "idle"}
        BY <1>2 DEF PushMain, PCs
    <2>5. PICK n : n = Len(main')
        OBVIOUS
    <2> DEFINE k == [o EXCEPT !.pc = pc, !.at = n, !.ahead = 0]
    <2>6. k \in Clone /\ clone' = [clone EXCEPT ![m] = k]
        BY <2>1, <2>2, <2>4, <2>5 DEF Clone
    <2>7. k.pc \in {"pushed", "idle"} /\ k.at = n /\ k.ahead = 0 /\ k.tree = o.tree /\ k.tags = o.tags
        BY <2>1, <2>4 DEF Clone
    <2> HIDE DEF k
    <2>8. TypeOK'
        BY <1>0, <2>2, <2>6 DEF Safe, TypeOK
    <2>9. \A v \in Versions : o.tags[v] # 0 => o.tags[v] <= Len(main') /\ main'[o.tags[v]] = v
        <3> SUFFICES ASSUME NEW v \in Versions, o.tags[v] # 0
                     PROVE  o.tags[v] <= Len(main') /\ main'[o.tags[v]] = v
            OBVIOUS
        <3>1. o.tags[v] \in 1 .. Len(main) /\ main[o.tags[v]] = v
            BY <2>1, ReleaseAssumption DEF Sound, Clone
        <3> QED
            BY <2>1, <2>2, <3>1
    <2>11. clone'[m] = k
        BY <2>6 DEF Safe, TypeOK
    <2>12. Sound(clone[m])'
        BY <2>2, <2>5, <2>7, <2>9, <2>11 DEF Sound
    <2>13. \A w \in Maintainers \ {m} : UNCHANGED clone[w]
        BY <2>6 DEF Safe, TypeOK
    <2> QED
        BY <1>0, <2>3, <2>8, <2>12, <2>13, MainStep, SharedStep
<1> QED
    BY <1>1, <1>2

\* A tag reaches origin: where there is one already, it is the same.
LEMMA PushedStep ==
    ASSUME Safe, NEW m \in Maintainers, NEW v \in Versions, Pushed(m, v),
           clone[m].tags[v] # 0, Accepted(m, v), UNCHANGED <<published, latest, solo>>,
           clone' \in [Maintainers -> Clone]
    PROVE  TypeOK' /\ Grows /\ TagsAreOnMain' /\ RunsHaveTags' /\ PublishedFromTag'
<1> DEFINE t == clone[m].tags[v]
<1>0. /\ main \in Seq(Versions) /\ Len(main) \in 1 .. MaxCommits /\ UNCHANGED main
      /\ tags \in [Versions -> 0 .. MaxCommits] /\ clone[m] \in Clone
      /\ runs \in [Versions -> {"none", "queued", "passed", "failed"}]
    BY DEF Safe, TypeOK, Pushed
<1>1. t \in Nat /\ t # 0 /\ t <= Len(main) /\ main[t] = v
    BY <1>0 DEF Safe, Sound, Clone
<1>2. t \in 0 .. MaxCommits
    BY <1>0, <1>1, ReleaseAssumption
<1>3. /\ tags' = [tags EXCEPT ![v] = t] /\ tags[v] \in {0, t}
      /\ runs' = [runs EXCEPT ![v] = IF tags[v] = 0 THEN "queued" ELSE @]
    BY DEF Pushed, Accepted
<1> HIDE DEF t
<1>4. \A w \in Versions : tags'[w] = IF w = v THEN t ELSE tags[w]
    BY <1>0, <1>3
<1>5. \A w \in Versions : runs'[w] = IF w = v /\ tags[v] = 0 THEN "queued" ELSE runs[w]
    BY <1>0, <1>3
<1>6. tags' \in [Versions -> 0 .. MaxCommits]
      /\ runs' \in [Versions -> {"none", "queued", "passed", "failed"}]
    BY <1>0, <1>2, <1>3
<1>7. TypeOK'
    BY <1>0, <1>6 DEF Safe, TypeOK
<1>8. Grows
    BY <1>0, <1>3, <1>4 DEF Grows
<1>9. TagsAreOnMain'
    BY <1>0, <1>1, <1>4 DEF Safe, TagsAreOnMain
<1>10. RunsHaveTags'
    BY <1>1, <1>4, <1>5 DEF Safe, RunsHaveTags
<1>11. PublishedFromTag'
    BY <1>1, <1>3, <1>4, <1>5 DEF Safe, PublishedFromTag
<1> QED
    BY <1>7, <1>8, <1>9, <1>10, <1>11

LEMMA PushTagSafe ==
    ASSUME Safe, NEW m \in Maintainers, PushTag(m)
    PROVE  Safe'
<1> DEFINE v == Current(m)
<1>0. UNCHANGED <<published, latest, solo>> /\ v \in Versions /\ At(m, "tagged") /\ clone[m] \in Clone
    BY DEF PushTag, npm, Safe, TypeOK, Clone, Current
<1>1. CASE ~Accepted(m, v)
    BY <1>0, <1>1, GotoStep DEF PushTag, origin
<1>2. CASE Accepted(m, v)
    <2>1. PICK pc \in {"done", "idle"} : Goto(m, pc)
        BY <1>2 DEF PushTag
    <2>2. PICK k \in Clone :
            /\ clone' = [clone EXCEPT ![m] = k]
            /\ k.pc = pc /\ k.at = clone[m].at /\ k.ahead = clone[m].ahead
            /\ k.tree = clone[m].tree /\ k.tags = clone[m].tags
        BY <2>1, GotoRecord DEF Safe, PCs
    <2>3. clone' \in [Maintainers -> Clone] /\ clone'[m] = k
        BY <2>2 DEF Safe, TypeOK
    <2>4. clone[m].tags[v] = clone[m].at /\ clone[m].ahead = 0 /\ clone[m].at # 0
        BY <1>0 DEF Safe, Sound, At, Current, Clone
    <2>5. Pushed(m, v)
        BY <1>2 DEF PushTag
    <2>6. TypeOK' /\ Grows /\ TagsAreOnMain' /\ RunsHaveTags' /\ PublishedFromTag'
        BY <1>0, <1>2, <2>3, <2>4, <2>5, PushedStep
    <2>7. UNCHANGED main /\ tags'[k.tree] = k.at
        BY <1>0, <2>2, <2>4, <2>5 DEF Pushed, Safe, TypeOK, Current
    <2>8. Sound(clone[m])'
        BY <2>2, <2>3, <2>4, <2>7 DEF Safe, Sound
    <2>9. \A w \in Maintainers \ {m} : UNCHANGED clone[w]
        BY <2>2 DEF Safe, TypeOK
    <2> QED
        BY <2>6, <2>8, <2>9, SharedStep
<1> QED
    BY <1>1, <1>2

LEMMA RepairTagSafe ==
    ASSUME Safe, NEW m \in Maintainers, NEW v \in Versions, RepairTag(m, v)
    PROVE  Safe'
<1>0. UNCHANGED <<published, latest, solo>> /\ clone[m].tags[v] # 0
    BY DEF RepairTag, npm, Local
<1>1. CASE tags[v] = 0
    <2>1. Pushed(m, v) /\ UNCHANGED clone /\ Accepted(m, v)
        BY <1>1 DEF RepairTag, Accepted
    <2>2. TypeOK' /\ Grows /\ TagsAreOnMain' /\ RunsHaveTags' /\ PublishedFromTag'
        BY <1>0, <2>1, PushedStep DEF Safe, TypeOK
    <2>3. Sound(clone[m])'
        BY <2>1, <2>2, SoundGrows DEF Safe, TypeOK
    <2> QED
        BY <2>1, <2>2, <2>3, SharedStep
<1>2. CASE tags[v] # 0
    <2> DEFINE o == clone[m]
    <2> DEFINE k == [o EXCEPT !.tags = [o.tags EXCEPT ![v] = 0]]
    <2>1. o \in Clone /\ Sound(o) /\ UNCHANGED <<main, tags, runs>> /\ o.pc \in {"idle", "done", "ready"}
        BY <1>2 DEF Safe, TypeOK, RepairTag, Idle, origin
    <2>2. [o.tags EXCEPT ![v] = 0] \in [Versions -> 0 .. MaxCommits + 1]
        BY <2>1, ReleaseAssumption DEF Clone
    <2>3. k \in Clone
        BY <2>1, <2>2 DEF Clone
    <2>4. clone' = [clone EXCEPT ![m] = k]
        BY <1>2, <2>1 DEF RepairTag, Clone
    <2>5. k.pc = o.pc /\ k.at = o.at /\ k.ahead = o.ahead /\ k.tree = o.tree
          /\ \A w \in Versions : k.tags[w] = IF w = v THEN 0 ELSE o.tags[w]
        BY <2>1 DEF Clone
    <2> HIDE DEF k
    <2>6. Sound(k)
        BY <2>1, <2>5 DEF Sound
    <2> QED
        BY <1>0, <2>1, <2>3, <2>4, <2>6, LocalStep DEF Safe, TypeOK
<1> QED
    BY <1>1, <1>2

LEMMA PublishFirstSafe ==
    ASSUME Safe, NEW m \in Maintainers, PublishFirst(m)
    PROVE  Safe'
<1>0. UNCHANGED <<main, tags, runs, solo>> /\ Goto(m, "idle")
    BY DEF PublishFirst, origin
<1>1. PICK k \in Clone :
        /\ clone' = [clone EXCEPT ![m] = k]
        /\ k.pc = "idle" /\ k.at = clone[m].at /\ k.tags = clone[m].tags
    BY <1>0, GotoRecord DEF Safe, PCs
<1>2. clone[m] \in Clone /\ Current(m) \in Versions
    BY DEF Safe, TypeOK, Clone, Current
<1>3. CASE published[Current(m)] # 0
    <2>1. UNCHANGED <<published, latest>>
        BY <1>3 DEF PublishFirst, npm
    <2> QED
        BY <1>0, <2>1, GotoStep
<1>4. CASE published[Current(m)] = 0
    <2>0. HeadOf(m) = clone[m].at
        BY DEF PublishFirst, HeadOf, Safe, Sound, At
    <2>1. published' = [published EXCEPT ![Current(m)] = clone[m].at] /\ latest' = Current(m)
        BY <1>4, <2>0 DEF PublishFirst, Publish
    <2>2. TypeOK'
        <3>1. clone[m].at \in 0 .. MaxCommits
            BY <1>2, ReleaseAssumption DEF Clone
        <3>2. published' \in [Versions -> 0 .. MaxCommits] /\ latest' \in Versions \cup {0}
            BY <1>2, <2>1, <3>1 DEF Safe, TypeOK
        <3>3. clone' \in [Maintainers -> Clone]
            BY <1>1 DEF Safe, TypeOK
        <3> QED
            BY <1>0, <3>2, <3>3 DEF Safe, TypeOK
    <2>3. Grows
        BY <1>0, <1>2, <1>4, <2>1 DEF Grows, Safe, TypeOK
    <2>4. TagsAreOnMain' /\ RunsHaveTags'
        BY <1>0 DEF Safe, TagsAreOnMain, RunsHaveTags
    <2>5. PublishedFromTag'
        BY <1>0, <1>2, <1>4, <2>1 DEF Safe, TypeOK, PublishedFromTag
    <2>6. Sound(clone[m])' /\ \A w \in Maintainers \ {m} : UNCHANGED clone[w]
        BY <1>0, <1>1 DEF Safe, TypeOK, Sound
    <2> QED
        BY <2>2, <2>3, <2>4, <2>5, <2>6, SharedStep
<1> QED
    BY <1>3, <1>4

\* A step in nobody's clone.
LEMMA WorldStep ==
    ASSUME Safe, TypeOK', Grows, TagsAreOnMain', RunsHaveTags', PublishedFromTag', UNCHANGED clone
    PROVE  Safe'
<1>1. ASSUME NEW w \in Maintainers PROVE Sound(clone[w])'
    BY SoundGrows DEF Safe, TypeOK
<1> QED
    BY <1>1 DEF Safe

LEMMA RunPublishSafe ==
    ASSUME Safe, NEW v \in Versions, RunPublish(v)
    PROVE  Safe'
<1>0. UNCHANGED <<main, tags, clone, solo>> /\ runs[v] = "queued" /\ tags[v] # 0
    BY DEF RunPublish, Safe, RunsHaveTags
<1>1. Safe /\ TypeOK
    BY DEF Safe
<1>2. CASE TagMatchesManifest(v) /\ published[v] = 0
    <2>1. /\ published' = [published EXCEPT ![v] = tags[v]]
          /\ latest' = IF Stable(v) \/ latest = 0 THEN v ELSE latest
          /\ runs' = [runs EXCEPT ![v] = "passed"]
        BY <1>2 DEF RunPublish
    <2>2. latest' \in Versions \cup {0}
        BY <1>1, <2>1 DEF TypeOK
    <2>3. TypeOK'
        BY <1>0, <1>1, <2>1, <2>2 DEF TypeOK
    <2>4. Grows /\ TagsAreOnMain' /\ RunsHaveTags' /\ PublishedFromTag'
        BY <1>0, <1>2, <2>1 DEF Grows, Safe, TypeOK, TagsAreOnMain, RunsHaveTags, PublishedFromTag
    <2> QED
        BY <1>0, <2>3, <2>4, WorldStep
<1>3. CASE ~TagMatchesManifest(v) \/ published[v] # 0
    <2>2. runs' = [runs EXCEPT ![v] = "failed"] /\ UNCHANGED <<published, latest>>
        BY <1>3 DEF RunPublish, npm
    <2>3. TypeOK'
        BY <1>0, <1>1, <2>2 DEF TypeOK
    <2>4. Grows /\ TagsAreOnMain' /\ RunsHaveTags' /\ PublishedFromTag'
        BY <1>0, <2>2 DEF Grows, Safe, TypeOK, TagsAreOnMain, RunsHaveTags, PublishedFromTag
    <2> QED
        BY <1>0, <2>3, <2>4, WorldStep
<1> QED
    BY <1>2, <1>3

LEMMA RunStep ==
    ASSUME Safe, NEW v \in Versions, NEW r \in {"queued", "failed"},
           runs[v] \in {"queued", "failed"}, runs' = [runs EXCEPT ![v] = r],
           UNCHANGED <<main, tags, published, latest, clone, solo>>
    PROVE  Safe'
<1>1. TypeOK' /\ RunsHaveTags'
    BY DEF Safe, TypeOK, RunsHaveTags
<1>2. Grows /\ TagsAreOnMain' /\ PublishedFromTag'
    BY DEF Grows, Safe, TypeOK, TagsAreOnMain, PublishedFromTag
<1> QED
    BY <1>1, <1>2, WorldStep

LEMMA WorkSafe ==
    ASSUME Safe, Work
    PROVE  Safe'
<1>0. UNCHANGED <<tags, runs, published, latest, clone, solo>>
    BY DEF Work, npm
<1>1. main \in Seq(Versions) /\ Len(main) \in 1 .. MaxCommits /\ Len(main) < MaxCommits
    BY DEF Safe, TypeOK, Work
<1>2. PICK v \in Versions : main' = Append(main, v)
    BY <1>1 DEF Work, Bumps
<1>3. main' \in Seq(Versions) /\ Len(main') \in 1 .. MaxCommits
      /\ Len(main) <= Len(main') /\ \A i \in 1 .. Len(main) : main'[i] = main[i]
    BY <1>1, <1>2, ReleaseAssumption
<1>4. TypeOK' /\ Grows
    BY <1>0, <1>3 DEF Safe, TypeOK, Grows
<1> QED
    BY <1>0, <1>4, MainStep, WorldStep

LEMMA NextSafe == Safe /\ [Next]_vars => Safe'
<1> SUFFICES ASSUME Safe, [Next]_vars PROVE Safe'
    OBVIOUS
<1>1. CASE UNCHANGED vars
    BY <1>1 DEF vars, Safe, TypeOK, TagsAreOnMain, RunsHaveTags, PublishedFromTag, Sound
<1>2. ASSUME NEW m \in Maintainers, Decide(m) \/ Finish(m) PROVE Safe'
    BY <1>2, DecideSafe, PublishFirstSafe, CommitSafe, PushMainSafe, VerifyMainSafe, TagSafe,
       PushTagSafe DEF Decide, Finish
<1>3. ASSUME NEW m \in Maintainers, Interrupt(m) PROVE Safe'
    BY <1>3, GotoStep DEF Interrupt, origin, npm
<1>4. ASSUME NEW m \in Maintainers, BecomeQuiet(m) PROVE Safe'
    <2>1. UNCHANGED <<main, tags, runs, published, latest, clone>> /\ solo' \in Maintainers
        BY <1>4 DEF BecomeQuiet, origin, npm
    <2>2. TypeOK' /\ Grows /\ TagsAreOnMain' /\ RunsHaveTags' /\ PublishedFromTag'
        BY <2>1 DEF Safe, TypeOK, Grows, TagsAreOnMain, RunsHaveTags, PublishedFromTag
    <2> QED
        BY <2>1, <2>2, WorldStep
<1>5. ASSUME NEW v \in Versions, RunFails(v) \/ Rerun(v) PROVE Safe'
    <2>1. /\ runs[v] \in {"queued", "failed"}
          /\ UNCHANGED <<main, tags, published, latest, clone, solo>>
          /\ \E r \in {"queued", "failed"} : runs' = [runs EXCEPT ![v] = r]
        BY <1>5 DEF RunFails, Rerun, npm
    <2> QED
        BY <2>1, RunStep
<1> QED
    BY <1>1, <1>2, <1>3, <1>4, <1>5, StartSafe, ResetSafe, ReleaseStatusSafe, RepairTagSafe,
       RunPublishSafe, WorkSafe DEF Next

THEOREM SafeAlways == Spec => []Safe
BY InitSafe, NextSafe, PTL DEF Spec

\* Type correctness of the history, the registry and the clones.
THEOREM ReleaseTyped == Spec => []TypeOK
BY SafeAlways, PTL DEF Safe

\* A tag at origin names a commit of main whose manifest has its version, whatever raced.
THEOREM TagsNameMain == Spec => []TagsAreOnMain
BY SafeAlways, PTL DEF Safe

\* What a passed run published is what its tag names.
THEOREM PublishedAsTagged == Spec => []PublishedFromTag
BY SafeAlways, PTL DEF Safe

\* A release that ended well has its tag on the clone's commit, and release-status says
\* ready only of a version that npm has from its tag.
THEOREM ReportsTrue == Spec => []ReportsAreTrue
<1>1. Safe => ReportsAreTrue
    BY DEF Safe, Sound, ReportsAreTrue, At, Current, HeadOf
<1> QED
    BY <1>1, SafeAlways, PTL

\* A step that leaves origin and npm as they are, but for a run's state.
LEMMA StillGrows == ASSUME UNCHANGED <<main, tags, published>> PROVE Grows
BY DEF Grows

LEMMA NextGrows == Safe /\ [Next]_vars => Grows
<1> SUFFICES ASSUME Safe, [Next]_vars PROVE Grows
    OBVIOUS
<1>1. CASE UNCHANGED vars
    BY <1>1, StillGrows DEF vars
<1>2. ASSUME NEW m \in Maintainers, PushMain(m) PROVE Grows
    <2>1. CASE UNCHANGED main
        BY <1>2, <2>1, StillGrows DEF PushMain, npm
    <2>2. CASE main' = Append(main, clone[m].ahead)
        <3>1. main \in Seq(Versions) /\ UNCHANGED <<tags, published>>
            BY <1>2 DEF PushMain, npm, Safe, TypeOK
        <3> QED
            BY <2>2, <3>1 DEF Grows
    <2> QED
        BY <1>2, <2>1, <2>2 DEF PushMain
<1>3. ASSUME NEW m \in Maintainers, NEW v \in Versions, Pushed(m, v), Accepted(m, v),
             UNCHANGED published
      PROVE  Grows
    BY <1>3 DEF Pushed, Accepted, Grows, Safe, TypeOK
<1>4. ASSUME NEW m \in Maintainers, PushTag(m) PROVE Grows
    <2>1. Current(m) \in Versions
        BY DEF Safe, TypeOK, Clone, Current
    <2> QED
        BY <1>3, <1>4, <2>1, StillGrows DEF PushTag, origin, npm
<1>5. ASSUME NEW m \in Maintainers, NEW v \in Versions, RepairTag(m, v) PROVE Grows
    BY <1>3, <1>5, StillGrows DEF RepairTag, Accepted, origin, npm
<1>6. ASSUME NEW m \in Maintainers, PublishFirst(m) PROVE Grows
    <2>1. Current(m) \in Versions
        BY DEF Safe, TypeOK, Clone, Current
    <2> QED
        BY <1>6, <2>1 DEF PublishFirst, Publish, Grows, Safe, TypeOK, origin, npm
<1>7. ASSUME NEW v \in Versions, RunPublish(v) PROVE Grows
    BY <1>7 DEF RunPublish, Grows, Safe, TypeOK, npm
<1>8. CASE Work
    <2>1. main \in Seq(Versions) /\ UNCHANGED <<tags, published>>
        BY <1>8 DEF Work, npm, Safe, TypeOK
    <2>2. PICK v : main' = Append(main, v)
        BY <1>8 DEF Work
    <2> QED
        BY <2>1, <2>2 DEF Grows
\* Every other step is in a clone, or in a run.
<1>9. ASSUME NEW m \in Maintainers,
             \/ \E command \in Commands : Start(m, command)
             \/ ReleaseNext(m) \/ LookForTag(m) \/ LookForLatest(m)
             \/ ReleaseVersion(m) \/ ReleasePre(m)
             \/ Commit(m) \/ VerifyMain(m) \/ Tag(m) \/ Interrupt(m)
             \/ Reset(m) \/ ReleaseStatus(m) \/ BecomeQuiet(m)
      PROVE  Grows
    BY <1>9, StillGrows DEF Start, ReleaseNext, LookForTag, LookForLatest, ReleaseVersion, ReleasePre,
                            Commit, VerifyMain, Tag, Interrupt, Reset, ReleaseStatus, BecomeQuiet, origin, npm
<1>10. ASSUME NEW v \in Versions, RunFails(v) \/ Rerun(v) PROVE Grows
    BY <1>10, StillGrows DEF RunFails, Rerun, npm
<1>11. CASE Next
    BY <1>2, <1>4, <1>5, <1>6, <1>7, <1>8, <1>9, <1>10, <1>11 DEF Next, Decide, Finish
<1> QED
    BY <1>1, <1>11

\* Nothing that origin or npm has is taken back or replaced, whoever pushes, repairs a tag or
\* publishes again: main is extended only, a tag stays where it is, and a version of npm
\* stays the commit it was published from (finishRelease, publishFirst, publish.yml).
THEOREM NothingTakenBack == Spec => [][Grows]_vars
<1>1. Safe /\ [Next]_vars => [Grows]_vars
    BY NextGrows
<1> QED
    BY <1>1, SafeAlways, PTL DEF Spec
=============================================================================
