-------------------------- MODULE LiveEventsProofs --------------------------
(***************************************************************************)
(* Proofs about LiveEvents for any jobs, any number of changes, events     *)
(* under way and requests: what a list shows on a connection without       *)
(* faults.                                                                 *)
(***************************************************************************)
EXTENDS LiveEvents, TLAPS

AnyValue == Values("list") \cup Values("detail")

\* Each hook holds and awaits values of its own.
HooksFit ==
    \A h \in Hooks : /\ shown[h] \in Values(h)
                     /\ \A i \in 1 .. Len(reads[h]) : reads[h][i] \in Values(h)

Typed == TypeOK /\ HooksFit

\* What the list will show of job j when the requests it has sent are answered.
Covers(j) ==
    IF reads["list"] = <<>>
    THEN shown["list"] # None /\ shown["list"][j] = stored[j]
    ELSE LET last == reads["list"][Len(reads["list"])] IN last = None \/ last[j] = stored[j]

\* An event about job j has not reached the page yet.
Underway(j) ==
    \/ \E e \in outbox : e.job = j
    \/ \E i \in 1 .. Len(wire) : wire[i] = j

Fresh ==
    "list" \in Hooks /\ clean /\ connection = "open" =>
        /\ attached
        /\ reads["list"] = <<>> => ~failed["list"]
        /\ \A j \in Jobs : Underway(j) \/ Covers(j)

-----------------------------------------------------------------------------
(* Types *)

LEMMA TailFacts ==
    ASSUME NEW S, NEW q \in Seq(S), q # <<>>
    PROVE  /\ Tail(q) \in Seq(S) /\ Len(Tail(q)) = Len(q) - 1
           /\ \A n \in 1 .. Len(q) - 1 : Tail(q)[n] = q[n + 1]
           /\ Head(q) = q[1] /\ Head(q) \in S
OBVIOUS

LEMMA InitTyped == Init => Typed
<1> SUFFICES ASSUME Init PROVE Typed
    OBVIOUS
<1>1. None \in AnyValue /\ \A h \in Hooks : None \in Values(h)
    BY DEF AnyValue, Values
<1>2. <<None>> \in Seq(AnyValue)
    BY <1>1
<1>3. reads \in [Hooks -> Seq(AnyValue)] /\ shown \in [Hooks -> AnyValue]
    BY <1>1, <1>2 DEF Init
<1>4. HooksFit
    BY <1>1 DEF Init, HooksFit
<1>5. wire \in Seq(Jobs) /\ stored \in [Jobs -> 0 .. Final] /\ failed \in [Hooks -> BOOLEAN]
    BY LiveAssumption DEF Init
<1> QED
    BY <1>3, <1>4, <1>5 DEF Typed, TypeOK, Init, AnyValue

LEMMA Snapshots ==
    ASSUME TypeOK, NEW h \in Hooks
    PROVE  /\ Snapshot(h) \in Values(h) /\ Snapshot(h) # None
           /\ \A j \in View(h) : Snapshot(h)[j] = stored[j]
           /\ Values(h) \subseteq AnyValue
<1>1. View(h) \subseteq Jobs
    BY LiveAssumption DEF View
<1>2. Snapshot(h) \in [View(h) -> 0 .. Final]
    BY <1>1 DEF Snapshot, TypeOK
<1>3. View(h) = Jobs \/ View(h) = {Watched}
    BY DEF View
<1>4. h \in {"list", "detail"}
    BY LiveAssumption
<1> QED
    BY <1>2, <1>3, <1>4, NoneAssumption DEF Snapshot, Values, AnyValue

\* Requests are sent by the hooks in hs, or by none.
LEMMA AskingTyped ==
    ASSUME Typed, NEW hs, reads' = Asking(hs)
    PROVE  /\ reads' \in [Hooks -> Seq(AnyValue)]
           /\ \A h \in Hooks : \A i \in 1 .. Len(reads'[h]) : reads'[h][i] \in Values(h)
<1>1. ASSUME NEW h \in Hooks
      PROVE  /\ reads'[h] \in Seq(AnyValue)
             /\ \A i \in 1 .. Len(reads'[h]) : reads'[h][i] \in Values(h)
    <2>1. reads[h] \in Seq(AnyValue) /\ \A i \in 1 .. Len(reads[h]) : reads[h][i] \in Values(h)
        BY DEF Typed, TypeOK, AnyValue, HooksFit
    <2>2. None \in AnyValue /\ None \in Values(h)
        BY DEF AnyValue, Values
    <2>3. CASE h \in hs
        <3>1. reads'[h] = Append(reads[h], None)
            BY <2>3 DEF Asking
        <3> QED
            BY <2>1, <2>2, <3>1
    <2>4. CASE h \notin hs
        <3>1. reads'[h] = reads[h]
            BY <2>4 DEF Asking
        <3> QED
            BY <2>1, <3>1
    <2> QED
        BY <2>3, <2>4
<1>2. reads' = [h \in Hooks |-> reads'[h]]
    BY DEF Asking
<1> QED
    BY <1>1, <1>2

\* One hook's requests changed, and what it shows.
LEMMA HookTyped ==
    ASSUME Typed, NEW h \in Hooks, NEW q \in Seq(AnyValue), NEW v \in Values(h), NEW b \in BOOLEAN,
           reads' = [reads EXCEPT ![h] = q],
           shown' = [shown EXCEPT ![h] = v],
           failed' = [failed EXCEPT ![h] = b],
           \A i \in 1 .. Len(q) : q[i] \in Values(h),
           UNCHANGED <<stored, outbox, attached, wire, connection>>,
           clean' \in BOOLEAN, calm' \in BOOLEAN
    PROVE  Typed'
<1>1. Values(h) \subseteq AnyValue
    BY Snapshots DEF Typed
<1>2. TypeOK'
    BY <1>1 DEF Typed, TypeOK, AnyValue
<1>3. HooksFit'
    BY DEF Typed, TypeOK, HooksFit
<1> QED
    BY <1>2, <1>3 DEF Typed

LEMMA NextTyped == Typed /\ [Next]_vars => Typed'
<1> SUFFICES ASSUME Typed, [Next]_vars PROVE Typed'
    OBVIOUS
<1> USE DEF transport, hooks
<1>0. /\ reads \in [Hooks -> Seq(AnyValue)] /\ shown \in [Hooks -> AnyValue]
      /\ failed \in [Hooks -> BOOLEAN] /\ TypeOK /\ HooksFit
    BY DEF Typed, TypeOK, AnyValue
<1>1. CASE UNCHANGED vars
    BY <1>1 DEF vars, Typed, TypeOK, HooksFit, Values
<1>2. ASSUME NEW j \in Jobs, NEW by \in Writers, Change(j, by) PROVE Typed'
    <2>1. stored' \in [Jobs -> 0 .. Final] /\ stored'[j] \in 1 .. Final
        BY <1>0, <1>2, LiveAssumption DEF Change, Unsettled, TypeOK
    <2>2. outbox' \subseteq [job : Jobs, version : 1 .. Final, by : Writers]
        BY <1>0, <1>2, <2>1 DEF Change, TypeOK
    <2> QED
        BY <1>2, <2>1, <2>2 DEF Change, Typed, TypeOK, HooksFit
<1>3. ASSUME NEW e \in outbox, Emit(e) \/ EmitFails(e) PROVE Typed'
    <2>1. reads' \in [Hooks -> Seq(AnyValue)]
          /\ \A h \in Hooks : \A i \in 1 .. Len(reads'[h]) : reads'[h][i] \in Values(h)
        BY <1>3, AskingTyped DEF Emit, EmitFails
    <2>2. wire \in Seq(Jobs) /\ e.job \in Jobs
        BY <1>0 DEF TypeOK
    <2>3. wire' \in Seq(Jobs)
        BY <1>3, <2>2 DEF Emit, EmitFails
    <2> QED
        BY <1>0, <1>3, <2>1, <2>3 DEF Emit, EmitFails, Typed, TypeOK, HooksFit, AnyValue
<1>4. CASE Attach \/ Break \/ Close \/ BecomeCalm
    <2>1. UNCHANGED <<stored, outbox, reads, shown, failed>>
        BY <1>4 DEF Attach, Break, Close, BecomeCalm
    <2>2. wire' \in Seq(Jobs)
        <3>1. wire \in Seq(Jobs) /\ <<>> \in Seq(Jobs)
            BY <1>0 DEF TypeOK
        <3>2. wire' = wire \/ wire' = <<>>
            BY <1>4 DEF Attach, Break, Close, BecomeCalm
        <3> QED
            BY <3>1, <3>2
    <2>3. /\ attached' \in BOOLEAN /\ connection' \in {"connecting", "open", "reconnecting"}
          /\ clean' \in BOOLEAN /\ calm' \in BOOLEAN
        BY <1>0, <1>4 DEF Attach, Break, Close, BecomeCalm, TypeOK
    <2> QED
        BY <1>0, <2>1, <2>2, <2>3 DEF Typed, TypeOK, HooksFit
<1>5. CASE Open \/ Deliver
    <2>1. reads' \in [Hooks -> Seq(AnyValue)]
          /\ \A h \in Hooks : \A i \in 1 .. Len(reads'[h]) : reads'[h][i] \in Values(h)
        BY <1>5, AskingTyped DEF Open, Deliver
    <2>2. wire \in Seq(Jobs)
        BY <1>0 DEF TypeOK
    <2>3. wire' \in Seq(Jobs)
        BY <1>5, <2>2 DEF Open, Deliver
    <2> QED
        BY <1>0, <1>5, <2>1, <2>3 DEF Open, Deliver, Typed, TypeOK, HooksFit, AnyValue
<1>6. ASSUME NEW h \in Hooks, NEW i \in DOMAIN reads[h], Read(h, i) PROVE Typed'
    <2>1. Snapshot(h) \in Values(h) /\ Values(h) \subseteq AnyValue
        BY <1>0, Snapshots
    <2> DEFINE q == [reads[h] EXCEPT ![i] = Snapshot(h)]
    <2>2. q \in Seq(AnyValue) /\ \A n \in 1 .. Len(q) : q[n] \in Values(h)
        BY <1>0, <2>1 DEF HooksFit
    <2>3. reads' = [reads EXCEPT ![h] = q]
        BY <1>6 DEF Read
    <2>4. PICK v \in Values(h) : v = shown[h]
        BY <1>0 DEF HooksFit
    <2>5. PICK b \in BOOLEAN : b = failed[h]
        BY <1>0
    <2>6. shown' = [shown EXCEPT ![h] = v] /\ failed' = [failed EXCEPT ![h] = b]
        BY <1>0, <1>6, <2>4, <2>5 DEF Read
    <2>7. UNCHANGED <<stored, outbox, attached, wire, connection>> /\ clean' \in BOOLEAN /\ calm' \in BOOLEAN
        BY <1>0, <1>6 DEF Read, TypeOK
    <2> HIDE DEF q
    <2> QED
        BY <2>2, <2>3, <2>6, <2>7, HookTyped
<1>7. ASSUME NEW h \in Hooks, Show(h) PROVE Typed'
    <2> DEFINE q == Tail(reads[h])
    <2>1. reads[h] \in Seq(AnyValue) /\ reads[h] # <<>>
          /\ \A n \in 1 .. Len(reads[h]) : reads[h][n] \in Values(h)
        BY <1>0, <1>7 DEF Show, HooksFit
    <2>2. q \in Seq(AnyValue) /\ \A n \in 1 .. Len(q) : q[n] \in Values(h)
        BY <2>1
    <2>3. Head(reads[h]) \in Values(h)
        BY <2>1
    <2> HIDE DEF q
    <2> QED
        BY <1>0, <1>7, <2>2, <2>3, HookTyped DEF Show, TypeOK, q
<1>8. ASSUME NEW h \in Hooks, Overtake(h) PROVE Typed'
    <2> DEFINE q == <<Head(reads[h])>> \o Tail(Tail(reads[h]))
    <2>1. reads[h] \in Seq(AnyValue) /\ Len(reads[h]) > 1
          /\ \A n \in 1 .. Len(reads[h]) : reads[h][n] \in Values(h)
        BY <1>0, <1>8 DEF Overtake, HooksFit
    <2>2. q \in Seq(AnyValue) /\ \A n \in 1 .. Len(q) : q[n] \in Values(h)
        <3>0. Len(reads[h]) \in Nat /\ reads[h] # <<>>
            BY <2>1
        <3>1. Tail(reads[h]) \in Seq(AnyValue) /\ Tail(reads[h]) # <<>>
            <4>1. Tail(reads[h]) \in Seq(AnyValue) /\ Len(Tail(reads[h])) = Len(reads[h]) - 1
                BY <2>1, <3>0, TailFacts
            <4>2. Len(<<>>) = 0
                OBVIOUS
            <4>3. Len(Tail(reads[h])) # 0
                BY <2>1, <3>0, <4>1
            <4> QED
                BY <4>1, <4>2, <4>3
        <3>2. Tail(Tail(reads[h])) \in Seq(AnyValue)
            BY <3>1
        <3>3. Len(Tail(Tail(reads[h]))) = Len(reads[h]) - 2
              /\ \A n \in 1 .. Len(reads[h]) - 2 : Tail(Tail(reads[h]))[n] = reads[h][n + 2]
            <4>1. PICK t : t = Tail(reads[h])
                OBVIOUS
            <4>2. t \in Seq(AnyValue) /\ t # <<>> /\ Len(t) = Len(reads[h]) - 1
                  /\ \A n \in 1 .. Len(reads[h]) - 1 : t[n] = reads[h][n + 1]
                BY <2>1, <3>1, <4>1, TailFacts
            <4>3. Len(Tail(t)) = Len(t) - 1 /\ \A n \in 1 .. Len(t) - 1 : Tail(t)[n] = t[n + 1]
                BY <4>2, TailFacts
            <4>4. Len(reads[h]) \in Nat
                BY <2>1
            <4> QED
                BY <4>1, <4>2, <4>3, <4>4
        <3>4. Head(reads[h]) = reads[h][1] /\ Head(reads[h]) \in AnyValue
            BY <2>1
        <3> QED
            BY <2>1, <3>2, <3>3, <3>4
    <2>3. reads[h][2] \in Values(h)
        BY <2>1
    <2> HIDE DEF q
    <2> QED
        BY <1>0, <1>8, <2>2, <2>3, HookTyped DEF Overtake, TypeOK, q
<1>9. ASSUME NEW h \in Hooks, ReadFails(h) PROVE Typed'
    <2> DEFINE q == Tail(reads[h])
    <2>1. reads[h] \in Seq(AnyValue) /\ reads[h] # <<>>
          /\ \A n \in 1 .. Len(reads[h]) : reads[h][n] \in Values(h)
        BY <1>0, <1>9 DEF ReadFails, HooksFit
    <2>2. q \in Seq(AnyValue) /\ \A n \in 1 .. Len(q) : q[n] \in Values(h)
        BY <2>1
    <2>3. shown[h] \in Values(h) /\ shown' = [shown EXCEPT ![h] = shown[h]]
        BY <1>0, <1>9 DEF ReadFails, HooksFit
    <2> HIDE DEF q
    <2> QED
        BY <1>0, <1>9, <2>2, <2>3, HookTyped DEF ReadFails, TypeOK, q
<1> QED
    BY <1>1, <1>2, <1>3, <1>4, <1>5, <1>6, <1>7, <1>8, <1>9 DEF Next, EmitSome, ReadSome

\* Type correctness of the rows, the events under way and the hooks.
THEOREM LiveTyped == Spec => []TypeOK
<1>1. Spec => []Typed
    BY InitTyped, NextTyped, PTL DEF Spec
<1> QED
    BY <1>1, PTL DEF Typed
-----------------------------------------------------------------------------
(* What the list shows *)

\* A request that was just sent will cover every job.
LEMMA AskedCovers ==
    ASSUME Typed, "list" \in Hooks, reads'["list"] = Append(reads["list"], None)
    PROVE  reads'["list"] # <<>> /\ \A j \in Jobs : Covers(j)'
<1>1. reads["list"] \in Seq(AnyValue) /\ None \in AnyValue
    BY DEF Typed, TypeOK, AnyValue, Values
<1>2. /\ Len(reads'["list"]) = Len(reads["list"]) + 1
      /\ reads'["list"][Len(reads["list"]) + 1] = None
      /\ reads'["list"] # <<>>
    BY <1>1
<1> QED
    BY <1>2 DEF Covers

\* Nothing the list goes by has changed.
LEMMA SameCovers ==
    ASSUME reads'["list"] = reads["list"], shown'["list"] = shown["list"],
           NEW j \in Jobs, stored'[j] = stored[j], Covers(j)
    PROVE  Covers(j)'
BY DEF Covers

LEMMA EmitFresh ==
    ASSUME Typed, Fresh, NEW e \in outbox, Emit(e)
    PROVE  Fresh'
<1> SUFFICES ASSUME "list" \in Hooks, clean', connection' = "open"
             PROVE  /\ attached'
                    /\ reads'["list"] = <<>> => ~failed'["list"]
                    /\ \A j \in Jobs : Underway(j)' \/ Covers(j)'
    BY DEF Fresh
<1>1. /\ clean /\ connection = "open" /\ e.by \in Handled /\ attached
      /\ UNCHANGED <<stored, attached, shown, failed>>
      /\ \A j \in Jobs : Underway(j) \/ Covers(j)
      /\ reads["list"] = <<>> => ~failed["list"]
    BY DEF Emit, Fresh
<1>2. wire' = Append(wire, e.job) /\ outbox' = outbox \ {e} /\ wire \in Seq(Jobs) /\ e.job \in Jobs
    BY <1>1 DEF Emit, Typed, TypeOK
<1>3. reads'["list"] = reads["list"]
    BY DEF Emit, Asking, Answered
<1>4. /\ Len(wire') = Len(wire) + 1 /\ Len(wire) \in Nat /\ wire'[Len(wire) + 1] = e.job
      /\ \A i \in 1 .. Len(wire) : wire'[i] = wire[i]
    BY <1>2
<1>5. ASSUME NEW j \in Jobs, Underway(j) PROVE Underway(j)'
    <2>1. CASE \E i \in 1 .. Len(wire) : wire[i] = j
        BY <1>4, <2>1 DEF Underway
    <2>2. CASE \E f \in outbox : f.job = j
        <3>1. PICK f \in outbox : f.job = j
            BY <2>2
        <3>2. CASE f = e
            BY <1>4, <3>1, <3>2 DEF Underway
        <3>3. CASE f # e
            BY <1>2, <3>1, <3>3 DEF Underway
        <3> QED
            BY <3>2, <3>3
    <2> QED
        BY <1>5, <2>1, <2>2 DEF Underway
<1> QED
    BY <1>1, <1>3, <1>5, SameCovers

LEMMA ReadFresh ==
    ASSUME Typed, Fresh, NEW h \in Hooks, NEW i \in DOMAIN reads[h], Read(h, i)
    PROVE  Fresh'
<1> SUFFICES ASSUME "list" \in Hooks, clean, connection = "open"
             PROVE  /\ attached
                    /\ reads'["list"] = <<>> => ~failed["list"]
                    /\ \A j \in Jobs : Underway(j) \/ Covers(j)'
    BY DEF Read, Fresh, transport, Underway
<1>1. /\ UNCHANGED <<stored, shown>> /\ reads' = [reads EXCEPT ![h][i] = Snapshot(h)]
      /\ reads["list"] \in Seq(AnyValue) /\ reads \in [Hooks -> Seq(AnyValue)]
      /\ attached /\ (reads["list"] = <<>> => ~failed["list"])
      /\ \A j \in Jobs : Underway(j) \/ Covers(j)
    BY DEF Read, Typed, TypeOK, AnyValue, Fresh
<1>2. CASE h # "list"
    <2>1. reads'["list"] = reads["list"]
        BY <1>1, <1>2
    <2> QED
        BY <1>1, <2>1, SameCovers
<1>3. CASE h = "list"
    <2> DEFINE q == [reads["list"] EXCEPT ![i] = Snapshot("list")]
    <2>1. /\ Snapshot("list") \in AnyValue /\ View("list") = Jobs
          /\ \A j \in Jobs : Snapshot("list")[j] = stored[j]
        BY Snapshots DEF Typed, View
    <2>2. reads'["list"] = q /\ i \in 1 .. Len(reads["list"])
        BY <1>1, <1>3
    <2>3. /\ q \in Seq(AnyValue) /\ Len(q) = Len(reads["list"])
          /\ \A n \in 1 .. Len(q) : q[n] = IF n = i THEN Snapshot("list") ELSE reads["list"][n]
        BY <1>1, <2>1, <2>2
    <2> HIDE DEF q
    <2>4. Len(q) \in Nat /\ Len(q) # 0 /\ q # <<>> /\ reads["list"] # <<>>
        BY <1>1, <2>2, <2>3
    <2>5. q[Len(q)] = IF Len(q) = i THEN Snapshot("list") ELSE reads["list"][Len(reads["list"])]
        BY <2>3, <2>4
    <2>6. ASSUME NEW j \in Jobs, Covers(j) PROVE Covers(j)'
        <3>1. Covers(j)' <=> (q[Len(q)] = None \/ q[Len(q)][j] = stored[j])
            BY <1>1, <2>2, <2>4 DEF Covers
        <3>2. CASE Len(q) = i
            BY <2>1, <2>5, <3>1, <3>2
        <3>3. CASE Len(q) # i
            BY <2>4, <2>5, <2>6, <3>1, <3>3 DEF Covers
        <3> QED
            BY <3>2, <3>3
    <2> QED
        BY <1>1, <2>2, <2>4, <2>6
<1> QED
    BY <1>2, <1>3

LEMMA ShowFresh ==
    ASSUME Typed, Fresh, NEW h \in Hooks, Show(h)
    PROVE  Fresh'
<1> SUFFICES ASSUME "list" \in Hooks, clean, connection = "open"
             PROVE  /\ attached
                    /\ reads'["list"] = <<>> => ~failed'["list"]
                    /\ \A j \in Jobs : Underway(j) \/ Covers(j)'
    BY DEF Show, Fresh, transport, Underway
<1>1. /\ UNCHANGED stored /\ reads' = [reads EXCEPT ![h] = Tail(reads[h])]
      /\ shown' = [shown EXCEPT ![h] = Head(reads[h])] /\ failed' = [failed EXCEPT ![h] = FALSE]
      /\ reads \in [Hooks -> Seq(AnyValue)] /\ shown \in [Hooks -> AnyValue] /\ failed \in [Hooks -> BOOLEAN]
      /\ reads[h] # <<>> /\ Head(reads[h]) # None
      /\ attached /\ (reads["list"] = <<>> => ~failed["list"])
      /\ \A j \in Jobs : Underway(j) \/ Covers(j)
    BY DEF Show, Typed, TypeOK, AnyValue, Fresh
<1>2. CASE h # "list"
    <2>1. reads'["list"] = reads["list"] /\ shown'["list"] = shown["list"] /\ failed'["list"] = failed["list"]
        BY <1>1, <1>2
    <2> QED
        BY <1>1, <2>1, SameCovers
<1>3. CASE h = "list"
    <2>1. PICK r : r = reads["list"]
        OBVIOUS
    <2>2. r \in Seq(AnyValue) /\ r # <<>>
        BY <1>1, <1>3, <2>1
    <2>3. /\ Tail(r) \in Seq(AnyValue) /\ Len(Tail(r)) = Len(r) - 1 /\ Len(r) \in Nat /\ Head(r) = r[1]
          /\ \A n \in 1 .. Len(r) - 1 : Tail(r)[n] = r[n + 1]
        BY <2>2, TailFacts
    <2>4. reads'["list"] = Tail(r) /\ shown'["list"] = Head(r) /\ ~failed'["list"] /\ Head(r) # None
        BY <1>1, <1>3, <2>1
    <2>5. ASSUME NEW j \in Jobs, Covers(j) PROVE Covers(j)'
        <3>1. r[Len(r)] = None \/ r[Len(r)][j] = stored[j]
            BY <2>1, <2>2, <2>5 DEF Covers
        <3>2. CASE Tail(r) = <<>>
            <4>0. \A t : t = <<>> => Len(t) = 0
                OBVIOUS
            <4>7. Len(Tail(r)) = 0
                BY ONLY <4>0, <3>2, Zenon
            <4>6. Len(r) \in Nat /\ Len(Tail(r)) = Len(r) - 1
                BY <2>3
            <4>1. Len(r) = 1
                BY <4>6, <4>7
            <4>2. Head(r) = r[Len(r)]
                BY <2>3, <4>1
            <4>4. r[Len(r)] # None
                BY <2>4, <4>2
            <4>5. Head(r)[j] = stored[j]
                BY <3>1, <4>2, <4>4
            <4>3. reads'["list"] = <<>> /\ shown'["list"] # None /\ shown'["list"][j] = stored'[j]
                BY <1>1, <2>4, <3>2, <4>5
            <4> QED
                BY <4>3 DEF Covers
        <3>3. CASE Tail(r) # <<>>
            <4>1. Len(Tail(r)) # 0 /\ Len(Tail(r)) \in Nat
                BY <2>3, <3>3
            <4>2. Tail(r)[Len(Tail(r))] = r[Len(r)]
                BY <2>3, <4>1
            <4> QED
                BY <1>1, <2>4, <3>1, <3>3, <4>2 DEF Covers
        <3> QED
            BY <3>2, <3>3
    <2> QED
        BY <1>1, <2>4, <2>5
<1> QED
    BY <1>2, <1>3

LEMMA NextFresh == Typed /\ Fresh /\ [Next]_vars => Fresh'
<1> SUFFICES ASSUME Typed, Fresh, [Next]_vars PROVE Fresh'
    OBVIOUS
<1>1. CASE UNCHANGED vars
    BY <1>1 DEF vars, Fresh, Underway, Covers
<1>2. ASSUME NEW j \in Jobs, NEW by \in Writers, Change(j, by) PROVE Fresh'
    <2>1. /\ outbox' = outbox \cup {[job |-> j, version |-> stored'[j], by |-> by]}
          /\ UNCHANGED <<attached, wire, connection, reads, shown, failed, clean>>
          /\ \A i \in Jobs : i # j => stored'[i] = stored[i]
        BY <1>2 DEF Change, transport, hooks, Typed, TypeOK
    <2>2. Underway(j)'
        <3>1. PICK e : e = [job |-> j, version |-> stored'[j], by |-> by]
            OBVIOUS
        <3>2. e \in outbox' /\ e.job = j
            BY <2>1, <3>1
        <3> QED
            BY <3>2 DEF Underway
    <2>3. ASSUME NEW i \in Jobs, i # j, Underway(i) \/ Covers(i) PROVE Underway(i)' \/ Covers(i)'
        BY <2>1, <2>3 DEF Underway, Covers
    <2> QED
        BY <2>1, <2>2, <2>3 DEF Fresh
<1>3. CASE \E e \in outbox : EmitFails(e)
    BY <1>3 DEF EmitFails, Fresh
<1>4. CASE Attach \/ Break \/ Close
    BY <1>4 DEF Attach, Break, Close, Fresh
<1>5. CASE BecomeCalm
    BY <1>5 DEF BecomeCalm, Fresh, Underway, Covers, transport, hooks
<1>6. CASE Open
    <2>1. CASE "list" \in Hooks
        <3>1. reads'["list"] = Append(reads["list"], None)
            BY <1>6, <2>1 DEF Open, Asking, Reopeners
        <3> QED
            BY <1>6, <2>1, <3>1, AskedCovers DEF Open, Fresh
    <2> QED
        BY <2>1 DEF Fresh
<1>7. CASE Deliver
    <2>1. CASE "list" \in Hooks
        <3>1. Head(wire) \in Jobs
            BY <1>7, TailFacts DEF Deliver, Typed, TypeOK
        <3>2. reads'["list"] = Append(reads["list"], None)
            BY <1>7, <2>1, <3>1 DEF Deliver, Asking, Listeners, View
        <3> QED
            BY <1>7, <2>1, <3>2, AskedCovers DEF Deliver, Fresh
    <2> QED
        BY <2>1 DEF Fresh
<1>8. ASSUME NEW h \in Hooks, Overtake(h) \/ ReadFails(h) PROVE Fresh'
    BY <1>8 DEF Overtake, ReadFails, Fresh
<1> QED
    BY <1>1, <1>2, <1>3, <1>4, <1>5, <1>6, <1>7, <1>8, EmitFresh, ReadFresh, ShowFresh
    DEF Next, EmitSome, ReadSome

\* On a connection that had no fault since it opened, a list that awaits nothing is current,
\* however changes, events and requests overlapped.
THEOREM ListsAreCurrent == Spec => []ListIsCurrent
<1>1. Init => Fresh
    BY DEF Init, Fresh
<1>2. Typed /\ Fresh => ListIsCurrent
    <2> SUFFICES ASSUME Typed, Fresh, "list" \in Hooks, clean, connection = "open", outbox = {},
                        wire = <<>>, reads["list"] = <<>>
                 PROVE  Current("list")
        BY DEF ListIsCurrent
    <2>1. ~failed["list"] /\ \A j \in Jobs : ~Underway(j) /\ Covers(j)
        BY DEF Fresh, Underway
    <2>2. \A j \in Jobs : shown["list"] # None /\ shown["list"][j] = stored[j]
        BY <2>1 DEF Covers
    <2>3. shown["list"] \in [Jobs -> 0 .. Final]
        BY <2>2, LiveAssumption DEF Typed, HooksFit, Values, View
    <2> QED
        BY <2>1, <2>2, <2>3 DEF Current, Snapshot, View
<1> QED
    BY <1>1, <1>2, InitTyped, NextTyped, NextFresh, PTL DEF Spec
=============================================================================
