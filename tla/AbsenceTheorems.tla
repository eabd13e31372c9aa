-------------------------- MODULE AbsenceTheorems --------------------------
(***************************************************************************)
(* Proofs about AbsenceProof: for every number of waiters the observation  *)
(* on the fence is backed by real, spaced evidence; as long as one call at *)
(* a time waits (and any number of them crash) a fence completes only on   *)
(* three observations, none of them older than a sighting of the disk.     *)
(***************************************************************************)
EXTENDS AbsenceProof, TLAPS

\* The first step of both inductions.
LEMMA InitEvidence == Init => EvidenceInv
  <1> SUFFICES ASSUME Init PROVE EvidenceInv
    OBVIOUS
  <1>1. raced \in BOOLEAN
    BY Zenon DEF Init
  <1> QED
    BY <1>1, IntervalPos, NoFenceFresh
    DEF Init, EvidenceInv, TypeOK, Observation, Nothing, EvidenceIsReal, StampOK, PendingOK

\* The fields of an observation.
LEMMA Fields ==
  ASSUME NEW o \in Observation
  PROVE  /\ o.count \in 0..3 /\ o.first \in Nat /\ o.last \in Nat
         /\ o.count # 3 => o.count < 3
  BY DEF Observation

\* What Extended yields: one more observation, stamped t.
LEMMA ExtendedType ==
  ASSUME NEW o \in Observation, NEW t \in Nat, o.count < 3
  PROVE  /\ Extended(o, t) \in Observation
         /\ Extended(o, t).count = o.count + 1
         /\ Extended(o, t).last = t
  BY DEF Extended, Observation

\* Every operation of a waiter, and the clock, keeps the types.
LEMMA NextType == EvidenceInv /\ [Next]_vars => TypeOK'
  <1> SUFFICES ASSUME EvidenceInv, [Next]_vars PROVE TypeOK'
    OBVIOUS
  <1> USE DEF EvidenceInv, TypeOK
  <1>0. Nothing \in Observation
    BY DEF Nothing, Observation
  <1>a. raced' \in BOOLEAN
    BY Zenon DEF Next, Step, Load, Tick, vars
  <1> USE <1>a
  <1>1. CASE Tick
    BY <1>1 DEF Tick
  <1>2. ASSUME NEW w \in Waiters, Load(w) PROVE TypeOK'
    BY <1>2 DEF Load
  <1>3. ASSUME NEW w \in Waiters, Read(w) PROVE TypeOK'
    <2>1. CASE Spaced(copy[w])
      <3>1. /\ at' = [at EXCEPT ![w] = now]
            /\ UNCHANGED <<copy, target, now, fence, evidence>>
        BY <1>3, <2>1 DEF Read
      <3>2. CASE pc' = [pc EXCEPT ![w] = "absent"] /\ sighted' = sighted
        BY <3>1, <3>2
      <3>3. CASE pc' = [pc EXCEPT ![w] = "present"] /\ sighted' = [sighted EXCEPT ![w] = now]
        BY <3>1, <3>3
      <3> QED
        BY <1>3, <2>1, <3>2, <3>3 DEF Read
    <2>2. CASE ~Spaced(copy[w])
      <3>1. Stop(w) /\ UNCHANGED <<now, fence, evidence>>
        BY <1>3, <2>2 DEF Read
      <3> QED
        BY <3>1, <1>0 DEF Stop
    <2> QED
      BY <2>1, <2>2
  <1>4. ASSUME NEW w \in Waiters, Absent(w) PROVE TypeOK'
    <2>1. CASE copy[w].count = 3
      BY <1>4, <2>1, Zenon DEF Absent
    <2>2. CASE copy[w].count # 3
      <3>1. copy[w].count < 3
        <4>1. copy[w] \in Observation
          OBVIOUS
        <4> QED
          BY <4>1, <2>2, Fields
      <3>2. Extended(copy[w], at[w]) \in Observation
        BY <3>1, ExtendedType
      <3> QED
        BY <1>4, <2>2, <3>2, Zenon DEF Absent
    <2> QED
      BY <2>1, <2>2
  <1>5. ASSUME NEW w \in Waiters, Wait(w) PROVE TypeOK'
    BY <1>5 DEF Wait
  <1>6. ASSUME NEW w \in Waiters, Present(w) PROVE TypeOK'
    BY <1>6, <1>0, Zenon DEF Present
  <1>7. ASSUME NEW w \in Waiters, Write(w) PROVE TypeOK'
    <2>1. now' = now
      BY <1>7 DEF Write
    <2>2. fence' \in Observation \cup {NoFence} /\ evidence' \in Seq(Nat)
      <3>1. CASE UNCHANGED <<fence, evidence>>
        BY <3>1
      <3>2. CASE fence' = target[w] /\ evidence' = <<>>
        BY <3>2
      <3>3. CASE fence' = target[w] /\ evidence' = Append(evidence, at[w])
        BY <3>3
      <3> QED
        BY <1>7, <3>1, <3>2, <3>3 DEF Write
    <2>3. Continue(w, target[w]) \/ (Continue(w, fence) /\ fence # NoFence) \/ Stop(w)
      BY <1>7 DEF Write
    <2>4. sighted' = sighted \/ sighted' = [sighted EXCEPT ![w] = 0]
      BY <1>7 DEF Write, Stop
    <2> QED
      <3>1. sighted' \in [Waiters -> Nat]
        BY <2>4
      <3>2. CASE \E f \in Observation : Continue(w, f)
        BY <2>1, <2>2, <3>1, <3>2, <1>0 DEF Continue
      <3>3. CASE Stop(w)
        BY <2>1, <2>2, <3>3, <1>0 DEF Stop
      <3>4. target[w] \in Observation /\ (fence # NoFence => fence \in Observation)
        OBVIOUS
      <3> QED
        BY <2>3, <3>2, <3>3, <3>4
  <1>8. ASSUME NEW w \in Waiters, Complete(w) PROVE TypeOK'
    BY <1>8, <1>0 DEF Complete, Stop
  <1>9. ASSUME NEW w \in Waiters, GiveUp(w) PROVE TypeOK'
    BY <1>9, <1>0 DEF GiveUp, Stop
  <1>10. CASE UNCHANGED vars
    BY <1>10 DEF vars
  <1> QED
    BY <1>1, <1>2, <1>3, <1>4, <1>5, <1>6, <1>7, <1>8, <1>9, <1>10 DEF Next, Step, Loop

\* A waiter's pending observation stays one step ahead of its own copy.
LEMMA NextPending ==
  EvidenceInv /\ [Next]_vars => \A w \in Waiters : PendingOK(w)'
  <1> SUFFICES ASSUME EvidenceInv, [Next]_vars, NEW x \in Waiters PROVE PendingOK(x)'
    OBVIOUS
  <1>0. PendingOK(x) /\ TypeOK
    BY DEF EvidenceInv
  <1> USE DEF TypeOK, PendingOK
  <1>1. CASE Tick
    BY <1>0, <1>1 DEF Tick
  <1>2. ASSUME NEW w \in Waiters, Load(w) PROVE PendingOK(x)'
    BY <1>0, <1>2 DEF Load
  <1>3. ASSUME NEW w \in Waiters, Read(w) PROVE PendingOK(x)'
    BY <1>0, <1>3, ZenonT(60) DEF Read, Stop
  <1>4. ASSUME NEW w \in Waiters, Absent(w) PROVE PendingOK(x)'
    <2>1. CASE x # w
      BY <1>0, <1>4, <2>1 DEF Absent
    <2>2. CASE x = w
      <3>1. CASE copy[w].count = 3
        BY <1>4, <2>2, <3>1, <1>0 DEF Absent
      <3>2. CASE copy[w].count \in {1, 2} /\ at[w] < copy[w].last + Interval
        BY <1>4, <2>2, <3>2, <1>0 DEF Absent
      <3>3. CASE copy[w].count # 3 /\ ~(copy[w].count \in {1, 2} /\ at[w] < copy[w].last + Interval)
        <4>1. /\ target'[w] = Extended(copy[w], at[w])
              /\ copy' = copy /\ at' = at
          BY <1>4, <3>3, <1>0 DEF Absent
        <4>2. copy[w].count < 3 /\ copy[w].count \in Nat /\ copy[w].last \in Nat /\ at[w] \in Nat
          <5>1. copy[w] \in Observation
            BY <1>0
          <5> QED
            BY <5>1, <3>3, <1>0, Fields
        <4>3. copy[w].count > 0 => at[w] >= copy[w].last + Interval
          BY <4>2, <3>3, IntervalPos
        <4> QED
          BY <4>1, <4>2, <4>3, <2>2
      <3> QED
        BY <3>1, <3>2, <3>3
    <2> QED
      BY <2>1, <2>2
  <1>5. ASSUME NEW w \in Waiters, Wait(w) PROVE PendingOK(x)'
    BY <1>0, <1>5 DEF Wait
  <1>6. ASSUME NEW w \in Waiters, Present(w) PROVE PendingOK(x)'
    BY <1>0, <1>6 DEF Present, Nothing
  <1>7. ASSUME NEW w \in Waiters, Write(w) PROVE PendingOK(x)'
    BY <1>0, <1>7 DEF Write, Continue, Stop
  <1>8. ASSUME NEW w \in Waiters, Complete(w) PROVE PendingOK(x)'
    BY <1>0, <1>8 DEF Complete, Stop
  <1>9. ASSUME NEW w \in Waiters, GiveUp(w) PROVE PendingOK(x)'
    BY <1>0, <1>9 DEF GiveUp, Stop
  <1>10. CASE UNCHANGED vars
    BY <1>0, <1>10 DEF vars
  <1> QED
    BY <1>1, <1>2, <1>3, <1>4, <1>5, <1>6, <1>7, <1>8, <1>9, <1>10 DEF Next, Step, Loop

\* Persisting an observation appends one time to the evidence, far enough from
\* the last; erasing it empties the evidence; nothing else touches either.
LEMMA NextReal == EvidenceInv /\ [Next]_vars => EvidenceIsReal' /\ StampOK'
  <1> SUFFICES ASSUME EvidenceInv, [Next]_vars PROVE EvidenceIsReal' /\ StampOK'
    OBVIOUS
  <1>0. TypeOK /\ EvidenceIsReal /\ StampOK /\ \A w \in Waiters : PendingOK(w)
    BY DEF EvidenceInv
  <1>1. CASE UNCHANGED <<fence, evidence>>
    BY <1>0, <1>1 DEF EvidenceIsReal, StampOK
  <1>2. CASE fence' = NoFence
    BY <1>2 DEF EvidenceIsReal, StampOK
  <1>3. CASE \E w \in Waiters : /\ pc[w] = "write" /\ fence = copy[w] /\ fence' = target[w]
                                /\ evidence' = IF target[w].count = 0 THEN <<>>
                                               ELSE Append(evidence, at[w])
    <2>1. PICK w \in Waiters : /\ pc[w] = "write" /\ fence = copy[w] /\ fence' = target[w]
                               /\ evidence' = IF target[w].count = 0 THEN <<>>
                                              ELSE Append(evidence, at[w])
      BY <1>3
    <2>2. CASE target[w].count = 0
      BY <2>1, <2>2 DEF EvidenceIsReal, StampOK
    <2>3. CASE target[w].count # 0
      <3>1. copy[w] \in Observation /\ at[w] \in Nat /\ evidence \in Seq(Nat)
        BY <1>0 DEF TypeOK
      <3>2. /\ copy[w].count < 3 /\ target[w] = Extended(copy[w], at[w])
            /\ copy[w].count > 0 => at[w] >= copy[w].last + Interval
        BY <1>0, <2>1, <2>3 DEF PendingOK
      <3>3. fence'.count = copy[w].count + 1 /\ fence'.last = at[w] /\ fence' # NoFence
        <4>1. /\ Extended(copy[w], at[w]) \in Observation
              /\ Extended(copy[w], at[w]).count = copy[w].count + 1
              /\ Extended(copy[w], at[w]).last = at[w]
          BY <3>1, <3>2, ExtendedType
        <4>2. fence' = Extended(copy[w], at[w])
          BY <2>1, <3>2
        <4>3. fence' # NoFence
          BY <4>1, <4>2, NoFenceFresh DEF Observation
        <4> QED
          BY <4>1, <4>2, <4>3
      <3>4. fence # NoFence
        BY <2>1, <3>1, NoFenceFresh DEF Observation
      <3>5. /\ Len(evidence) = copy[w].count
            /\ \A i \in 1..(Len(evidence) - 1) : evidence[i + 1] >= evidence[i] + Interval
            /\ copy[w].count > 0 => evidence[copy[w].count] = copy[w].last
        BY <1>0, <2>1, <3>4 DEF EvidenceIsReal, StampOK
      <3>6. evidence' = Append(evidence, at[w])
        BY <2>1, <2>3
      <3>7. /\ Len(evidence') = Len(evidence) + 1
            /\ evidence'[Len(evidence) + 1] = at[w]
            /\ \A i \in 1..Len(evidence) : evidence'[i] = evidence[i]
            /\ Len(evidence) \in Nat
        BY <3>1, <3>6
      <3>8. ASSUME NEW i \in 1..(Len(evidence') - 1)
            PROVE  evidence'[i + 1] >= evidence'[i] + Interval
        <4>1. i \in 1..Len(evidence)
          BY <3>7
        <4>2. CASE i = Len(evidence)
          <5>1. evidence'[i] = copy[w].last /\ evidence'[i + 1] = at[w] /\ copy[w].count > 0
            BY <4>1, <4>2, <3>7, <3>5
          <5> QED
            BY <5>1, <3>2
        <4>3. CASE i # Len(evidence)
          <5>1. i \in 1..(Len(evidence) - 1) /\ i + 1 \in 1..Len(evidence)
            BY <4>1, <4>3, <3>7
          <5>2. evidence'[i] = evidence[i] /\ evidence'[i + 1] = evidence[i + 1]
            BY <5>1, <4>1, <3>7
          <5>3. evidence[i + 1] >= evidence[i] + Interval
            BY <5>1, <3>5
          <5> QED
            BY <5>2, <5>3
        <4> QED
          BY <4>2, <4>3
      <3>9. Len(evidence') = fence'.count
        BY <3>3, <3>5, <3>7
      <3>10. evidence'[fence'.count] = fence'.last
        BY <3>3, <3>5, <3>7
      <3> QED
        BY <3>8, <3>9, <3>10 DEF EvidenceIsReal, StampOK
    <2> QED
      BY <2>2, <2>3
  <1>4. ASSUME NEW w \in Waiters, Step(w)
        PROVE  \/ UNCHANGED <<fence, evidence>>
               \/ fence' = NoFence
               \/ /\ pc[w] = "write" /\ fence = copy[w] /\ fence' = target[w]
                  /\ evidence' = IF target[w].count = 0 THEN <<>>
                                 ELSE Append(evidence, at[w])
    BY <1>4 DEF Step, Loop, Load, Read, Absent, Wait, Present, Write, Complete, GiveUp
  <1> QED
    BY <1>1, <1>2, <1>3, <1>4 DEF Next, Tick, vars

LEMMA EvidenceInductive == EvidenceInv /\ [Next]_vars => EvidenceInv'
  BY NextType, NextPending, NextReal DEF EvidenceInv

\* However many calls wait on one detach or delete fence, and however they
\* race and crash, the count it carries stands for that many absence reads at
\* least Interval apart.
THEOREM EvidenceHolds == Spec => [](TypeOK /\ EvidenceIsReal)
  <1>1. Init => EvidenceInv
    BY InitEvidence
  <1>2. EvidenceInv /\ [Next]_vars => EvidenceInv'
    BY EvidenceInductive
  <1>3. EvidenceInv => TypeOK /\ EvidenceIsReal
    BY DEF EvidenceInv
  <1> QED
    BY <1>1, <1>2, <1>3, PTL DEF Spec

-----------------------------------------------------------------------------

\* What one step of the only call leaves behind.
LEMMA AloneStep ==
  ASSUME AloneInv, ~raced, EvidenceInv', NEW w \in Waiters, Step(w)
  PROVE  /\ AloneOK(w)' /\ OrderOK(w)'
         /\ (fence # NoFence /\ fence.count > 0 /\ pc[w] \in {"read", "absent", "wait", "complete"}
               => evidence[1] >= sighted[w])'
  <1>0. /\ TypeOK /\ AloneOK(w) /\ OrderOK(w) /\ PendingOK(w) /\ EvidenceIsReal
        /\ TypeOK' /\ EvidenceIsReal'
        /\ fence # NoFence /\ fence.count > 0 /\ pc[w] \in {"read", "absent", "wait", "complete"}
             => evidence[1] >= sighted[w]
    BY DEF AloneInv, EvidenceInv, BuildsOnNewer
  <1>t. /\ copy[w] \in Observation /\ target[w] \in Observation
        /\ copy[w].count \in 0..3 /\ target[w].count \in 0..3
        /\ at[w] \in Nat /\ sighted[w] \in Nat /\ now \in Nat /\ evidence \in Seq(Nat)
        /\ copy[w] # NoFence /\ target[w] # NoFence
    <2>1. /\ copy[w] \in Observation /\ target[w] \in Observation
          /\ at[w] \in Nat /\ sighted[w] \in Nat /\ now \in Nat /\ evidence \in Seq(Nat)
      BY <1>0 DEF TypeOK
    <2>2. copy[w].count \in 0..3 /\ target[w].count \in 0..3
      BY <2>1, Fields
    <2>3. copy[w] # NoFence /\ target[w] # NoFence
      BY <2>1, NoFenceFresh DEF Observation
    <2> QED
      BY <2>1, <2>2, <2>3
  <1>s. ASSUME Stop(w), now' = now
        PROVE  pc'[w] = "idle" /\ sighted'[w] = 0 /\ sighted'[w] <= now'
    BY <1>s, <1>0, <1>t DEF Stop, TypeOK
  <1>q. ASSUME Stop(w), now' = now
        PROVE  /\ AloneOK(w)' /\ OrderOK(w)'
               /\ pc'[w] \notin {"read", "absent", "wait", "complete"}
    BY <1>q, <1>s DEF AloneOK, OrderOK
  <1>1. CASE Load(w)
    <2>1. /\ pc'[w] = "read" /\ copy'[w] = fence /\ fence' = fence /\ now' = now
          /\ evidence' = evidence /\ sighted' = sighted /\ pc[w] = "idle" /\ target' = target
      BY <1>0, <1>1 DEF Load, TypeOK
    <2>2. sighted[w] = 0
      BY <1>0, <2>1 DEF OrderOK
    <2>3. fence # NoFence /\ fence.count > 0 => evidence[1] >= 0
      <3> SUFFICES ASSUME fence # NoFence, fence.count > 0 PROVE evidence[1] >= 0
        OBVIOUS
      <3>1. Len(evidence) > 0
        BY <1>0 DEF EvidenceIsReal
      <3>2. evidence[1] \in Nat
        BY <3>1, <1>t
      <3> QED
        BY <3>2
    <2> QED
      BY <1>0, <1>t, <2>1, <2>2, <2>3 DEF AloneOK, OrderOK
  <1>2. CASE Read(w)
    <2>1. now' = now /\ fence' = fence /\ evidence' = evidence /\ pc[w] = "read"
      BY <1>2 DEF Read
    <2>2. CASE Stop(w)
      BY <1>q, <2>1, <2>2
    <2>3. CASE copy' = copy /\ at'[w] = now /\ pc'[w] = "absent" /\ sighted' = sighted
      BY <2>1, <2>3, <1>0, <1>t DEF AloneOK, OrderOK
    <2>4. CASE copy' = copy /\ pc'[w] = "present" /\ sighted'[w] = now
      BY <2>1, <2>4, <1>0, <1>t DEF AloneOK, OrderOK
    <2>5. CASE Spaced(copy[w])
      <3>1. copy' = copy /\ at'[w] = now
        BY <1>2, <2>5, <1>0 DEF Read, TypeOK
      <3>2. \/ pc'[w] = "absent" /\ sighted' = sighted
            \/ pc'[w] = "present" /\ sighted'[w] = now
        BY <1>2, <2>5, <1>0 DEF Read, TypeOK
      <3> QED
        BY <3>1, <3>2, <2>3, <2>4
    <2> QED
      BY <2>2, <2>5, <1>2 DEF Read
  <1>3. CASE Absent(w)
    <2>1. /\ now' = now /\ fence' = fence /\ evidence' = evidence /\ pc[w] = "absent"
          /\ copy' = copy /\ at' = at /\ sighted' = sighted
      BY <1>3 DEF Absent
    <2>2. CASE copy[w].count = 3 /\ pc'[w] = "complete"
      BY <2>1, <2>2, <1>0, <1>t DEF AloneOK, OrderOK
    <2>3. CASE pc'[w] = "wait"
      BY <2>1, <2>3, <1>0, <1>t DEF AloneOK, OrderOK
    <2>4. CASE pc'[w] = "write" /\ copy[w].count # 3 /\ target'[w] = Extended(copy[w], at[w])
      <3>1. target'[w].count = copy[w].count + 1
        BY <2>4, <1>t, ExtendedType, SMTT(30)
      <3> QED
        BY <3>1, <2>1, <2>4, <1>0, <1>t, SMTT(30) DEF AloneOK, OrderOK
    <2> QED
      <3>1. \/ copy[w].count = 3 /\ pc'[w] = "complete"
            \/ pc'[w] = "wait"
            \/ pc'[w] = "write" /\ copy[w].count # 3 /\ target'[w] = Extended(copy[w], at[w])
        BY <1>3, <1>0 DEF Absent, TypeOK
      <3> QED
        BY <3>1, <2>2, <2>3, <2>4
  <1>4. CASE Wait(w)
    <2>1. /\ now' = now /\ fence' = fence /\ evidence' = evidence /\ pc[w] = "wait"
          /\ copy' = copy /\ sighted' = sighted /\ pc'[w] = "read"
      BY <1>4, <1>0 DEF Wait, TypeOK
    <2> QED
      BY <2>1, <1>0, <1>t DEF AloneOK, OrderOK
  <1>5. CASE Present(w)
    <2>1. /\ now' = now /\ fence' = fence /\ evidence' = evidence /\ pc[w] = "present"
          /\ copy' = copy /\ at' = at /\ sighted' = sighted
      BY <1>5 DEF Present
    <2>2. CASE copy[w].count = 0 /\ pc'[w] = "read"
      BY <2>1, <2>2, <1>0, <1>t DEF AloneOK, OrderOK
    <2>3. CASE pc'[w] = "write" /\ target'[w] = Nothing
      BY <2>1, <2>3, <1>0, <1>t DEF AloneOK, OrderOK, Nothing
    <2> QED
      BY <2>2, <2>3, <1>5, <1>0 DEF Present, TypeOK
  <1>6. CASE Write(w)
    <2>1. now' = now /\ pc[w] = "write" /\ fence = copy[w]
      BY <1>6, <1>0 DEF Write, AloneOK
    <2>2. CASE Stop(w)
      BY <1>q, <2>1, <2>2
    <2>3. CASE Continue(w, target[w]) /\ sighted' = sighted /\ fence' = target[w]
               /\ evidence' = IF target[w].count = 0 THEN <<>> ELSE Append(evidence, at[w])
      <3>1. /\ copy'[w] = target[w]
            /\ pc'[w] = IF target[w].count # 0 /\ copy[w].count = 2 THEN "complete" ELSE "read"
        BY <2>3, <1>0 DEF Continue, TypeOK
      <3>2. CASE target[w].count = 0
        BY <3>1, <3>2, <2>1, <2>3, <1>0, <1>t DEF AloneOK, OrderOK
      <3>3. CASE target[w].count # 0
        <4>1. copy[w].count < 3 /\ target[w].count = copy[w].count + 1
          BY <3>3, <2>1, <1>0, <1>t, ExtendedType, SMTT(30) DEF PendingOK
        <4>2. sighted[w] <= at[w] /\ (copy[w].count > 0 => evidence[1] >= sighted[w])
          BY <3>3, <2>1, <1>0 DEF OrderOK
        <4>3. Len(evidence) = copy[w].count
          BY <2>1, <1>0, <1>t DEF EvidenceIsReal
        <4>4. evidence'[1] = IF copy[w].count > 0 THEN evidence[1] ELSE at[w]
          BY <4>3, <3>3, <2>3, <1>t
        <4>5. evidence'[1] >= sighted[w]
          BY <4>2, <4>4, <1>t
        <4> QED
          BY <4>1, <4>5, <3>1, <2>1, <2>3, <1>0, <1>t DEF AloneOK, OrderOK
      <3> QED
        BY <3>2, <3>3
    <2> QED
      BY <1>6, <2>1, <2>2, <2>3, <1>t DEF Write
  <1>7. CASE Complete(w)
    BY <1>7, <1>q DEF Complete
  <1>8. CASE GiveUp(w)
    BY <1>8, <1>q DEF GiveUp
  <1> QED
    BY <1>1, <1>2, <1>3, <1>4, <1>5, <1>6, <1>7, <1>8 DEF Step, Loop

\* A step of one call leaves the others as they are.
LEMMA OthersStay ==
  ASSUME TypeOK, NEW w \in Waiters, Step(w), NEW x \in Waiters, x # w
  PROVE  pc'[x] = pc[x] /\ sighted'[x] = sighted[x] /\ now' = now
  BY DEF TypeOK, Step, Loop, Load, Read, Absent, Wait, Present, Write, Continue, Complete, GiveUp, Stop

\* Every operation keeps the stronger invariant.
LEMMA AloneInductive == AloneInv /\ [Next]_vars => AloneInv'
  <1> SUFFICES ASSUME AloneInv, [Next]_vars PROVE AloneInv'
    OBVIOUS
  <1>1. EvidenceInv' /\ TypeOK
    BY EvidenceInductive DEF AloneInv, EvidenceInv
  <1>2. ASSUME NEW w \in Waiters, Step(w), ~raced' PROVE AloneInv'
    <2>1. ~raced /\ \A x \in Waiters : x # w => pc[x] = "idle"
      <3>1. CASE Load(w)
        BY <1>2, <3>1 DEF Load
      <3>2. CASE Loop(w) /\ UNCHANGED raced
        <4>1. pc[w] # "idle"
          BY <3>2 DEF Loop, Read, Absent, Wait, Present, Write, Complete, GiveUp
        <4> QED
          BY <1>2, <3>2, <4>1 DEF AloneInv
      <3> QED
        BY <1>2, <3>1, <3>2 DEF Step
    <2>2. AloneOK(w)' /\ OrderOK(w)' /\ BuildsOnNewer(w)'
      BY <1>1, <1>2, <2>1, AloneStep DEF BuildsOnNewer
    <2>3. ASSUME NEW x \in Waiters, x # w
          PROVE  pc'[x] = "idle" /\ AloneOK(x)' /\ OrderOK(x)' /\ BuildsOnNewer(x)'
      <3>1. pc'[x] = "idle" /\ sighted'[x] = sighted[x] /\ now' = now
        BY <1>1, <1>2, <2>1, <2>3, OthersStay
      <3>2. OrderOK(x) /\ pc[x] = "idle" /\ now \in Nat
        BY <1>1, <2>1, <2>3 DEF AloneInv, TypeOK
      <3>3. OrderOK(x)'
        BY <3>1, <3>2 DEF OrderOK
      <3>4. AloneOK(x)'
        BY <3>1 DEF AloneOK
      <3>5. BuildsOnNewer(x)'
        BY <3>1 DEF BuildsOnNewer
      <3> QED
        BY <3>1, <3>3, <3>4, <3>5
    <2> QED
      BY <1>1, <2>2, <2>3 DEF AloneInv
  <1>3. CASE Tick
    <2>1. \A w \in Waiters : sighted[w] \in Nat /\ now \in Nat /\ now' = now + 1
      BY <1>1, <1>3 DEF Tick, TypeOK
    <2> QED
      BY <1>1, <1>3, <2>1 DEF Tick, AloneInv, BuildsOnNewer, AloneOK, OrderOK
  <1>4. CASE UNCHANGED vars
    BY <1>1, <1>4 DEF vars, AloneInv, BuildsOnNewer, AloneOK, OrderOK
  <1>5. CASE raced'
    BY <1>1, <1>5 DEF AloneInv
  <1> QED
    BY <1>2, <1>3, <1>4, <1>5 DEF Next

\* The stronger invariant lets only a third observation complete the fence.
LEMMA AloneCompletion ==
  ASSUME AloneInv, [Next]_vars, fence # NoFence, fence' = NoFence, ~raced
  PROVE  /\ fence.count = 3
         /\ \E w \in Waiters : pc[w] = "complete" /\ evidence[1] >= sighted[w]
  <1>1. PICK w \in Waiters : Step(w)
    BY DEF Next, Tick, vars
  <1>2. target[w] # NoFence
    BY NoFenceFresh DEF AloneInv, EvidenceInv, TypeOK, Observation
  <1>3. pc[w] = "complete" /\ fence = copy[w]
    BY <1>1, <1>2 DEF Step, Loop, Load, Read, Absent, Wait, Present, Write, Complete, GiveUp
  <1>4. AloneOK(w) /\ BuildsOnNewer(w)
    BY DEF AloneInv
  <1> QED
    BY <1>3, <1>4 DEF AloneOK, BuildsOnNewer

\* For every number of calls: as long as one at a time waits on a detach or
\* delete fence, across any number of crashes and retries, the fence completes
\* only on three persisted absence observations, all made after the completing
\* call last saw the disk (waitForDetached, waitForDiskAbsent).
THEOREM AloneCompletes == Spec => CompletionIsProven
  <1>1. Init => AloneInv
    BY InitEvidence DEF Init, AloneInv, BuildsOnNewer, AloneOK, OrderOK, Nothing
  <1>2. AloneInv /\ [Next]_vars => AloneInv'
    BY AloneInductive
  <1>3. AloneInv /\ [Next]_vars =>
          [fence # NoFence /\ fence' = NoFence /\ ~raced =>
             /\ fence.count = 3
             /\ \E w \in Waiters : pc[w] = "complete" /\ evidence[1] >= sighted[w]]_vars
    BY AloneCompletion
  <1> QED
    BY <1>1, <1>2, <1>3, PTL DEF Spec, CompletionIsProven

=============================================================================
