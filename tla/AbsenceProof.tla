---------------------------- MODULE AbsenceProof ----------------------------
(***************************************************************************)
(* The absence proof of a dispatched disk detach or delete: the loops of   *)
(* waitForDetached and waitForDiskAbsent over the observation that the     *)
(* mutation fence carries.  A fence completes after three absence          *)
(* observations, each persisted, each at least Interval after the one      *)
(* before; seeing the disk again erases them.                              *)
(*                                                                         *)
(* Several callers may wait on one fence: the call that dispatched, the    *)
(* same call retried after a restart, and any later call for the disk,     *)
(* which settles the fence first.  What a read of the cloud shows is       *)
(* unconstrained: replicas lag and flap.  The clock is the shared one the  *)
(* timestamps are taken from.                                              *)
(***************************************************************************)
EXTENDS Naturals, Sequences

CONSTANTS Waiters,   \* calls waiting on the fence
          Interval,  \* absencePoll, 30 s in the driver
          MaxTime,   \* bound on the clock
          NoFence

ASSUME IntervalPos == Interval \in Nat \ {0}
ASSUME MaxTimeNat == MaxTime \in Nat
ASSUME NoFenceFresh == NoFence \notin [count : 0..3, first : Nat, last : Nat]

VARIABLES now,      \* the clock
          fence,    \* the stored observation, or NoFence once completed
          evidence, \* history: times of the observations that it stands for
          pc, copy, \* per waiter: control, and the fence it last saw
          target,   \* per waiter: the observation it is about to persist
          at,       \* per waiter: time.Now() after its last read
          sighted,  \* history: when this call last saw the disk
          raced     \* history: two calls have worked on the fence at a time

vars == <<now, fence, evidence, pc, copy, target, at, sighted, raced>>

\* mutationObservation; last is FirstObservedAt while count is 1.
Observation == [count : 0..3, first : Nat, last : Nat]
Nothing == [count |-> 0, first |-> 0, last |-> 0]

\* validateMutationObservationSpacing
Spaced(o) == o.count < 2 \/ o.last >= o.first + (o.count - 1) * Interval

Extended(o, t) ==
  [count |-> o.count + 1, first |-> IF o.count = 0 THEN t ELSE o.first, last |-> t]

\* The call returns; its locals are gone.
Stop(w) ==
  /\ pc' = [pc EXCEPT ![w] = "idle"]
  /\ copy' = [copy EXCEPT ![w] = Nothing]
  /\ target' = [target EXCEPT ![w] = Nothing]
  /\ at' = [at EXCEPT ![w] = 0]
  /\ sighted' = [sighted EXCEPT ![w] = 0]

\* A call picks the fence up: settleExistingAttachmentFence and
\* prepareDiskDeleteFence read it, the dispatching call holds it already.
Load(w) ==
  /\ pc[w] = "idle"
  /\ fence # NoFence
  /\ copy' = [copy EXCEPT ![w] = fence]
  /\ pc' = [pc EXCEPT ![w] = "read"]
  /\ raced' = (raced \/ \E x \in Waiters \ {w} : pc[x] # "idle")
  /\ UNCHANGED <<now, fence, evidence, target, at, sighted>>

\* Both endpoints answer: listed or exact presence is presence, and so is a read
\* that waitForDiskAbsent could not complete.
Read(w) ==
  /\ pc[w] = "read"
  /\ IF Spaced(copy[w])
     THEN /\ \/ /\ pc' = [pc EXCEPT ![w] = "absent"]
                /\ UNCHANGED sighted
             \/ /\ pc' = [pc EXCEPT ![w] = "present"]
                /\ sighted' = [sighted EXCEPT ![w] = now]
          /\ at' = [at EXCEPT ![w] = now]
          /\ UNCHANGED <<copy, target>>
     ELSE Stop(w)
  /\ UNCHANGED <<now, fence, evidence>>

\* Mutant: waitMutationReadbackUntil is not taken into account: the observation counts
\* however soon it follows.
AbsentUnspaced(w) ==
  /\ pc[w] = "absent"
  /\ IF copy[w].count = 3
     THEN pc' = [pc EXCEPT ![w] = "complete"] /\ UNCHANGED target
     ELSE /\ target' = [target EXCEPT ![w] = Extended(copy[w], at[w])]
          /\ pc' = [pc EXCEPT ![w] = "write"]
  /\ UNCHANGED <<now, fence, evidence, copy, at, sighted>>

\* switch observation.Count
Absent(w) ==
  /\ pc[w] = "absent"
  /\ CASE copy[w].count = 3 ->
            pc' = [pc EXCEPT ![w] = "complete"] /\ UNCHANGED target
       [] copy[w].count \in {1, 2} /\ at[w] < copy[w].last + Interval ->
            pc' = [pc EXCEPT ![w] = "wait"] /\ UNCHANGED target
       [] OTHER ->
            /\ target' = [target EXCEPT ![w] = Extended(copy[w], at[w])]
            /\ pc' = [pc EXCEPT ![w] = "write"]
  /\ UNCHANGED <<now, fence, evidence, copy, at, sighted>>

\* waitMutationReadbackUntil, then the next round of reads
Wait(w) ==
  /\ pc[w] = "wait"
  /\ now >= copy[w].last + Interval
  /\ pc' = [pc EXCEPT ![w] = "read"]
  /\ UNCHANGED <<now, fence, evidence, copy, target, at, sighted>>

\* Mutant: a disk seen again leaves the old observation in place.
PresentKept(w) ==
  /\ pc[w] = "present"
  /\ pc' = [pc EXCEPT ![w] = "read"]
  /\ UNCHANGED <<now, fence, evidence, copy, target, at, sighted>>

Present(w) ==
  /\ pc[w] = "present"
  /\ IF copy[w].count = 0
     THEN pc' = [pc EXCEPT ![w] = "read"] /\ UNCHANGED target
     ELSE /\ target' = [target EXCEPT ![w] = Nothing]
          /\ pc' = [pc EXCEPT ![w] = "write"]
  /\ UNCHANGED <<now, fence, evidence, copy, at, sighted>>

\* Where the loop goes after an update: the third observation ends it, whatever
\* fence the update returned.
Continue(w, f) ==
  /\ copy' = [copy EXCEPT ![w] = f]
  /\ pc' = [pc EXCEPT ![w] =
              IF target[w].count # 0 /\ copy[w].count = 2 THEN "complete" ELSE "read"]
  /\ target' = [target EXCEPT ![w] = Nothing]
  /\ at' = [at EXCEPT ![w] = 0]

\* updateMutationObservation around SetObservation: a compare-and-swap whose
\* answer may be lost; a changed fence is read again and adopted, a missing one
\* was completed by another waiter.
Write(w) ==
  /\ pc[w] = "write"
  /\ \/ /\ fence = copy[w]
        /\ fence' = target[w]
        /\ evidence' = IF target[w].count = 0 THEN <<>> ELSE Append(evidence, at[w])
        /\ (Continue(w, target[w]) /\ UNCHANGED sighted) \/ Stop(w)
     \/ /\ fence \notin {copy[w], NoFence}
        /\ Continue(w, fence)
        /\ UNCHANGED <<fence, evidence, sighted>>
     \/ /\ fence = NoFence
        /\ Stop(w)
        /\ UNCHANGED <<fence, evidence>>
  /\ UNCHANGED now

\* The fence is deleted if it still is the one last seen.
Complete(w) ==
  /\ pc[w] = "complete"
  /\ fence' = IF fence = copy[w] THEN NoFence ELSE fence
  /\ Stop(w)
  /\ UNCHANGED <<now, evidence>>

\* A failed read or write, the readback deadline, a crash of the controller.
GiveUp(w) ==
  /\ pc[w] # "idle"
  /\ Stop(w)
  /\ UNCHANGED <<now, fence, evidence>>

Tick == /\ now < MaxTime
        /\ now' = now + 1
        /\ UNCHANGED <<fence, evidence, pc, copy, target, at, sighted, raced>>

Init ==
  /\ now = 0
  /\ fence = Nothing
  /\ evidence = <<>>
  /\ pc = [w \in Waiters |-> "idle"]
  /\ copy = [w \in Waiters |-> Nothing]
  /\ target = [w \in Waiters |-> Nothing]
  /\ at = [w \in Waiters |-> 0]
  /\ sighted = [w \in Waiters |-> 0]
  /\ raced = FALSE

Loop(w) == \/ Read(w) \/ Absent(w) \/ Wait(w) \/ Present(w)
           \/ Write(w) \/ Complete(w) \/ GiveUp(w)

Step(w) == Load(w) \/ (Loop(w) /\ UNCHANGED raced)

Next == Tick \/ \E w \in Waiters : Step(w)

Spec == Init /\ [][Next]_vars

-----------------------------------------------------------------------------

\* The stored observation, the waiters' copies and clocks have their types.
TypeOK ==
  /\ now \in Nat
  /\ fence \in Observation \cup {NoFence}
  /\ evidence \in Seq(Nat)
  /\ pc \in [Waiters -> {"idle", "read", "absent", "present", "wait", "write", "complete"}]
  /\ copy \in [Waiters -> Observation]
  /\ target \in [Waiters -> Observation]
  /\ at \in [Waiters -> Nat]
  /\ sighted \in [Waiters -> Nat]
  /\ raced \in BOOLEAN

\* The count on the fence never overstates what was persisted: it stands for
\* that many absence reads since the fence was last erased, each at least
\* Interval after the one before, however many calls wait, race and crash
\* (waitForDetached, waitForDiskAbsent, validateMutationObservationSpacing).
\* It says nothing of sightings: one that another call has not persisted yet, or
\* whose call died, erases nothing.
EvidenceIsReal ==
  fence # NoFence =>
    /\ Len(evidence) = fence.count
    /\ \A i \in 1..(Len(evidence) - 1) : evidence[i + 1] >= evidence[i] + Interval

\* What the call in the loop builds on is no older than its own last sighting of
\* the disk (the visible branches of waitForDetached and waitForDiskAbsent).
BuildsOnNewer(w) ==
  fence # NoFence /\ fence.count > 0 /\ pc[w] \in {"read", "absent", "wait", "complete"}
    => evidence[1] >= sighted[w]

\* As long as one call at a time works on a fence, across any number of crashes
\* and retries, it completes only on three persisted absence observations, all of
\* them made after the completing call last saw the disk (waitForDetached,
\* waitForDiskAbsent).
CompletionIsProven ==
  [][fence # NoFence /\ fence' = NoFence /\ ~raced =>
       /\ fence.count = 3
       /\ \E w \in Waiters : pc[w] = "complete" /\ evidence[1] >= sighted[w]]_vars

\* The same of calls that overlap: detaches and deletes "require three separately
\* persisted absence observations" (the driver's README).
CompletionNeedsThree ==
  [][fence # NoFence /\ fence' = NoFence => fence.count = 3]_vars

-----------------------------------------------------------------------------
(* The parts of the inductive invariants *)

\* What a waiter about to persist an observation knows about the fence it will
\* compare with.
PendingOK(w) ==
  pc[w] = "write" /\ target[w].count # 0 =>
    /\ copy[w].count < 3
    /\ target[w] = Extended(copy[w], at[w])
    /\ copy[w].count > 0 => at[w] >= copy[w].last + Interval

\* The stored time stamp is that of the last piece of evidence.
StampOK ==
  fence # NoFence /\ fence.count > 0 => evidence[fence.count] = fence.last

EvidenceInv == TypeOK /\ EvidenceIsReal /\ StampOK /\ \A w \in Waiters : PendingOK(w)

\* A waiter that is alone has an exact copy of the fence, and completes only a
\* third observation.
AloneOK(w) ==
  /\ pc[w] # "idle" => fence = copy[w]
  /\ pc[w] = "complete" => copy[w].count = 3
  /\ pc[w] = "write" /\ target[w].count = 0 => target[w] = Nothing

\* Its reads are ordered in time.
OrderOK(w) ==
  /\ sighted[w] <= now
  /\ pc[w] = "idle" => sighted[w] = 0
  /\ pc[w] = "absent" \/ (pc[w] = "write" /\ target[w].count # 0) => sighted[w] <= at[w]
  /\ pc[w] = "write" /\ target[w].count # 0 /\ copy[w].count > 0 => evidence[1] >= sighted[w]

AloneInv ==
  /\ EvidenceInv
  /\ ~raced => \A w \in Waiters :
       /\ AloneOK(w) /\ OrderOK(w) /\ BuildsOnNewer(w)
       /\ \A x \in Waiters : pc[w] # "idle" /\ pc[x] # "idle" => w = x

=============================================================================
